------------------------ MODULE SequenceFilterProofs ------------------------
(***************************************************************************)
(* What Only returns, for any sequence and set, and the induction over the *)
(* naturals this needs, in a form the provers can use: for sets.           *)
(***************************************************************************)
EXTENDS SequenceFilter, SequenceTheorems, WellFoundedInduction, TLAPS

\* A set of naturals that has an element has a smallest one.
LEMMA SmallestOf ==
  ASSUME NEW S, S \subseteq Nat, S # {}
  PROVE  \E x \in S : \A y \in S : x <= y
<1> DEFINE Less == OpToRel(<, Nat)
<1>1. PICK x \in S : \A y \in S : ~(<<y, x>> \in Less)
  <2> HIDE DEF Less
  <2>1. IsWellFoundedOn(Less, Nat)
    BY NatLessThanWellFounded, Zenon DEF Less
  <2> QED
    BY <2>1, WFMin, Zenon
<1>2. \A y \in S : ~(y < x)
  BY <1>1 DEF OpToRel
<1>3. \A y \in S : x <= y
  BY <1>2
<1> QED
  BY <1>3

\* Induction over the naturals, for a set in place of a predicate: a number out
\* of T would have a smallest one below it.
LEMMA InductionOnSets ==
  ASSUME NEW T, 0 \in T, \A n \in Nat : n \in T => n + 1 \in T
  PROVE  Nat \subseteq T
<1> SUFFICES ASSUME Nat \ T # {} PROVE FALSE
  OBVIOUS
<1>1. PICK x \in Nat \ T : \A y \in Nat \ T : x <= y
  BY SmallestOf
<1>2. x - 1 \in Nat /\ (x - 1) + 1 = x
  OBVIOUS
<1> QED
  BY <1>1, <1>2

-----------------------------------------------------------------------------
(* Filtering a sequence                                                    *)

\* f is the function Upto of Only(s, T), as far as k.
UptoStep(f, s, T, n) ==
  IF n = 0 THEN <<>> ELSE IF s[n] \in T THEN Append(f[n - 1], s[n]) ELSE f[n - 1]
IsUpto(f, s, T, k) == f = [n \in 0..k |-> UptoStep(f, s, T, n)]

LEMMA UptoExists ==
  ASSUME NEW s, NEW T, NEW k \in Nat
  PROVE  \E f : IsUpto(f, s, T, k)
<1> DEFINE Good == {n \in Nat : \E f : IsUpto(f, s, T, n)}
<1>1. 0 \in Good
  <2>1. IsUpto([n \in 0..0 |-> <<>>], s, T, 0)
    BY DEF IsUpto, UptoStep
  <2> QED
    BY <2>1
<1>2. ASSUME NEW n \in Nat, n \in Good PROVE n + 1 \in Good
  <2>1. PICK f : IsUpto(f, s, T, n)
    BY <1>2
  <2> DEFINE g == [i \in 0..n + 1 |-> UptoStep(f, s, T, i)]
  <2>2. \A i \in 0..n : f[i] = UptoStep(f, s, T, i) /\ g[i] = f[i]
    BY <2>1 DEF IsUpto
  <2>3. \A i \in 0..n + 1 : i = 0 \/ g[i - 1] = f[i - 1]
    BY <2>2
  <2> HIDE DEF g
  <2>4. \A i \in 0..n + 1 : UptoStep(g, s, T, i) = UptoStep(f, s, T, i)
    BY <2>3 DEF UptoStep
  <2>5. IsUpto(g, s, T, n + 1)
    BY <2>4 DEF IsUpto, g
  <2> QED
    BY <2>5
<1> HIDE DEF Good
<1>3. k \in Good
  BY <1>1, <1>2, InductionOnSets
<1> QED
  BY <1>3 DEF Good

LEMMA UptoOfPrefix ==
  ASSUME NEW s, NEW t, NEW T, NEW k \in Nat, NEW m \in Nat, NEW f, NEW g,
         IsUpto(f, s, T, k), IsUpto(g, t, T, m), k <= m, \A i \in 1..k : s[i] = t[i]
  PROVE  f[k] = g[k]
<1> DEFINE Good == {n \in Nat : n <= k => f[n] = g[n]}
<1>1. \A n \in 0..k : f[n] = UptoStep(f, s, T, n)
  BY DEF IsUpto
<1>2. \A n \in 0..k : g[n] = UptoStep(g, t, T, n)
  <2>1. \A n \in 0..m : g[n] = UptoStep(g, t, T, n)
    BY DEF IsUpto
  <2> QED
    BY <2>1
<1>3. 0 \in Good
  BY <1>1, <1>2 DEF UptoStep
<1>4. ASSUME NEW n \in Nat, n \in Good PROVE n + 1 \in Good
  BY <1>1, <1>2, <1>4 DEF UptoStep
<1> HIDE DEF Good
<1>5. k \in Good
  BY <1>3, <1>4, InductionOnSets
<1> QED
  BY <1>5 DEF Good

LEMMA OnlyIsUpto ==
  ASSUME NEW s, NEW T, Len(s) \in Nat
  PROVE  \E f : IsUpto(f, s, T, Len(s)) /\ Only(s, T) = f[Len(s)]
<1> DEFINE f == CHOOSE f : f = [n \in 0..Len(s) |-> UptoStep(f, s, T, n)]
<1>1. Only(s, T) = f[Len(s)]
  BY DEF Only, UptoStep
<1>2. IsUpto(f, s, T, Len(s))
  BY UptoExists DEF IsUpto
<1> QED
  BY <1>1, <1>2

LEMMA OnlyOfEmpty == ASSUME NEW T PROVE Only(<<>>, T) = <<>>
<1>1. PICK f : IsUpto(f, <<>>, T, 0) /\ Only(<<>>, T) = f[0]
  BY OnlyIsUpto
<1> QED
  BY <1>1 DEF IsUpto, UptoStep

LEMMA OnlyOfAppend ==
  ASSUME NEW S, NEW s \in Seq(S), NEW e \in S, NEW T
  PROVE  Only(Append(s, e), T) = IF e \in T THEN Append(Only(s, T), e) ELSE Only(s, T)
<1> DEFINE t == Append(s, e)
<1>1. Len(s) \in Nat /\ Len(t) = Len(s) + 1 /\ t[Len(t)] = e
      /\ \A i \in 1..Len(s) : s[i] = t[i]
  OBVIOUS
<1> HIDE DEF t
<1>2. PICK f : IsUpto(f, s, T, Len(s)) /\ Only(s, T) = f[Len(s)]
  BY <1>1, OnlyIsUpto
<1>3. PICK g : IsUpto(g, t, T, Len(t)) /\ Only(t, T) = g[Len(t)]
  BY <1>1, OnlyIsUpto
<1>4. f[Len(s)] = g[Len(s)]
  <2>1. Len(s) \in Nat /\ Len(t) \in Nat /\ Len(s) <= Len(t)
    BY <1>1
  <2>2. \A i \in 1..Len(s) : s[i] = t[i]
    BY <1>1
  <2>3. IsUpto(f, s, T, Len(s)) /\ IsUpto(g, t, T, Len(t))
    BY <1>2, <1>3
  <2> QED
    BY <2>1, <2>2, <2>3, UptoOfPrefix
<1>5. g[Len(t)] = UptoStep(g, t, T, Len(t))
  BY <1>1, <1>3 DEF IsUpto
<1>6. Only(t, T) = IF e \in T THEN Append(Only(s, T), e) ELSE Only(s, T)
  BY <1>1, <1>2, <1>3, <1>4, <1>5 DEF UptoStep
<1> QED
  BY <1>6 DEF t

LEMMA OnlyType ==
  ASSUME NEW S, NEW s \in Seq(S), NEW T
  PROVE  Only(s, T) \in Seq(S \cap T)
<1>1. PICK f : IsUpto(f, s, T, Len(s)) /\ Only(s, T) = f[Len(s)]
  BY OnlyIsUpto
<1> DEFINE Good == {n \in Nat : n <= Len(s) => f[n] \in Seq(S \cap T)}
<1>2. \A n \in 0..Len(s) : f[n] = UptoStep(f, s, T, n)
  BY <1>1 DEF IsUpto
<1>3. 0 \in Good
  <2>1. f[0] = <<>>
    BY <1>2 DEF UptoStep
  <2>2. <<>> \in Seq(S \cap T)
    BY EmptySeq
  <2> QED
    BY <2>1, <2>2, Zenon
<1>4. ASSUME NEW n \in Nat, n \in Good PROVE n + 1 \in Good
  <2> SUFFICES ASSUME n + 1 <= Len(s) PROVE f[n + 1] \in Seq(S \cap T)
    OBVIOUS
  <2>1. f[n] \in Seq(S \cap T) /\ s[n + 1] \in S
    BY <1>4
  <2>2. f[n + 1] = IF s[n + 1] \in T THEN Append(f[n], s[n + 1]) ELSE f[n]
    <3>1. n + 1 \in 0..Len(s) /\ n + 1 # 0 /\ (n + 1) - 1 = n
      OBVIOUS
    <3> QED
      BY <1>2, <3>1 DEF UptoStep
  <2> QED
    BY <2>1, <2>2
<1> HIDE DEF Good
<1>5. Len(s) \in Good
  BY <1>3, <1>4, InductionOnSets
<1> QED
  BY <1>1, <1>5 DEF Good

\* Only(s, T) is the part of s at the places h, which are all the places with an
\* element of T, in order.
SelectedAt(h, t, s, T, n) ==
  /\ h \in [1..Len(t) -> 1..n]
  /\ \A i \in 1..Len(t) : t[i] = s[h[i]] /\ s[h[i]] \in T
  /\ \A i, j \in 1..Len(t) : i < j => h[i] < h[j]
  /\ \A k \in 1..n : s[k] \in T => \E i \in 1..Len(t) : h[i] = k

LEMMA OnlyIsSubsequence ==
  ASSUME NEW S, NEW s \in Seq(S), NEW T
  PROVE  \E h : SelectedAt(h, Only(s, T), s, T, Len(s))
<1>1. PICK f : IsUpto(f, s, T, Len(s)) /\ Only(s, T) = f[Len(s)]
  BY OnlyIsUpto
<1> DEFINE Good == {n \in Nat : n <= Len(s) => /\ f[n] \in Seq(S)
                                               /\ \E h : SelectedAt(h, f[n], s, T, n)}
<1>2. \A n \in 0..Len(s) : f[n] = UptoStep(f, s, T, n)
  BY <1>1 DEF IsUpto
<1>3. 0 \in Good
  <2>1. f[0] = <<>>
    BY <1>2 DEF UptoStep
  <2>2. <<>> \in Seq(S) /\ Len(<<>>) = 0
    BY EmptySeq
  <2>3. SelectedAt([i \in 1..0 |-> 0], <<>>, s, T, 0)
    BY <2>2 DEF SelectedAt
  <2> QED
    BY <2>1, <2>2, <2>3, Zenon
<1>4. ASSUME NEW n \in Nat, n \in Good PROVE n + 1 \in Good
  <2> SUFFICES ASSUME n + 1 <= Len(s)
               PROVE  f[n + 1] \in Seq(S) /\ \E h : SelectedAt(h, f[n + 1], s, T, n + 1)
    OBVIOUS
  <2>1. f[n] \in Seq(S) /\ s[n + 1] \in S
    BY <1>4
  <2>2. PICK h : SelectedAt(h, f[n], s, T, n)
    BY <1>4
  <2>3. f[n + 1] = IF s[n + 1] \in T THEN Append(f[n], s[n + 1]) ELSE f[n]
    <3>1. n + 1 \in 0..Len(s) /\ n + 1 # 0 /\ (n + 1) - 1 = n
      OBVIOUS
    <3> QED
      BY <1>2, <3>1 DEF UptoStep
  <2> DEFINE t == f[n]  l == Len(t)
  <2>4. l \in Nat /\ t \in Seq(S)
    BY <2>1
  <2>5. CASE s[n + 1] \in T
    <3> DEFINE u == Append(t, s[n + 1])
               g == [i \in 1..l + 1 |-> IF i = l + 1 THEN n + 1 ELSE h[i]]
    <3>1. u \in Seq(S) /\ Len(u) = l + 1 /\ u[l + 1] = s[n + 1] /\ \A i \in 1..l : u[i] = t[i]
      BY <2>1, <2>4
    <3>2. \A i \in 1..l : h[i] \in 1..n /\ g[i] = h[i]
      BY <2>2, <2>4 DEF SelectedAt
    <3>3. g[l + 1] = n + 1 /\ DOMAIN g = 1..l + 1
      BY <2>4
    <3>4. \A i \in 1..l + 1 : i \in 1..l \/ i = l + 1
      BY <2>4
    <3>5. g \in [1..l + 1 -> 1..n + 1]
      <4>1. \A i \in 1..l + 1 : g[i] \in 1..n + 1
        <5>1. n + 1 \in 1..n + 1 /\ 1..n \subseteq 1..n + 1
          OBVIOUS
        <5> HIDE DEF g, l
        <5> QED
          BY <3>2, <3>3, <3>4, <5>1
      <4> QED
        BY <4>1
    <3> HIDE DEF g, u, t, l
    <3>6. \A i \in 1..l + 1 : u[i] = s[g[i]] /\ s[g[i]] \in T
      BY <2>2, <2>5, <3>1, <3>2, <3>3, <3>4 DEF SelectedAt, t, l
    <3>7. \A i, j \in 1..l + 1 : i < j => g[i] < g[j]
      <4> SUFFICES ASSUME NEW i \in 1..l + 1, NEW j \in 1..l + 1, i < j PROVE g[i] < g[j]
        OBVIOUS
      <4>1. i \in 1..l
        BY <2>4
      <4>2. CASE j \in 1..l
        BY <2>2, <3>2, <4>1, <4>2 DEF SelectedAt, t, l
      <4>3. CASE j = l + 1
        BY <3>2, <3>3, <4>1, <4>3
      <4> QED
        BY <3>4, <4>2, <4>3
    <3>8. \A k \in 1..n + 1 : s[k] \in T => \E i \in 1..l + 1 : g[i] = k
      <4> SUFFICES ASSUME NEW k \in 1..n + 1, s[k] \in T PROVE \E i \in 1..l + 1 : g[i] = k
        OBVIOUS
      <4>1. CASE k = n + 1
        BY <2>4, <3>3, <4>1
      <4>2. CASE k \in 1..n
        <5>1. PICK i \in 1..l : h[i] = k
          BY <2>2, <4>2 DEF SelectedAt, t, l
        <5> QED
          BY <2>4, <3>2, <5>1
      <4> QED
        BY <4>1, <4>2
    <3>9. SelectedAt(g, u, s, T, n + 1)
      BY <3>1, <3>5, <3>6, <3>7, <3>8 DEF SelectedAt
    <3> QED
      BY <2>3, <2>5, <3>1, <3>9 DEF u, t
  <2>6. CASE s[n + 1] \notin T
    <3>1. SelectedAt(h, f[n], s, T, n + 1)
      BY <2>1, <2>2, <2>6 DEF SelectedAt
    <3> QED
      BY <2>1, <2>3, <2>6, <3>1
  <2> QED
    BY <2>5, <2>6
<1> HIDE DEF Good
<1>5. Len(s) \in Good
  BY <1>3, <1>4, InductionOnSets
<1> QED
  BY <1>1, <1>5 DEF Good

\* The sequences filtered most: of one element and of two.
LEMMA OnlyOfOne ==
  ASSUME NEW a, NEW T
  PROVE  Only(<<a>>, T) = IF a \in T THEN <<a>> ELSE <<>>
<1>1. <<>> \in Seq({a}) /\ a \in {a} /\ Append(<<>>, a) = <<a>>
  OBVIOUS
<1>2. Only(Append(<<>>, a), T) = IF a \in T THEN Append(Only(<<>>, T), a) ELSE Only(<<>>, T)
  BY <1>1, OnlyOfAppend
<1> QED
  BY <1>1, <1>2, OnlyOfEmpty

LEMMA OnlyOfTwo ==
  ASSUME NEW S, NEW a \in S, NEW b \in S, NEW T
  PROVE  Only(<<a>> \o <<b>>, T) = Only(<<a>>, T) \o Only(<<b>>, T)
<1>1. <<a>> \in Seq(S) /\ <<a>> \o <<b>> = Append(<<a>>, b)
  OBVIOUS
<1>2. Only(Append(<<a>>, b), T) = IF b \in T THEN Append(Only(<<a>>, T), b) ELSE Only(<<a>>, T)
  BY <1>1, OnlyOfAppend
<1>3. /\ Only(<<a>>, T) = IF a \in T THEN <<a>> ELSE <<>>
      /\ Only(<<b>>, T) = IF b \in T THEN <<b>> ELSE <<>>
  BY OnlyOfOne
<1>4. /\ Append(<<a>>, b) = <<a>> \o <<b>> /\ <<a>> \o <<>> = <<a>>
      /\ Append(<<>>, b) = <<>> \o <<b>> /\ <<>> \o <<>> = <<>>
  OBVIOUS
<1>5. CASE a \in T
  <2>1. Only(<<a>>, T) = <<a>>
    BY <1>3, <1>5, Zenon
  <2> QED
    BY <1>2, <1>3, <1>4, <2>1, Zenon
<1>6. CASE a \notin T
  <2>1. Only(<<a>>, T) = <<>>
    BY <1>3, <1>6, Zenon
  <2> QED
    BY <1>2, <1>3, <1>4, <2>1, Zenon
<1> QED
  BY <1>5, <1>6

=============================================================================
