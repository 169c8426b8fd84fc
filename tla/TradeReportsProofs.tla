------------------------- MODULE TradeReportsProofs -------------------------
(***************************************************************************)
(* Induction without a parameter that is an operator, what a sublist and a *)
(* flattened sequence hold and how often, and what the reports of          *)
(* python/analysis compute from any number of trades: sums of profits and  *)
(* drawdowns.                                                              *)
(***************************************************************************)
EXTENDS TradeReports, FiniteSetTheorems, SequenceTheorems, TLAPS

-----------------------------------------------------------------------------
(* Sublists and flattened sequences.                                       *)

(* A set of natural numbers that is not empty has a least element: the     *)
(* intervals 1..k below a number are well-founded by inclusion.            *)
LEMMA LeastNatural ==
    ASSUME NEW T \in SUBSET Nat, T # {}
    PROVE  \E m \in T : \A k \in T : m <= k
<1>1. PICK n \in T : TRUE
  OBVIOUS
<1> DEFINE S == 1..n
           R == StrictSubsetOrdering(S)
           D == {1..k : k \in {j \in T : j <= n}}
<1>2. IsFiniteSet(S)
  BY FS_Interval
<1>3. IsWellFoundedOn(R, FiniteSubsetsOf(S)) /\ FiniteSubsetsOf(S) = SUBSET S
  BY <1>2, FS_StrictSubsetOrderingWellFounded, FS_FiniteSubsetsOfFinite
<1>4. D \subseteq SUBSET S /\ D # {}
  BY <1>1
<1>5. PICK x \in D : \A y \in D : ~ (<<y, x>> \in R)
  <2> HIDE DEF R, D, S
  <2> QED BY <1>3, <1>4, WFMin
<1>6. PICK m \in T : m <= n /\ x = 1..m
  BY <1>5
<1>7. ASSUME NEW k \in T, k < m
      PROVE  FALSE
  <2>1. 1..k \in D
    BY <1>6, <1>7
  <2>2. /\ (1..k) \in SUBSET S /\ (1..m) \in SUBSET S
        /\ 1..k \subseteq 1..m /\ 1..k # 1..m
    <3>1. m \in 1..m /\ m \notin 1..k
      BY <1>6, <1>7
    <3> QED BY <1>6, <1>7, <3>1
  <2>3. <<1..k, 1..m>> \in R
    BY <2>2 DEF StrictSubsetOrdering
  <2> QED
    BY <1>5, <1>6, <2>1, <2>3
<1> QED
  BY <1>6, <1>7

(* Induction over the natural numbers, for a set instead of a predicate.   *)
LEMMA SetInduction ==
    ASSUME NEW T, 0 \in T, \A n \in Nat : n \in T => n + 1 \in T
    PROVE  Nat \subseteq T
<1> DEFINE B == {n \in Nat : n \notin T}
<1>1. ASSUME B # {}
      PROVE  FALSE
  <2>1. PICK m \in B : \A k \in B : m <= k
    BY <1>1, LeastNatural
  <2>2. m # 0 /\ m - 1 \in Nat /\ m - 1 \notin B
    BY <2>1
  <2> QED
    BY <2>1, <2>2
<1> QED
  BY <1>1

(* The recursion that defines a sublist has a solution.                    *)
LEMMA SublistRecursion ==
    ASSUME NEW S, NEW s \in Seq(S), NEW P
    PROVE  \E f : /\ f = [n \in 0..Len(s) |->
                            IF n = 0 THEN <<>>
                            ELSE IF n \in P THEN Append(f[n - 1], s[n]) ELSE f[n - 1]]
                  /\ Sublist(s, P) = f[Len(s)]
<1> DEFINE Solves(f, m) ==
             f = [n \in 0..m |->
                    IF n = 0 THEN <<>>
                    ELSE IF n \in P THEN Append(f[n - 1], s[n]) ELSE f[n - 1]]
           T == {m \in Nat : \E f : Solves(f, m)}
<1>1. 0 \in T
  <2>1. Solves([n \in 0..0 |-> <<>>], 0)
    OBVIOUS
  <2> QED BY <2>1
<1>2. ASSUME NEW m \in Nat, m \in T
      PROVE  m + 1 \in T
  <2>1. PICK f : Solves(f, m)
    BY <1>2
  <2> DEFINE g == [n \in 0..(m + 1) |->
                     IF n <= m THEN f[n]
                     ELSE IF n \in P THEN Append(f[m], s[n]) ELSE f[m]]
  <2>2. Solves(g, m + 1)
    <3>1. \A n \in 0..(m + 1) :
             g[n] = IF n = 0 THEN <<>>
                    ELSE IF n \in P THEN Append(g[n - 1], s[n]) ELSE g[n - 1]
      <4>1. \A n \in 0..m :
               f[n] = IF n = 0 THEN <<>>
                      ELSE IF n \in P THEN Append(f[n - 1], s[n]) ELSE f[n - 1]
        BY <2>1
      <4>2. \A n \in 0..m : n # 0 => n - 1 \in 0..m
        OBVIOUS
      <4> QED BY <4>1, <4>2
    <3> HIDE DEF g
    <3>2. g = [n \in 0..(m + 1) |-> g[n]]
      BY DEF g
    <3> QED BY <3>1, <3>2
  <2> HIDE DEF Solves, g
  <2> QED BY <2>2
<1>3. Len(s) \in T
  <2>1. Nat \subseteq T
    <3> HIDE DEF T
    <3> QED BY <1>1, <1>2, SetInduction
  <2> HIDE DEF T
  <2> QED BY <2>1, LenProperties
<1>4. PICK g : Solves(g, Len(s))
  BY <1>3
<1> DEFINE c == CHOOSE h : Solves(h, Len(s))
<1>5. Solves(c, Len(s))
  BY <1>4
<1>6. Sublist(s, P) = c[Len(s)]
  BY DEF Sublist
<1> QED
  BY <1>5, <1>6


(* A sublist holds the elements at the kept positions, each once: its own  *)
(* positions correspond to them one to one.                                *)
Picks(b, r, s, K) ==
    /\ b \in [1..Len(r) -> K]
    /\ \A i, j \in 1..Len(r) : b[i] = b[j] => i = j
    /\ \A k \in K : \E i \in 1..Len(r) : b[i] = k
    /\ \A i \in 1..Len(r) : r[i] = s[b[i]]

\* A sublist is made of the elements at its positions, each once.
LEMMA SublistPicks ==
    ASSUME NEW S, NEW s \in Seq(S), NEW P
    PROVE  /\ Sublist(s, P) \in Seq(S)
           /\ \E b : Picks(b, Sublist(s, P), s, P \cap (1..Len(s)))
<1> DEFINE n == Len(s)
<1>1. PICK f : /\ f = [k \in 0..n |->
                         IF k = 0 THEN <<>>
                         ELSE IF k \in P THEN Append(f[k - 1], s[k]) ELSE f[k - 1]]
               /\ Sublist(s, P) = f[n]
  BY SublistRecursion
<1>2. n \in Nat /\ \A k \in 1..n : s[k] \in S
  BY LenProperties, ElementOfSeq
<1> HIDE DEF n
<1>3. f[0] = <<>>
  BY <1>1, <1>2
<1>4. ASSUME NEW k \in Nat, k + 1 <= n
      PROVE  f[k + 1] = IF k + 1 \in P THEN Append(f[k], s[k + 1]) ELSE f[k]
  <2>1. k + 1 \in 0..n /\ k + 1 # 0 /\ (k + 1) - 1 = k
    BY <1>2, <1>4
  <2> QED BY <1>1, <2>1
<1> DEFINE Good(k) == f[k] \in Seq(S) /\ \E b : Picks(b, f[k], s, P \cap (1..k))
           T == {k \in Nat : k <= n => Good(k)}
<1>a. 0 \in T
  <2>1. Picks(<<>>, <<>>, s, P \cap (1..0))
    BY DEF Picks
  <2>2. <<>> \in Seq(S)
    BY EmptySeq
  <2> QED BY <1>3, <2>1, <2>2
<1>b. ASSUME NEW k \in Nat, k \in T
      PROVE  k + 1 \in T
  <2> SUFFICES ASSUME k + 1 <= n
               PROVE  Good(k + 1)
    <3> HIDE DEF Good
    <3> QED OBVIOUS
  <2>0. Good(k)
    <3> HIDE DEF Good
    <3> QED BY <1>2, <1>b
  <2>1. f[k] \in Seq(S)
    BY <2>0
  <2>2. PICK b : Picks(b, f[k], s, P \cap (1..k))
    BY <2>0
  <2>3. CASE k + 1 \in P
    <3> DEFINE r == Append(f[k], s[k + 1])
               c == [i \in 1..Len(r) |-> IF i <= Len(f[k]) THEN b[i] ELSE k + 1]
    <3>1. f[k + 1] = r
      BY <1>4, <2>3
    <3>2. /\ r \in Seq(S) /\ Len(r) = Len(f[k]) + 1 /\ r[Len(r)] = s[k + 1]
          /\ Len(f[k]) \in Nat
          /\ \A i \in 1..Len(f[k]) : r[i] = f[k][i]
      BY <1>2, <2>1, AppendProperties
    <3>3. /\ P \cap (1..(k + 1)) = (P \cap (1..k)) \cup {k + 1}
          /\ k + 1 \notin P \cap (1..k)
      BY <2>3
    <3>4. Picks(c, r, s, P \cap (1..(k + 1)))
      <4> HIDE DEF r
      <4>1. \A i \in 1..Len(f[k]) : c[i] = b[i] /\ b[i] \in P \cap (1..k)
        <5>1. \A i \in 1..Len(f[k]) : b[i] \in P \cap (1..k)
          BY <2>2 DEF Picks
        <5>2. \A i \in 1..Len(f[k]) : i \in 1..Len(r) /\ i <= Len(f[k])
          BY <3>2
        <5> QED BY <5>1, <5>2
      <4>2. c[Len(r)] = k + 1
        BY <3>2
      <4>3. 1..Len(r) = (1..Len(f[k])) \cup {Len(r)} /\ Len(r) \notin 1..Len(f[k])
        BY <3>2
      <4>4. c \in [1..Len(r) -> P \cap (1..(k + 1))]
        BY <3>3, <4>1, <4>2, <4>3
      <4> HIDE DEF c
      <4>5. \A i, j \in 1..Len(r) : c[i] = c[j] => i = j
        <5>1. \A i, j \in 1..Len(f[k]) : b[i] = b[j] => i = j
          BY <2>2 DEF Picks
        <5>2. \A i \in 1..Len(f[k]) : c[i] # c[Len(r)]
          BY <3>3, <4>1, <4>2
        <5> QED BY <4>1, <4>3, <5>1, <5>2
      <4>6. \A x \in P \cap (1..(k + 1)) : \E i \in 1..Len(r) : c[i] = x
        BY <2>2, <3>3, <4>1, <4>2, <4>3 DEF Picks
      <4>7. \A i \in 1..Len(r) : r[i] = s[c[i]]
        BY <2>2, <3>2, <4>1, <4>2, <4>3 DEF Picks
      <4> QED BY <4>4, <4>5, <4>6, <4>7 DEF Picks
    <3> QED BY <3>1, <3>2, <3>4
  <2>4. CASE k + 1 \notin P
    <3>1. f[k + 1] = f[k]
      BY <1>4, <2>4
    <3>2. P \cap (1..(k + 1)) = P \cap (1..k)
      BY <2>4
    <3> QED BY <2>1, <2>2, <3>1, <3>2
  <2> QED BY <2>3, <2>4
<1>6. n \in T
  <2>1. Nat \subseteq T
    <3> HIDE DEF T
    <3> QED BY <1>a, <1>b, SetInduction
  <2> HIDE DEF T
  <2> QED BY <1>2, <2>1
<1>7. Good(n)
  <2> HIDE DEF Good
  <2> QED BY <1>2, <1>6
<1> QED
  BY <1>1, <1>7 DEF n

(* The recursion that flattens a sequence of sequences has a solution.     *)
LEMMA FlattenRecursion ==
    ASSUME NEW S, NEW ss \in Seq(Seq(S)), Len(ss) # 0
    PROVE  \E f : /\ f = [n \in 1..Len(ss) |->
                            IF n = 1 THEN ss[n] ELSE f[n - 1] \o ss[n]]
                  /\ FlattenSeq(ss) = f[Len(ss)]
<1> DEFINE Solves(f, m) == f = [n \in 1..m |-> IF n = 1 THEN ss[n] ELSE f[n - 1] \o ss[n]]
           T == {m \in Nat : \E f : Solves(f, m)}
<1>1. 0 \in T
  <2>1. Solves([n \in 1..0 |-> ss[n]], 0)
    OBVIOUS
  <2> QED BY <2>1
<1>2. ASSUME NEW m \in Nat, m \in T
      PROVE  m + 1 \in T
  <2>1. PICK f : Solves(f, m)
    BY <1>2
  <2> DEFINE g == [n \in 1..(m + 1) |->
                     IF n <= m THEN f[n]
                     ELSE IF n = 1 THEN ss[n] ELSE f[m] \o ss[n]]
  <2>2. Solves(g, m + 1)
    <3>1. \A n \in 1..(m + 1) : g[n] = IF n = 1 THEN ss[n] ELSE g[n - 1] \o ss[n]
      <4>1. \A n \in 1..m : f[n] = IF n = 1 THEN ss[n] ELSE f[n - 1] \o ss[n]
        BY <2>1
      <4>2. \A n \in 1..m : n # 1 => n - 1 \in 1..m
        OBVIOUS
      <4> QED BY <4>1, <4>2
    <3> HIDE DEF g
    <3>2. g = [n \in 1..(m + 1) |-> g[n]]
      BY DEF g
    <3> QED BY <3>1, <3>2
  <2> HIDE DEF Solves, g
  <2> QED BY <2>2
<1>3. Len(ss) \in T
  <2>1. Nat \subseteq T
    <3> HIDE DEF T
    <3> QED BY <1>1, <1>2, SetInduction
  <2> HIDE DEF T
  <2> QED BY <2>1, LenProperties
<1>4. PICK g : Solves(g, Len(ss))
  BY <1>3
<1> DEFINE c == CHOOSE h : Solves(h, Len(ss))
<1>5. Solves(c, Len(ss))
  BY <1>4
<1>6. FlattenSeq(ss) = c[Len(ss)]
  BY DEF FlattenSeq
<1> QED
  BY <1>5, <1>6

(* A flattened sequence holds every element of its parts, each once.       *)
Places(ss, n) == {p \in (1..n) \X Nat : p[2] \in 1..Len(ss[p[1]])}

Flattens(b, r, ss, K) ==
    /\ b \in [1..Len(r) -> K]
    /\ \A i, j \in 1..Len(r) : b[i] = b[j] => i = j
    /\ \A k \in K : \E i \in 1..Len(r) : b[i] = k
    /\ \A i \in 1..Len(r) : r[i] = ss[b[i][1]][b[i][2]]

\* So is a flattened sequence, of the places in its parts.
LEMMA FlattenPlaces ==
    ASSUME NEW S, NEW ss \in Seq(Seq(S))
    PROVE  /\ FlattenSeq(ss) \in Seq(S)
           /\ \E b : Flattens(b, FlattenSeq(ss), ss, Places(ss, Len(ss)))
<1>1. CASE Len(ss) = 0
  <2>1. ss = <<>> /\ FlattenSeq(ss) = <<>>
    BY <1>1, EmptySeq DEF FlattenSeq
  <2>2. Flattens(<<>>, <<>>, ss, Places(ss, 0))
    BY DEF Flattens, Places
  <2> QED BY <1>1, <2>1, <2>2, EmptySeq
<1>2. CASE Len(ss) # 0
  <2> DEFINE n == Len(ss)
  <2>1. PICK f : /\ f = [k \in 1..n |-> IF k = 1 THEN ss[k] ELSE f[k - 1] \o ss[k]]
                 /\ FlattenSeq(ss) = f[n]
    BY <1>2, FlattenRecursion
  <2>2. n \in Nat /\ n # 0 /\ \A k \in 1..n : ss[k] \in Seq(S)
    BY <1>2, LenProperties, ElementOfSeq
  <2> HIDE DEF n
  <2>3. f[1] = ss[1]
    <3>1. 1 \in 1..n
      BY <2>2
    <3> QED BY <2>1, <3>1
  <2>4. ASSUME NEW k \in Nat, k # 0, k + 1 <= n
        PROVE  f[k + 1] = f[k] \o ss[k + 1]
    <3>1. k + 1 \in 1..n /\ k + 1 # 1 /\ (k + 1) - 1 = k
      BY <2>2, <2>4
    <3> QED BY <2>1, <3>1
  <2> DEFINE Good(k) == f[k] \in Seq(S) /\ \E b : Flattens(b, f[k], ss, Places(ss, k))
             T == {k \in Nat : k + 1 <= n => Good(k + 1)}
  <2>5. Good(1)
    <3>1. ss[1] \in Seq(S) /\ Len(ss[1]) \in Nat
      BY <2>2, LenProperties
    <3>2. Places(ss, 1) = {<<1, i>> : i \in 1..Len(ss[1])}
      BY <3>1 DEF Places
    <3>3. Flattens([i \in 1..Len(ss[1]) |-> <<1, i>>], ss[1], ss, Places(ss, 1))
      BY <3>1, <3>2 DEF Flattens
    <3> QED BY <2>3, <3>1, <3>3
  <2>6. ASSUME NEW j \in Nat, j \in T
        PROVE  j + 1 \in T
    <3> DEFINE k == j + 1
    <3> SUFFICES ASSUME k + 1 <= n
                 PROVE  Good(k + 1)
      <4> HIDE DEF Good
      <4> QED OBVIOUS
    <3>0. Good(k)
      <4> HIDE DEF Good
      <4> QED BY <2>2, <2>6
    <3>a. k \in Nat /\ k # 0
      OBVIOUS
    <3> HIDE DEF k
    <3>1. f[k] \in Seq(S) /\ ss[k + 1] \in Seq(S) /\ Len(f[k]) \in Nat /\ Len(ss[k + 1]) \in Nat
      BY <2>2, <3>0, <3>a, LenProperties
    <3>2. PICK b : Flattens(b, f[k], ss, Places(ss, k))
      BY <3>0
    <3> DEFINE r == f[k] \o ss[k + 1]
               m == Len(f[k])
               l == Len(ss[k + 1])
               c == [i \in 1..Len(r) |-> IF i <= m THEN b[i] ELSE <<k + 1, i - m>>]
    <3>3. f[k + 1] = r
      BY <2>4, <3>a
    <3>b. m \in Nat /\ l \in Nat
      BY <3>1
    <3>4. /\ r \in Seq(S) /\ Len(r) = m + l
          /\ \A i \in 1..m : r[i] = f[k][i]
          /\ \A i \in 1..l : r[m + i] = ss[k + 1][i]
      <4>1. /\ r \in Seq(S) /\ Len(r) = m + l
            /\ \A i \in 1..Len(r) : r[i] = IF i <= m THEN f[k][i] ELSE ss[k + 1][i - m]
        BY <3>1, ConcatProperties, ZenonT(30)
      <4> HIDE DEF r, m, l
      <4>2. \A i \in 1..m : i \in 1..Len(r) /\ i <= m
        BY <3>b, <4>1
      <4>3. \A i \in 1..l : m + i \in 1..Len(r) /\ ~ (m + i <= m) /\ (m + i) - m = i
        BY <3>b, <4>1
      <4> QED BY <4>1, <4>2, <4>3
    <3>5. Places(ss, k + 1) = Places(ss, k) \cup {<<k + 1, i>> : i \in 1..l}
      BY <3>a, <3>1 DEF Places
    <3>6. Flattens(c, r, ss, Places(ss, k + 1))
      <4> HIDE DEF r, m, l
      <4>1. \A i \in 1..m : c[i] = b[i] /\ b[i] \in Places(ss, k)
        <5>1. \A i \in 1..m : b[i] \in Places(ss, k)
          BY <3>2 DEF Flattens, m
        <5>2. \A i \in 1..m : i \in 1..Len(r) /\ i <= m
          BY <3>b, <3>4
        <5> QED BY <5>1, <5>2
      <4>2. \A i \in 1..l : c[m + i] = <<k + 1, i>>
        <5>1. \A i \in 1..l : m + i \in 1..Len(r) /\ ~ (m + i <= m) /\ (m + i) - m = i
          BY <3>b, <3>4
        <5> QED BY <5>1
      <4>3. \A i \in 1..Len(r) : i \in 1..m \/ \E j1 \in 1..l : i = m + j1
        <5> SUFFICES ASSUME NEW i \in 1..Len(r), i \notin 1..m
                     PROVE  i - m \in 1..l /\ i = m + (i - m)
          OBVIOUS
        <5> QED BY <3>b, <3>4
      <4>a. \A i \in 1..m : i \in 1..Len(r)
        BY <3>b, <3>4
      <4>b. \A i \in 1..l : m + i \in 1..Len(r)
        BY <3>b, <3>4
      <4>c. c = [i \in 1..Len(r) |-> c[i]]
        OBVIOUS
      <4> HIDE DEF c
      <4>4. c \in [1..Len(r) -> Places(ss, k + 1)]
        <5>1. \A i \in 1..Len(r) : c[i] \in Places(ss, k + 1)
          BY <3>5, <4>1, <4>2, <4>3
        <5> QED BY <4>c, <5>1
      <4>5. \A i, j1 \in 1..Len(r) : c[i] = c[j1] => i = j1
        <5>1. \A i, j1 \in 1..m : b[i] = b[j1] => i = j1
          BY <3>2 DEF Flattens, m
        <5>2. \A i \in 1..m : \A j1 \in 1..l : b[i] # <<k + 1, j1>>
          <6>1. \A i \in 1..m : b[i][1] # k + 1
            BY <3>a, <4>1 DEF Places
          <6> QED BY <6>1
        <5>3. \A i, j1 \in 1..l : <<k + 1, i>> = <<k + 1, j1>> => i = j1
          OBVIOUS
        <5>4. \A i \in 1..m : \A j1 \in 1..Len(r) : c[i] = c[j1] => i = j1
          BY <4>1, <4>2, <4>3, <5>1, <5>2
        <5>5. \A i \in 1..l : \A j1 \in 1..Len(r) : c[m + i] = c[j1] => m + i = j1
          <6> SUFFICES ASSUME NEW i \in 1..l, NEW j1 \in 1..Len(r), c[m + i] = c[j1]
                       PROVE  m + i = j1
            OBVIOUS
          <6>1. CASE j1 \in 1..m
            BY <4>1, <4>2, <5>2, <6>1
          <6>2. ASSUME NEW x \in 1..l, j1 = m + x
                PROVE  m + i = j1
            <7>1. i = x
              BY <4>2, <5>3, <6>2
            <7> QED BY <6>2, <7>1
          <6> QED BY <4>3, <6>1, <6>2
        <5> QED BY <4>3, <5>4, <5>5
      <4>6. \A x \in Places(ss, k + 1) : \E i \in 1..Len(r) : c[i] = x
        <5>1. \A x \in Places(ss, k) : \E i \in 1..m : c[i] = x
          BY <3>2, <4>1 DEF Flattens, m
        <5> QED BY <3>5, <4>2, <4>a, <4>b, <5>1
      <4>7. \A i \in 1..Len(r) : r[i] = ss[c[i][1]][c[i][2]]
        <5>1. \A i \in 1..m : r[i] = ss[c[i][1]][c[i][2]]
          BY <3>2, <3>4, <4>1 DEF Flattens, m
        <5>2. \A i \in 1..l : r[m + i] = ss[c[m + i][1]][c[m + i][2]]
          BY <3>4, <4>2
        <5> QED BY <4>3, <5>1, <5>2
      <4> QED BY <4>4, <4>5, <4>6, <4>7 DEF Flattens
    <3> QED BY <3>3, <3>4, <3>6
  <2>7. Good(n)
    <3>1. 0 \in T
      BY <2>5
    <3>2. Nat \subseteq T
      <4> HIDE DEF T
      <4> QED BY <2>6, <3>1, SetInduction
    <3>3. n - 1 \in T /\ (n - 1) + 1 = n
      <4> HIDE DEF T
      <4> QED BY <2>2, <3>2
    <3> HIDE DEF Good
    <3> QED BY <2>2, <3>3
  <2> QED
    BY <2>1, <2>7 DEF n
<1> QED
  BY <1>1, <1>2

(* What the parts and the whole hold, as sets.                             *)
LEMMA ConcatElements ==
    ASSUME NEW S, NEW s \in Seq(S), NEW t \in Seq(S)
    PROVE  /\ s \o t \in Seq(S)
           /\ Len(s \o t) = Len(s) + Len(t)
           /\ \A i \in 1..Len(s) : i \in 1..Len(s \o t) /\ (s \o t)[i] = s[i]
           /\ \A i \in 1..Len(t) : Len(s) + i \in 1..Len(s \o t)
                                   /\ (s \o t)[Len(s) + i] = t[i]
           /\ \A i \in 1..Len(s \o t) :
                 i \in 1..Len(s) \/ (i - Len(s) \in 1..Len(t) /\ i = Len(s) + (i - Len(s)))
<1> DEFINE m == Len(s)
           l == Len(t)
           r == s \o t
<1>1. m \in Nat /\ l \in Nat
  BY LenProperties
<1>2. /\ r \in Seq(S) /\ Len(r) = m + l
      /\ \A i \in 1..Len(r) : r[i] = IF i <= m THEN s[i] ELSE t[i - m]
  BY ConcatProperties
<1> HIDE DEF r, m, l
<1>3. \A i \in 1..m : i \in 1..Len(r) /\ i <= m
  BY <1>1, <1>2
<1>4. \A i \in 1..l : m + i \in 1..Len(r) /\ ~ (m + i <= m) /\ (m + i) - m = i
  BY <1>1, <1>2
<1>5. \A i \in 1..Len(r) : i \in 1..m \/ (i - m \in 1..l /\ i = m + (i - m))
  BY <1>1, <1>2
<1>6. \A i \in 1..m : r[i] = s[i]
  BY <1>2, <1>3
<1>7. \A i \in 1..l : r[m + i] = t[i]
  BY <1>2, <1>4
<1> QED
  BY <1>2, <1>3, <1>4, <1>5, <1>6, <1>7 DEF r, m, l

\* The elements of a concatenation, of a sublist and of a flattened sequence.
LEMMA ToSetConcat ==
    ASSUME NEW S, NEW s \in Seq(S), NEW t \in Seq(S)
    PROVE  ToSet(s \o t) = ToSet(s) \cup ToSet(t)
<1>1. DOMAIN s = 1..Len(s) /\ DOMAIN t = 1..Len(t) /\ DOMAIN (s \o t) = 1..Len(s \o t)
  BY ConcatElements, LenProperties
<1>2. ToSet(s \o t) \subseteq ToSet(s) \cup ToSet(t)
  <2> SUFFICES ASSUME NEW i \in 1..Len(s \o t)
               PROVE  (s \o t)[i] \in ToSet(s) \cup ToSet(t)
    BY <1>1 DEF ToSet
  <2>1. CASE i \in 1..Len(s)
    BY <1>1, <2>1, ConcatElements, SMTT(30) DEF ToSet
  <2>2. CASE i - Len(s) \in 1..Len(t) /\ i = Len(s) + (i - Len(s))
    <3>1. (s \o t)[i] = t[i - Len(s)]
      BY <2>2, ConcatElements
    <3> QED BY <1>1, <2>2, <3>1 DEF ToSet
  <2> QED BY <2>1, <2>2, ConcatElements
<1>3. ToSet(s) \subseteq ToSet(s \o t)
  BY <1>1, ConcatElements DEF ToSet
<1>4. ToSet(t) \subseteq ToSet(s \o t)
  <2> SUFFICES ASSUME NEW i \in 1..Len(t)
               PROVE  t[i] \in ToSet(s \o t)
    BY <1>1 DEF ToSet
  <2>1. Len(s) + i \in 1..Len(s \o t) /\ (s \o t)[Len(s) + i] = t[i]
    BY ConcatElements
  <2> QED BY <1>1, <2>1 DEF ToSet
<1> QED
  BY <1>2, <1>3, <1>4

LEMMA ToSetSublist ==
    ASSUME NEW S, NEW s \in Seq(S), NEW P
    PROVE  ToSet(Sublist(s, P)) = {s[n] : n \in P \cap (1..Len(s))}
<1> DEFINE r == Sublist(s, P)
           K == P \cap (1..Len(s))
<1>1. PICK b : Picks(b, r, s, K)
  BY SublistPicks
<1>2. DOMAIN r = 1..Len(r)
  BY SublistPicks, LenProperties
<1> HIDE DEF r, K
<1>3. ToSet(r) = {s[n] : n \in K}
  BY <1>1, <1>2 DEF Picks, ToSet
<1> QED
  BY <1>3 DEF r, K

LEMMA ToSetFlatten ==
    ASSUME NEW S, NEW ss \in Seq(Seq(S))
    PROVE  ToSet(FlattenSeq(ss)) = UNION {ToSet(ss[k]) : k \in 1..Len(ss)}
<1> DEFINE r == FlattenSeq(ss)
           K == Places(ss, Len(ss))
<1>1. PICK b : Flattens(b, r, ss, K)
  BY FlattenPlaces
<1>2. DOMAIN r = 1..Len(r) /\ \A k \in 1..Len(ss) : ss[k] \in Seq(S)
  BY FlattenPlaces, LenProperties, ElementOfSeq
<1>3. \A k \in 1..Len(ss) : DOMAIN ss[k] = 1..Len(ss[k]) /\ Len(ss[k]) \in Nat
  BY <1>2, LenProperties
<1> HIDE DEF r
<1>4. \A x \in ToSet(r) : \E k \in 1..Len(ss) : x \in ToSet(ss[k])
  <2> SUFFICES ASSUME NEW i \in 1..Len(r)
               PROVE  \E k \in 1..Len(ss) : r[i] \in ToSet(ss[k])
    BY <1>2 DEF ToSet
  <2>1. b[i] \in K /\ r[i] = ss[b[i][1]][b[i][2]]
    BY <1>1 DEF Flattens
  <2>2. b[i][1] \in 1..Len(ss) /\ b[i][2] \in 1..Len(ss[b[i][1]])
    BY <2>1 DEF Places
  <2> QED BY <1>3, <2>1, <2>2 DEF ToSet
<1>5. ASSUME NEW k \in 1..Len(ss), NEW i \in 1..Len(ss[k])
      PROVE  ss[k][i] \in ToSet(r)
  <2>1. <<k, i>> \in K
    BY <1>3 DEF Places
  <2> HIDE DEF K
  <2>2. PICK j \in 1..Len(r) : b[j] = <<k, i>>
    BY <1>1, <2>1 DEF Flattens
  <2>3. r[j] = ss[k][i]
    BY <1>1, <2>2 DEF Flattens
  <2> QED BY <1>2, <2>3 DEF ToSet
<1>6. \A k \in 1..Len(ss) : ToSet(ss[k]) \subseteq ToSet(r)
  BY <1>3, <1>5 DEF ToSet
<1> QED
  BY <1>4, <1>6 DEF r

-----------------------------------------------------------------------------
\* How many elements of a sequence are in a set.
Count(s, A) == Cardinality({n \in DOMAIN s : s[n] \in A})

\* Positions are finitely many.
LEMMA PositionsFinite ==
    ASSUME NEW n \in Nat, NEW K, K \subseteq 1..n
    PROVE  IsFiniteSet(K) /\ Cardinality(K) \in Nat
<1>1. IsFiniteSet(1..n)
  BY FS_Interval
<1> QED
  BY <1>1, FS_Subset, FS_CardinalityType

\* Sets that a function maps one to one onto each other are as large.
LEMMA OneToOne ==
    ASSUME NEW S, IsFiniteSet(S), NEW T, NEW f \in [S -> T],
           \A a, b \in S : f[a] = f[b] => a = b, \A t \in T : \E a \in S : f[a] = t
    PROVE  Cardinality(T) = Cardinality(S)
<1>1. f \in Bijection(S, T)
  BY DEF Bijection, Injection, Surjection, IsInjective
<1>2. ExistsBijection(S, T)
  BY <1>1 DEF ExistsBijection
<1> QED
  BY <1>2, FS_Bijection

\* Positions that are apart are counted one after the other.
LEMMA Apart ==
    ASSUME NEW n \in Nat, NEW K, NEW L, K \subseteq 1..n, L \subseteq 1..n, K \cap L = {}
    PROVE  Cardinality(K \cup L) = Cardinality(K) + Cardinality(L)
<1>1. IsFiniteSet(K) /\ IsFiniteSet(L) /\ Cardinality(K) \in Nat /\ Cardinality(L) \in Nat
  BY PositionsFinite
<1>2. Cardinality(K \cup L) = Cardinality(K) + Cardinality(L) - Cardinality(K \cap L)
  BY <1>1, FS_Union
<1>3. Cardinality(K \cap L) = 0
  BY FS_EmptySet
<1> QED
  BY <1>1, <1>2, <1>3

\* A count is a number.
LEMMA CountType ==
    ASSUME NEW S, NEW s \in Seq(S), NEW A
    PROVE  /\ Count(s, A) \in Nat
           /\ Count(s, A) = Cardinality({n \in 1..Len(s) : s[n] \in A})
           /\ IsFiniteSet({n \in 1..Len(s) : s[n] \in A})
<1>1. Len(s) \in Nat /\ DOMAIN s = 1..Len(s)
  BY LenProperties
<1>2. {n \in 1..Len(s) : s[n] \in A} \subseteq 1..Len(s)
  OBVIOUS
<1> QED
  BY <1>1, <1>2, PositionsFinite DEF Count

\* A sublist is as long as its positions are many.
LEMMA SublistLength ==
    ASSUME NEW S, NEW s \in Seq(S), NEW P
    PROVE  Len(Sublist(s, P)) = Cardinality(P \cap (1..Len(s)))
<1> DEFINE r == Sublist(s, P)
           K == P \cap (1..Len(s))
<1>1. PICK b : Picks(b, r, s, K)
  BY SublistPicks
<1>2. Len(r) \in Nat
  BY SublistPicks, LenProperties
<1> HIDE DEF r, K
<1>3. Cardinality(K) = Cardinality(1..Len(r))
  <2>1. IsFiniteSet(1..Len(r))
    BY <1>2, FS_Interval
  <2> QED BY <1>1, <2>1, OneToOne DEF Picks
<1>4. Cardinality(1..Len(r)) = Len(r)
  <2>1. 1 \in Int /\ Len(r) \in Int
    BY <1>2
  <2>2. Cardinality(1..Len(r)) = IF 1 > Len(r) THEN 0 ELSE Len(r) - 1 + 1
    BY <2>1, FS_Interval
  <2> QED BY <1>2, <2>2
<1> QED
  BY <1>3, <1>4 DEF r, K

\* A sublist has those at its positions.
LEMMA SublistCount ==
    ASSUME NEW S, NEW s \in Seq(S), NEW P, NEW A
    PROVE  Count(Sublist(s, P), A) = Cardinality({n \in P \cap (1..Len(s)) : s[n] \in A})
<1> DEFINE r == Sublist(s, P)
           K == P \cap (1..Len(s))
           I == {i \in 1..Len(r) : r[i] \in A}
           J == {n \in K : s[n] \in A}
<1>1. PICK b : Picks(b, r, s, K)
  BY SublistPicks
<1>2. r \in Seq(S)
  BY SublistPicks
<1> HIDE DEF r, K
<1>3. Count(r, A) = Cardinality(I) /\ IsFiniteSet(I)
  BY <1>2, CountType
<1> DEFINE g == [i \in I |-> b[i]]
<1>4. /\ g \in [I -> J]
      /\ \A i, j \in I : g[i] = g[j] => i = j
      /\ \A n \in J : \E i \in I : g[i] = n
  BY <1>1 DEF Picks
<1> HIDE DEF g, I, J
<1>5. Cardinality(J) = Cardinality(I)
  BY <1>3, <1>4, OneToOne
<1> QED
  BY <1>3, <1>5 DEF r, K, J

\* What is joined is counted one after the other.
LEMMA ConcatCount ==
    ASSUME NEW S, NEW s \in Seq(S), NEW t \in Seq(S), NEW A
    PROVE  Count(s \o t, A) = Count(s, A) + Count(t, A)
<1> DEFINE r == s \o t
           m == Len(s)
           I == {n \in 1..m : s[n] \in A}
           J == {n \in 1..Len(t) : t[n] \in A}
           K == {n \in 1..Len(r) : r[n] \in A}
           g == [n \in J |-> m + n]
           L == {m + n : n \in J}
<1>1. /\ r \in Seq(S) /\ Len(r) = m + Len(t)
      /\ \A i \in 1..m : i \in 1..Len(r) /\ r[i] = s[i]
      /\ \A i \in 1..Len(t) : m + i \in 1..Len(r) /\ r[m + i] = t[i]
      /\ \A i \in 1..Len(r) : i \in 1..m \/ (i - m \in 1..Len(t) /\ i = m + (i - m))
  BY ConcatElements
<1>2. m \in Nat /\ Len(t) \in Nat /\ Len(r) \in Nat
  BY <1>1, LenProperties
<1>3. /\ Count(s, A) = Cardinality(I) /\ Count(t, A) = Cardinality(J)
      /\ Count(r, A) = Cardinality(K) /\ IsFiniteSet(J)
  BY <1>1, CountType
<1> HIDE DEF r, m
<1>4. K = I \cup L
  <2>1. ASSUME NEW n \in K
        PROVE  n \in I \cup L
    <3>1. CASE n \in 1..m
      BY <1>1, <3>1
    <3>2. CASE n - m \in 1..Len(t) /\ n = m + (n - m)
      <4>1. r[n] = t[n - m]
        BY <1>1, <3>2
      <4>2. n - m \in J
        BY <4>1, <3>2
      <4> QED BY <3>2, <4>2
    <3> QED BY <1>1, <3>1, <3>2
  <2>2. I \subseteq K /\ L \subseteq K
    BY <1>1
  <2> QED BY <2>1, <2>2
<1>5. I \cap L = {} /\ I \subseteq 1..Len(r) /\ L \subseteq 1..Len(r)
  <2>1. \A n \in J : ~ (m + n <= m) /\ n \in 1..Len(t)
    BY <1>2
  <2>2. \A n \in I : n <= m /\ n \in 1..m
    BY <1>2
  <2> QED BY <1>1, <2>1, <2>2
<1>6. /\ g \in [J -> L]
      /\ \A a, b \in J : g[a] = g[b] => a = b
      /\ \A n \in L : \E a \in J : g[a] = n
  <2>1. \A a, b \in J : m + a = m + b => a = b
    BY <1>2
  <2> QED BY <2>1
<1> HIDE DEF g, I, J, K, L
<1>7. Cardinality(L) = Cardinality(J)
  BY <1>3, <1>6, OneToOne
<1>8. Cardinality(K) = Cardinality(I) + Cardinality(L)
  BY <1>2, <1>4, <1>5, Apart, ZenonT(30)
<1> QED
  BY <1>3, <1>7, <1>8 DEF r

\* Two sublists that share the positions have as many as the whole.
LEMMA SplitCount ==
    ASSUME NEW S, NEW s \in Seq(S), NEW P, NEW Q, NEW A, P \cap Q = {}, P \cup Q = 1..Len(s)
    PROVE  Count(Sublist(s, P), A) + Count(Sublist(s, Q), A) = Count(s, A)
<1> DEFINE K == {n \in P \cap (1..Len(s)) : s[n] \in A}
           L == {n \in Q \cap (1..Len(s)) : s[n] \in A}
           M == {n \in 1..Len(s) : s[n] \in A}
<1>1. /\ Count(Sublist(s, P), A) = Cardinality(K) /\ Count(Sublist(s, Q), A) = Cardinality(L)
      /\ Count(s, A) = Cardinality(M)
  BY SublistCount, CountType
<1>2. K \cup L = M /\ K \cap L = {} /\ K \subseteq 1..Len(s) /\ L \subseteq 1..Len(s)
  OBVIOUS
<1>3. PICK n \in Nat : n = Len(s)
  BY LenProperties
<1> HIDE DEF K, L, M
<1>4. K \subseteq 1..n /\ L \subseteq 1..n /\ K \cap L = {}
  BY <1>2, <1>3
<1>5. Cardinality(K \cup L) = Cardinality(K) + Cardinality(L)
  BY ONLY n \in Nat, <1>4, Apart, ZenonT(30)
<1> QED
  BY <1>1, <1>2, <1>5

(* What is told of each, and how often.                                    *)
LEMMA MapCount ==
    ASSUME NEW S, NEW s \in Seq(S), NEW T, NEW t \in Seq(T), Len(s) = Len(t), NEW A, NEW B,
           \A n \in 1..Len(s) : s[n] \in A <=> t[n] \in B
    PROVE  Count(s, A) = Count(t, B)
<1>1. {n \in 1..Len(s) : s[n] \in A} = {n \in 1..Len(t) : t[n] \in B}
  OBVIOUS
<1>2. /\ Count(s, A) = Cardinality({n \in 1..Len(s) : s[n] \in A})
      /\ Count(t, B) = Cardinality({n \in 1..Len(t) : t[n] \in B})
  BY CountType
<1> QED
  BY <1>1, <1>2

\* If every part has at most one, a flattened sequence has as many as parts have one.
LEMMA FlattenCount ==
    ASSUME NEW S, NEW ss \in Seq(Seq(S)), NEW A,
           \A k \in 1..Len(ss) : \A i, j \in 1..Len(ss[k]) :
              ss[k][i] \in A /\ ss[k][j] \in A => i = j
    PROVE  Count(FlattenSeq(ss), A)
             = Cardinality({k \in 1..Len(ss) : \E i \in 1..Len(ss[k]) : ss[k][i] \in A})
<1> DEFINE r == FlattenSeq(ss)
           K == Places(ss, Len(ss))
           I == {i \in 1..Len(r) : r[i] \in A}
           J == {k \in 1..Len(ss) : \E i \in 1..Len(ss[k]) : ss[k][i] \in A}
<1>1. PICK b : Flattens(b, r, ss, K)
  BY FlattenPlaces
<1>2. r \in Seq(S)
  BY FlattenPlaces
<1>3. \A k \in 1..Len(ss) : Len(ss[k]) \in Nat
  BY ElementOfSeq, LenProperties
<1> HIDE DEF r
<1>4. Count(r, A) = Cardinality(I) /\ IsFiniteSet(I)
  BY <1>2, CountType
<1>5. \A p : p \in K <=> /\ p \in (1..Len(ss)) \X Nat /\ p[2] \in 1..Len(ss[p[1]])
  BY DEF Places
<1> HIDE DEF K
<1> DEFINE g == [i \in I |-> b[i][1]]
<1>6. \A i \in I : /\ b[i] \in K /\ b[i][1] \in 1..Len(ss) /\ b[i][2] \in 1..Len(ss[b[i][1]])
                   /\ r[i] = ss[b[i][1]][b[i][2]] /\ b[i] = <<b[i][1], b[i][2]>>
  BY <1>1, <1>5 DEF Flattens
<1>7. g \in [I -> J]
  BY <1>6
<1>8. ASSUME NEW i \in I, NEW j \in I, g[i] = g[j]
      PROVE  i = j
  <2>1. b[i][1] = b[j][1]
    BY <1>8
  <2>2. ss[b[i][1]][b[i][2]] \in A /\ ss[b[i][1]][b[j][2]] \in A
    BY <1>6, <2>1
  <2>3. b[i][2] = b[j][2]
    BY <1>6, <2>1, <2>2
  <2>4. b[i] = b[j]
    BY <1>6, <2>1, <2>3
  <2> QED BY <1>1, <2>4 DEF Flattens
<1>9. ASSUME NEW k \in J
      PROVE  \E i \in I : g[i] = k
  <2>1. PICK i \in 1..Len(ss[k]) : ss[k][i] \in A
    OBVIOUS
  <2>2. <<k, i>> \in K
    BY <1>3, <1>5, <2>1
  <2>3. PICK l \in 1..Len(r) : b[l] = <<k, i>>
    BY <1>1, <2>2 DEF Flattens
  <2>4. r[l] = ss[k][i]
    BY <1>1, <2>3 DEF Flattens
  <2>5. l \in I
    BY <2>1, <2>4
  <2> QED BY <2>3, <2>5
<1> HIDE DEF g, I, J
<1>10. Cardinality(J) = Cardinality(I)
  BY <1>4, <1>7, <1>8, <1>9, OneToOne
<1> QED
  BY <1>4, <1>10 DEF r, J

-----------------------------------------------------------------------------
(* Finite sets.                                                            *)

\* A finite set has a greatest element in any total order, given as a set of pairs.
LEMMA Greatest ==
    ASSUME NEW S, IsFiniteSet(S), S # {}, NEW R,
           \A x, y \in S : <<x, y>> \in R \/ <<y, x>> \in R,
           \A x, y, z \in S : <<x, y>> \in R /\ <<y, z>> \in R => <<x, z>> \in R
    PROVE  \E x \in S : \A y \in S : <<y, x>> \in R
<1>1. PICK n \in Nat : ExistsBijection(1..n, S)
  BY FS_NatBijection
<1>2. PICK f \in [1..n -> S] : \A x \in S : \E i \in 1..n : f[i] = x
  BY <1>1 DEF ExistsBijection, Bijection, Surjection
<1>3. n # 0
  BY <1>2
<1> DEFINE Top(m) == m = 0 \/ \E i \in 1..m : \A j \in 1..m : <<f[j], f[i]>> \in R
           T == {m \in Nat : m <= n => Top(m)}
<1>4. 0 \in T
  OBVIOUS
<1>5. ASSUME NEW m \in Nat, Top(m), m + 1 <= n
      PROVE  Top(m + 1)
  <2>1. \A j \in 1..(m + 1) : f[j] \in S /\ (j \in 1..m \/ j = m + 1)
    BY <1>2, <1>5
  <2>2. m + 1 \in 1..(m + 1) /\ f[m + 1] \in S /\ <<f[m + 1], f[m + 1]>> \in R
    BY <2>1
  <2>3. CASE m = 0
    BY <2>1, <2>2, <2>3
  <2>4. CASE m # 0
    <3>1. PICK i \in 1..m : \A j \in 1..m : <<f[j], f[i]>> \in R
      BY <1>5, <2>4
    <3>2. i \in 1..(m + 1) /\ f[i] \in S
      BY <2>1
    <3>3. CASE <<f[m + 1], f[i]>> \in R
      <4>1. \A j \in 1..(m + 1) : <<f[j], f[i]>> \in R
        BY <2>1, <3>1, <3>3
      <4> QED BY <3>2, <4>1
    <3>4. CASE <<f[i], f[m + 1]>> \in R
      <4>1. \A j \in 1..(m + 1) : <<f[j], f[m + 1]>> \in R
        BY <2>1, <2>2, <3>1, <3>2, <3>4
      <4> QED BY <2>2, <4>1
    <3> QED BY <2>2, <3>2, <3>3, <3>4
  <2> QED BY <2>3, <2>4
<1>6. Top(n)
  <2> HIDE DEF Top
  <2>1. ASSUME NEW m \in Nat, m \in T
        PROVE  m + 1 \in T
    BY <1>5, <2>1
  <2>2. Nat \subseteq T
    <3> HIDE DEF T
    <3> QED BY <1>4, <2>1, SetInduction
  <2> QED BY <2>2
<1>7. PICK i \in 1..n : \A j \in 1..n : <<f[j], f[i]>> \in R
  BY <1>3, <1>6
<1>8. f[i] \in S /\ \A y \in S : <<y, f[i]>> \in R
  BY <1>2, <1>7
<1> QED
  BY <1>8

\* A function's values on a finite set are finitely many.
LEMMA FiniteImage ==
    ASSUME NEW S, IsFiniteSet(S), NEW f
    PROVE  IsFiniteSet({f[x] : x \in S})
<1> DEFINE T == {f[x] : x \in S}
           g == [x \in S |-> f[x]]
<1>1. g \in [S -> T] /\ \A t \in T : \E x \in S : g[x] = t
  OBVIOUS
<1> HIDE DEF g, T
<1>2. g \in Surjection(S, T)
  BY <1>1 DEF Surjection
<1>3. IsFiniteSet(T)
  BY <1>2, FS_Surjection
<1> QED
  BY <1>3 DEF T

\* The greatest and the least number of a finite set.
LEMMA MaxOfSet ==
    ASSUME NEW S \in SUBSET Int, IsFiniteSet(S), S # {}
    PROVE  Max(S) \in S /\ \A y \in S : y <= Max(S)
<1> DEFINE R == {p \in S \X S : p[1] <= p[2]}
<1>1. \A x, y \in S : <<x, y>> \in R <=> x <= y
  OBVIOUS
<1> HIDE DEF R
<1>2. /\ \A x, y \in S : <<x, y>> \in R \/ <<y, x>> \in R
      /\ \A x, y, z \in S : <<x, y>> \in R /\ <<y, z>> \in R => <<x, z>> \in R
  BY <1>1
<1>3. PICK x \in S : \A y \in S : <<y, x>> \in R
  BY <1>2, Greatest
<1>4. \A y \in S : x >= y
  BY <1>1, <1>3
<1>5. Max(S) \in S /\ \A y \in S : Max(S) >= y
  BY <1>4 DEF Max
<1> QED
  BY <1>5

LEMMA MinOfSet ==
    ASSUME NEW S \in SUBSET Int, IsFiniteSet(S), S # {}
    PROVE  Min(S) \in S /\ \A y \in S : Min(S) <= y
<1> DEFINE R == {p \in S \X S : p[2] <= p[1]}
<1>1. \A x, y \in S : <<x, y>> \in R <=> y <= x
  OBVIOUS
<1> HIDE DEF R
<1>2. /\ \A x, y \in S : <<x, y>> \in R \/ <<y, x>> \in R
      /\ \A x, y, z \in S : <<x, y>> \in R /\ <<y, z>> \in R => <<x, z>> \in R
  BY <1>1
<1>3. PICK x \in S : \A y \in S : <<y, x>> \in R
  BY <1>2, Greatest
<1>4. \A y \in S : x <= y
  BY <1>1, <1>3
<1>5. Min(S) \in S /\ \A y \in S : Min(S) <= y
  BY <1>4 DEF Min
<1> QED
  BY <1>5

-----------------------------------------------------------------------------
(* Sums.                                                                   *)

\* The sum that NetPnl computes, one trade after the other.
SumsUp(f, s) ==
    /\ f \in [0..Len(s) -> Int]
    /\ f[0] = 0
    /\ \A n \in 1..Len(s) : f[n] = f[n - 1] + s[n].net_pnl

\* NetPnl's recursion has a solution.
LEMMA NetPnlSumsUp ==
    ASSUME NEW S, \A x \in S : x.net_pnl \in Int, NEW s \in Seq(S)
    PROVE  \E f : SumsUp(f, s) /\ NetPnl(s) = f[Len(s)]
<1> DEFINE Solves(f, m) ==
             f = [n \in 0..m |-> IF n = 0 THEN 0 ELSE f[n - 1] + s[n].net_pnl]
           T == {m \in Nat : \E f : Solves(f, m)}
<1>1. 0 \in T
  <2>1. Solves([n \in 0..0 |-> 0], 0)
    OBVIOUS
  <2> QED BY <2>1
<1>2. ASSUME NEW m \in Nat, m \in T
      PROVE  m + 1 \in T
  <2>1. PICK f : Solves(f, m)
    BY <1>2
  <2> DEFINE g == [n \in 0..(m + 1) |-> IF n <= m THEN f[n] ELSE f[m] + s[n].net_pnl]
  <2>2. Solves(g, m + 1)
    <3>1. \A n \in 0..(m + 1) :
             g[n] = IF n = 0 THEN 0 ELSE g[n - 1] + s[n].net_pnl
      <4>1. \A n \in 0..m : f[n] = IF n = 0 THEN 0 ELSE f[n - 1] + s[n].net_pnl
        BY <2>1
      <4>2. \A n \in 0..m : n # 0 => n - 1 \in 0..m
        OBVIOUS
      <4> QED BY <4>1, <4>2
    <3> HIDE DEF g
    <3>2. g = [n \in 0..(m + 1) |-> g[n]]
      BY DEF g
    <3> QED BY <3>1, <3>2
  <2> HIDE DEF Solves, g
  <2> QED BY <2>2
<1>3. Len(s) \in T /\ Len(s) \in Nat
  <2>1. Nat \subseteq T
    <3> HIDE DEF T
    <3> QED BY <1>1, <1>2, SetInduction
  <2> HIDE DEF T
  <2> QED BY <2>1, LenProperties
<1>4. PICK g : Solves(g, Len(s))
  BY <1>3
<1> DEFINE c == CHOOSE h : Solves(h, Len(s))
<1>5. Solves(c, Len(s))
  BY <1>4
<1>6. NetPnl(s) = c[Len(s)]
  BY DEF NetPnl
<1> HIDE DEF c
<1>7. /\ c[0] = 0
      /\ \A n \in 1..Len(s) : c[n] = c[n - 1] + s[n].net_pnl
  <2>1. \A n \in 0..Len(s) : c[n] = IF n = 0 THEN 0 ELSE c[n - 1] + s[n].net_pnl
    BY <1>5
  <2> QED BY <1>3, <2>1
<1>8. \A n \in 1..Len(s) : s[n].net_pnl \in Int
  BY ElementOfSeq
<1>9. \A n \in 0..Len(s) : c[n] \in Int
  <2> DEFINE U == {m \in Nat : m <= Len(s) => c[m] \in Int}
  <2>1. 0 \in U
    BY <1>7
  <2>2. ASSUME NEW m \in Nat, m \in U
        PROVE  m + 1 \in U
    <3>1. SUFFICES ASSUME m + 1 <= Len(s)
                   PROVE  c[m + 1] \in Int
      OBVIOUS
    <3>2. c[m] \in Int /\ m + 1 \in 1..Len(s) /\ (m + 1) - 1 = m
      BY <1>3, <2>2, <3>1
    <3> QED BY <1>7, <1>8, <3>2
  <2>3. Nat \subseteq U
    <3> HIDE DEF U
    <3> QED BY <2>1, <2>2, SetInduction
  <2> QED BY <1>3, <2>3
<1>10. c \in [0..Len(s) -> Int]
  BY <1>5, <1>9
<1> QED
  BY <1>6, <1>7, <1>10 DEF SumsUp

\* One trade more adds its profit, and no trade makes none.
LEMMA NetPnlOfMore ==
    ASSUME NEW S, \A x \in S : x.net_pnl \in Int, NEW s \in Seq(S), NEW x \in S
    PROVE  NetPnl(s) \in Int /\ NetPnl(Append(s, x)) = NetPnl(s) + x.net_pnl
<1> DEFINE q == Append(s, x)
<1>1. /\ q \in Seq(S) /\ Len(q) = Len(s) + 1 /\ Len(s) \in Nat
      /\ q[Len(s) + 1] = x /\ \A n \in 1..Len(s) : q[n] = s[n]
  BY AppendProperties, LenProperties
<1> HIDE DEF q
<1>2. PICK f : SumsUp(f, s) /\ NetPnl(s) = f[Len(s)]
  BY NetPnlSumsUp
<1>3. PICK g : SumsUp(g, q) /\ NetPnl(q) = g[Len(q)]
  BY <1>1, NetPnlSumsUp
<1> DEFINE T == {m \in Nat : m <= Len(s) => f[m] = g[m]}
<1>4. 0 \in T
  BY <1>2, <1>3 DEF SumsUp
<1>5. ASSUME NEW m \in Nat, m \in T
      PROVE  m + 1 \in T
  <2>1. SUFFICES ASSUME m + 1 <= Len(s)
                 PROVE  f[m + 1] = g[m + 1]
    OBVIOUS
  <2>2. f[m] = g[m] /\ m + 1 \in 1..Len(s) /\ m + 1 \in 1..Len(q) /\ (m + 1) - 1 = m
    BY <1>1, <1>5, <2>1
  <2> QED BY <1>1, <1>2, <1>3, <2>2 DEF SumsUp
<1>6. f[Len(s)] = g[Len(s)]
  <2>1. Nat \subseteq T
    <3> HIDE DEF T
    <3> QED BY <1>4, <1>5, SetInduction
  <2> QED BY <1>1, <2>1
<1>7. g[Len(s) + 1] = g[Len(s)] + x.net_pnl
  <2>1. Len(s) + 1 \in 1..Len(q) /\ (Len(s) + 1) - 1 = Len(s)
    BY <1>1
  <2> QED BY <1>1, <1>3, <2>1 DEF SumsUp
<1>8. f[Len(s)] \in Int
  BY <1>1, <1>2 DEF SumsUp
<1> QED
  BY <1>1, <1>2, <1>3, <1>6, <1>7, <1>8 DEF q

LEMMA NetPnlOfNone == NetPnl(<<>>) = 0
<1> DEFINE S == {x \in {[net_pnl |-> 0]} : TRUE}
<1>1. \A x \in S : x.net_pnl \in Int
  OBVIOUS
<1>2. <<>> \in Seq(S) /\ Len(<<>>) = 0
  OBVIOUS
<1>3. PICK f : SumsUp(f, <<>>) /\ NetPnl(<<>>) = f[Len(<<>>)]
  BY <1>1, <1>2, NetPnlSumsUp
<1> QED
  BY <1>2, <1>3 DEF SumsUp

\* The sum over a sublist, along the positions of the whole.
SumsAlong(h, s, P) ==
    /\ h \in [0..Len(s) -> Int]
    /\ h[0] = 0
    /\ \A n \in 1..Len(s) : h[n] = IF n \in P THEN h[n - 1] + s[n].net_pnl ELSE h[n - 1]

\* The sum over a sublist passes by what is not in it.
LEMMA NetPnlOfSublist ==
    ASSUME NEW S, \A x \in S : x.net_pnl \in Int, NEW s \in Seq(S), NEW P
    PROVE  \E h : SumsAlong(h, s, P) /\ NetPnl(Sublist(s, P)) = h[Len(s)]
<1>1. PICK f : /\ f = [n \in 0..Len(s) |->
                         IF n = 0 THEN <<>>
                         ELSE IF n \in P THEN Append(f[n - 1], s[n]) ELSE f[n - 1]]
               /\ Sublist(s, P) = f[Len(s)]
  BY SublistRecursion
<1>2. Len(s) \in Nat /\ \A n \in 1..Len(s) : s[n] \in S /\ s[n].net_pnl \in Int
  BY LenProperties, ElementOfSeq
<1>3. /\ f[0] = <<>>
      /\ \A n \in 1..Len(s) : f[n] = IF n \in P THEN Append(f[n - 1], s[n]) ELSE f[n - 1]
  <2>1. \A n \in 0..Len(s) :
           f[n] = IF n = 0 THEN <<>>
                  ELSE IF n \in P THEN Append(f[n - 1], s[n]) ELSE f[n - 1]
    BY <1>1
  <2> QED BY <1>2, <2>1
<1> DEFINE h == [n \in 0..Len(s) |-> NetPnl(f[n])]
           T == {m \in Nat : m <= Len(s) => f[m] \in Seq(S)}
<1>4. 0 \in T
  <2>1. <<>> \in Seq(S)
    OBVIOUS
  <2> QED BY <1>3, <2>1
<1>5. ASSUME NEW m \in Nat, m \in T
      PROVE  m + 1 \in T
  <2>1. SUFFICES ASSUME m + 1 <= Len(s)
                 PROVE  f[m + 1] \in Seq(S)
    OBVIOUS
  <2>2. f[m] \in Seq(S) /\ m + 1 \in 1..Len(s) /\ (m + 1) - 1 = m
    BY <1>2, <1>5, <2>1
  <2>3. Append(f[m], s[m + 1]) \in Seq(S)
    BY <1>2, <2>2, AppendProperties
  <2> QED BY <1>3, <2>2, <2>3
<1>6. \A n \in 0..Len(s) : f[n] \in Seq(S)
  <2>1. Nat \subseteq T
    <3> HIDE DEF T
    <3> QED BY <1>4, <1>5, SetInduction
  <2> QED BY <1>2, <2>1
<1>7. \A n \in 0..Len(s) : h[n] = NetPnl(f[n])
  OBVIOUS
<1>8. ASSUME NEW n \in 0..Len(s)
      PROVE  h[n] \in Int
  <2>1. CASE n = 0
    BY <1>3, <1>7, <2>1, NetPnlOfNone
  <2>2. CASE n # 0
    <3>1. s[n] \in S /\ f[n] \in Seq(S)
      BY <1>2, <1>6, <2>2
    <3> QED BY <1>7, <3>1, NetPnlOfMore
  <2> QED BY <2>1, <2>2
<1>9. ASSUME NEW n \in 1..Len(s)
      PROVE  h[n] = IF n \in P THEN h[n - 1] + s[n].net_pnl ELSE h[n - 1]
  <2>1. n - 1 \in 0..Len(s) /\ n \in 0..Len(s)
    BY <1>2
  <2>2. f[n - 1] \in Seq(S) /\ s[n] \in S
    BY <1>2, <1>6, <2>1
  <2>3. NetPnl(Append(f[n - 1], s[n])) = NetPnl(f[n - 1]) + s[n].net_pnl
    BY <2>2, NetPnlOfMore
  <2> QED BY <1>3, <1>7, <2>1, <2>3
<1>10. h[0] = 0 /\ h[Len(s)] = NetPnl(Sublist(s, P))
  BY <1>1, <1>2, <1>3, <1>7, NetPnlOfNone
<1>11. h \in [0..Len(s) -> Int]
  BY <1>8
<1> HIDE DEF h
<1> QED
  BY <1>9, <1>10, <1>11 DEF SumsAlong

\* From some of the trades to more of them a sum falls at most by what was lost by
\* losing trades that are all those that came in.
LEMMA FallIsLost ==
    ASSUME NEW S, \A x \in S : x.net_pnl \in Int, NEW s \in Seq(S), NEW P, NEW Q,
           P \subseteq Q, NEW L, \A n \in 1..Len(s) : n \in L => s[n].net_pnl < 0,
           \A n \in 1..Len(s) : n \in Q \ P /\ s[n].net_pnl < 0 => n \in L
    PROVE  /\ NetPnl(Sublist(s, P)) \in Int /\ NetPnl(Sublist(s, Q)) \in Int
           /\ NetPnl(Sublist(s, L)) \in Int
           /\ NetPnl(Sublist(s, P)) - NetPnl(Sublist(s, Q)) <= - NetPnl(Sublist(s, L))
<1>1. PICK p : SumsAlong(p, s, P) /\ NetPnl(Sublist(s, P)) = p[Len(s)]
  BY NetPnlOfSublist
<1>2. PICK q : SumsAlong(q, s, Q) /\ NetPnl(Sublist(s, Q)) = q[Len(s)]
  BY NetPnlOfSublist
<1>3. PICK l : SumsAlong(l, s, L) /\ NetPnl(Sublist(s, L)) = l[Len(s)]
  BY NetPnlOfSublist
<1>4. Len(s) \in Nat /\ \A n \in 1..Len(s) : s[n].net_pnl \in Int
  BY LenProperties, ElementOfSeq
<1>5. \A n \in 0..Len(s) : p[n] \in Int /\ q[n] \in Int /\ l[n] \in Int
  BY <1>1, <1>2, <1>3 DEF SumsAlong
<1> DEFINE T == {m \in Nat : m <= Len(s) => p[m] - q[m] <= - l[m]}
<1>6. 0 \in T
  BY <1>1, <1>2, <1>3 DEF SumsAlong
<1>7. ASSUME NEW m \in Nat, m \in T
      PROVE  m + 1 \in T
  <2>1. SUFFICES ASSUME m + 1 <= Len(s)
                 PROVE  p[m + 1] - q[m + 1] <= - l[m + 1]
    OBVIOUS
  <2>2. /\ p[m] - q[m] <= - l[m] /\ m + 1 \in 1..Len(s) /\ (m + 1) - 1 = m
        /\ m \in 0..Len(s)
    BY <1>4, <1>7, <2>1
  <2>3. PICK e \in Int : e = s[m + 1].net_pnl
    BY <1>4, <2>2
  <2>4. /\ p[m + 1] = IF m + 1 \in P THEN p[m] + e ELSE p[m]
        /\ q[m + 1] = IF m + 1 \in Q THEN q[m] + e ELSE q[m]
        /\ l[m + 1] = IF m + 1 \in L THEN l[m] + e ELSE l[m]
    BY <1>1, <1>2, <1>3, <2>2, <2>3 DEF SumsAlong
  <2>5. p[m] \in Int /\ q[m] \in Int /\ l[m] \in Int
    BY <1>5, <2>2
  <2>6. /\ m + 1 \in P => m + 1 \in Q
        /\ m + 1 \in L => e < 0
        /\ m + 1 \in Q /\ m + 1 \notin P /\ e < 0 => m + 1 \in L
    BY <2>2, <2>3
  <2>7. PICK a \in Int, b \in Int, c \in Int : a = p[m] /\ b = q[m] /\ c = l[m]
    BY <2>5
  <2>8. a - b <= - c
    BY <2>2, <2>7
  <2>9. PICK d \in Int, u \in Int, w \in Int : d = l[m + 1] /\ u = p[m + 1] /\ w = q[m + 1]
    <3>1. m + 1 \in 0..Len(s)
      BY <2>2
    <3> QED BY <1>5, <3>1
  <2>10. \/ u = a /\ w = b
         \/ u = a + e /\ w = b + e
         \/ u = a /\ w = b + e /\ (e < 0 => d = c + e)
    BY <2>4, <2>6, <2>7, <2>9
  <2>11. d = c \/ (d = c + e /\ e < 0)
    BY <2>4, <2>6, <2>7, <2>9
  <2>12. u - w <= - d
    BY ONLY <2>8, <2>10, <2>11, a \in Int, b \in Int, c \in Int, d \in Int, e \in Int,
            u \in Int, w \in Int
  <2> QED BY <2>9, <2>12
<1>8. p[Len(s)] - q[Len(s)] <= - l[Len(s)]
  <2>1. Nat \subseteq T
    <3> HIDE DEF T
    <3> QED BY <1>6, <1>7, SetInduction
  <2> QED BY <1>4, <2>1
<1> QED
  BY <1>1, <1>2, <1>3, <1>4, <1>5, <1>8

-----------------------------------------------------------------------------
(* Drawdowns.                                                              *)

\* The curve that SummarizeDrawdown reads: each point has the highest equity up to
\* it, which was the equity of one of those points, and the fall from there.
LEMMA CurveOfPoints ==
    ASSUME NEW T \in SUBSET Int, IsFiniteSet(T), NEW points \in [T -> Int], NEW t \in T
    PROVE  LET c == DrawdownCurve(points)[t]
           IN  /\ c.peak \in Int /\ c.amount \in Int /\ c.amount = c.peak - points[t]
               /\ \A u \in T : u <= t => points[u] <= c.peak
               /\ \E u \in T : u <= t /\ points[u] = c.peak
<1> DEFINE U == {v \in DOMAIN points : v <= t}
           V == {points[u] : u \in U}
           c == DrawdownCurve(points)[t]
<1>1. DOMAIN points = T
  OBVIOUS
<1>2. U \subseteq T /\ t \in U /\ \A u : u \in U <=> u \in T /\ u <= t
  BY <1>1
<1>3. IsFiniteSet(U)
  <2> HIDE DEF U
  <2> QED BY <1>2, FS_Subset
<1>4. IsFiniteSet(V)
  <2> HIDE DEF U
  <2> QED BY <1>3, FiniteImage
<1>5. V \in SUBSET Int /\ V # {}
  BY <1>1, <1>2
<1>6. c = [peak |-> Max(V), amount |-> Max(V) - points[t]]
  BY DEF DrawdownCurve
<1> HIDE DEF V, c
<1>7. Max(V) \in V /\ \A y \in V : y <= Max(V)
  BY <1>4, <1>5, MaxOfSet
<1>8. Max(V) \in Int /\ points[t] \in Int
  BY <1>5, <1>7
<1>9. \A u \in T : u <= t => points[u] <= Max(V)
  BY <1>2, <1>7 DEF V
<1>10. \E u \in T : u <= t /\ points[u] = Max(V)
  BY <1>2, <1>7 DEF V
<1>11. c.peak = Max(V) /\ c.amount = Max(V) - points[t]
  BY <1>6
<1> HIDE DEF U
<1>12. c.peak \in Int /\ c.amount \in Int /\ c.amount = c.peak - points[t]
  BY <1>8, <1>11
<1>13. /\ \A u \in T : u <= t => points[u] <= c.peak
       /\ \E u \in T : u <= t /\ points[u] = c.peak
  BY <1>9, <1>10, <1>11
<1> QED
  BY <1>12, <1>13 DEF c

\* Quotients are compared by products: the order of the falls is total, because
\* every peak is positive.
LEMMA RatesAreOrdered ==
    ASSUME NEW a \in Int, NEW p \in Int, p > 0, NEW b \in Int, NEW q \in Int, q > 0,
           NEW c \in Int, NEW r \in Int, r > 0, a * q <= b * p, b * r <= c * q
    PROVE  a * r <= c * p
<1>1. (a * q) * r <= (b * p) * r /\ (b * r) * p <= (c * q) * p
  OBVIOUS
<1>2. (a * r) * q <= (c * p) * q
  BY <1>1
<1>3. (a * r - c * p) * q <= 0
  BY <1>2
<1>4. PICK d \in Int : d = a * r - c * p
  OBVIOUS
<1>5. d * q <= 0
  BY <1>3, <1>4
<1>6. d <= 0
  BY <1>5
<1> QED
  BY <1>4, <1>6

\* There is a deepest fall, and a first one of those.
LEMMA TroughOfCurve ==
    ASSUME NEW T \in SUBSET Int, IsFiniteSet(T), T # {}, NEW points \in [T -> Int],
           ~ CurveRefused(points)
    PROVE  LET curve == DrawdownCurve(points)
               deepest == {t \in T : \A u \in T : ~ Deeper(curve[u], curve[t])}
           IN  /\ Min(deepest) \in deepest
               /\ \A t \in deepest : Min(deepest) <= t
<1> DEFINE curve == DrawdownCurve(points)
           deepest == {t \in T : \A u \in T : ~ Deeper(curve[u], curve[t])}
           R == {p \in T \X T : ~ Deeper(curve[p[1]], curve[p[2]])}
<1>1. ASSUME NEW t \in T
      PROVE  curve[t].peak \in Int /\ curve[t].peak > 0 /\ curve[t].amount \in Int
  <2>1. /\ curve[t].peak \in Int /\ curve[t].amount \in Int
        /\ \E u \in T : points[u] = curve[t].peak
    BY CurveOfPoints
  <2>2. \A u \in T : points[u] \in Int /\ points[u] > 0
    BY DEF CurveRefused
  <2> QED BY <2>1, <2>2
<1>2. \A t, u \in T : <<u, t>> \in R <=> curve[u].amount * curve[t].peak <= curve[t].amount * curve[u].peak
  <2> HIDE DEF curve
  <2>1. ASSUME NEW t \in T, NEW u \in T
        PROVE  <<u, t>> \in R <=> curve[u].amount * curve[t].peak <= curve[t].amount * curve[u].peak
    <3>1. <<u, t>> \in R <=> ~ (curve[u].amount * curve[t].peak > curve[t].amount * curve[u].peak)
      BY DEF Deeper
    <3>2. PICK a \in Int, b \in Int, c \in Int, d \in Int :
             a = curve[u].amount /\ b = curve[t].peak /\ c = curve[t].amount /\ d = curve[u].peak
      BY <1>1
    <3>3. a * b \in Int /\ c * d \in Int
      BY <3>2
    <3>4. ~ (a * b > c * d) <=> a * b <= c * d
      BY <3>3
    <3> QED BY <3>1, <3>2, <3>4
  <2> QED BY <2>1
<1> HIDE DEF R, curve
<1>3. \A t, u \in T : <<t, u>> \in R \/ <<u, t>> \in R
  <2> SUFFICES ASSUME NEW t \in T, NEW u \in T
               PROVE  <<t, u>> \in R \/ <<u, t>> \in R
    OBVIOUS
  <2>1. PICK a \in Int, b \in Int, c \in Int, d \in Int :
           a = curve[u].amount /\ b = curve[t].peak /\ c = curve[t].amount /\ d = curve[u].peak
    BY <1>1
  <2>2. a * b \in Int /\ c * d \in Int
    BY <2>1
  <2>3. a * b <= c * d \/ c * d <= a * b
    BY <2>2
  <2> QED BY <1>2, <2>1, <2>3
<1>4. \A t, u, v \in T : <<t, u>> \in R /\ <<u, v>> \in R => <<t, v>> \in R
  <2> SUFFICES ASSUME NEW t \in T, NEW u \in T, NEW v \in T, <<t, u>> \in R, <<u, v>> \in R
               PROVE  <<t, v>> \in R
    OBVIOUS
  <2>1. /\ curve[t].amount * curve[u].peak <= curve[u].amount * curve[t].peak
        /\ curve[u].amount * curve[v].peak <= curve[v].amount * curve[u].peak
    BY <1>2
  <2>2. curve[t].amount * curve[v].peak <= curve[v].amount * curve[t].peak
    BY <1>1, <2>1, RatesAreOrdered
  <2> QED BY <1>2, <2>2
<1>5. PICK t \in T : \A u \in T : <<u, t>> \in R
  BY <1>3, <1>4, Greatest
<1>6. t \in deepest
  BY <1>5 DEF R
<1>7. deepest \in SUBSET Int /\ deepest # {} /\ deepest \subseteq T
  BY <1>6
<1>8. IsFiniteSet(deepest)
  <2> HIDE DEF deepest
  <2> QED BY <1>7, FS_Subset
<1> HIDE DEF deepest
<1>9. Min(deepest) \in deepest /\ \A u \in deepest : Min(deepest) <= u
  BY <1>7, <1>8, MinOfSet
<1> QED
  BY <1>9 DEF deepest, curve

\* The amount of a drawdown is that of a fall between two points, or zero.
LEMMA DrawdownIsFall ==
    ASSUME NEW T \in SUBSET Int, IsFiniteSet(T), NEW points \in [T -> Int],
           ~ CurveRefused(points)
    PROVE  LET amount == SummarizeDrawdown(points).amount
           IN  \/ amount = 0
               \/ \E u, t \in T : u <= t /\ amount = points[u] - points[t]
<1> DEFINE curve == DrawdownCurve(points)
           deepest == {t \in T : \A u \in T : ~ Deeper(curve[u], curve[t])}
           trough == Min(deepest)
           amount == SummarizeDrawdown(points).amount
<1>1. DOMAIN points = T
  OBVIOUS
<1>2. T = {} \/ curve[trough].amount <= 0 => amount = 0
  BY <1>1 DEF SummarizeDrawdown, NoDrawdown
<1>3. ~ (T = {} \/ curve[trough].amount <= 0) => amount = curve[trough].amount
  BY <1>1 DEF SummarizeDrawdown
<1>4. T # {} => trough \in T
  <2>1. T # {} => trough \in deepest
    BY TroughOfCurve
  <2> QED BY <2>1
<1> HIDE DEF curve, trough, amount
<1>5. ASSUME T # {}, amount = curve[trough].amount
      PROVE  \E u, t \in T : u <= t /\ amount = points[u] - points[t]
  <2>1. /\ curve[trough].amount = curve[trough].peak - points[trough]
        /\ \E u \in T : u <= trough /\ points[u] = curve[trough].peak
    BY <1>4, <1>5, CurveOfPoints DEF curve
  <2> QED BY <1>4, <1>5, <2>1
<1> QED
  BY <1>2, <1>3, <1>5 DEF amount

=============================================================================
