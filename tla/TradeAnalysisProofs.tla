------------------------ MODULE TradeAnalysisProofs ------------------------
(***************************************************************************)
(* What the reports say of every log: sums over groups, returns that       *)
(* compound, the deepest drawdown, the longest losing streak, the          *)
(* assessment of a period that did worse, and the joins behind the         *)
(* breakdowns.                                                             *)
(***************************************************************************)
EXTENDS TradeAnalysis, TradeReportsProofs

-----------------------------------------------------------------------------
(* Sums over parts.                                                        *)

\* A sum over trades with no one in common adds up.
LEMMA NetPnlApart ==
    ASSUME NEW S, \A x \in S : x.net_pnl \in Int, NEW s \in Seq(S), NEW P, NEW Q,
           P \cap Q = {}
    PROVE  /\ NetPnl(Sublist(s, P)) \in Int /\ NetPnl(Sublist(s, Q)) \in Int
           /\ NetPnl(Sublist(s, P \cup Q)) = NetPnl(Sublist(s, P)) + NetPnl(Sublist(s, Q))
<1> DEFINE R == P \cup Q
<1>0. \A n : n \in R <=> n \in P \/ n \in Q
  OBVIOUS
<1> HIDE DEF R
<1>1. PICK p : SumsAlong(p, s, P) /\ NetPnl(Sublist(s, P)) = p[Len(s)]
  BY NetPnlOfSublist
<1>2. PICK q : SumsAlong(q, s, Q) /\ NetPnl(Sublist(s, Q)) = q[Len(s)]
  BY NetPnlOfSublist
<1>3. PICK r : SumsAlong(r, s, R) /\ NetPnl(Sublist(s, R)) = r[Len(s)]
  BY NetPnlOfSublist
<1>4. Len(s) \in Nat /\ \A n \in 1..Len(s) : s[n].net_pnl \in Int
  BY LenProperties, ElementOfSeq
<1>5. \A n \in 0..Len(s) : p[n] \in Int /\ q[n] \in Int /\ r[n] \in Int
  BY <1>1, <1>2, <1>3 DEF SumsAlong
<1> DEFINE T == {m \in Nat : m <= Len(s) => r[m] = p[m] + q[m]}
<1>6. 0 \in T
  BY <1>1, <1>2, <1>3 DEF SumsAlong
<1>7. ASSUME NEW m \in Nat, m \in T
      PROVE  m + 1 \in T
  <2>1. SUFFICES ASSUME m + 1 <= Len(s)
                 PROVE  r[m + 1] = p[m + 1] + q[m + 1]
    OBVIOUS
  <2>2. /\ r[m] = p[m] + q[m] /\ m + 1 \in 1..Len(s) /\ (m + 1) - 1 = m /\ m \in 0..Len(s)
    BY <1>4, <1>7, <2>1
  <2>3. PICK e \in Int : e = s[m + 1].net_pnl
    BY <1>4, <2>2
  <2>4. /\ p[m + 1] = IF m + 1 \in P THEN p[m] + e ELSE p[m]
        /\ q[m + 1] = IF m + 1 \in Q THEN q[m] + e ELSE q[m]
        /\ r[m + 1] = IF m + 1 \in R THEN r[m] + e ELSE r[m]
    BY <1>1, <1>2, <1>3, <2>2, <2>3 DEF SumsAlong
  <2>5. p[m] \in Int /\ q[m] \in Int /\ r[m] \in Int
    BY <1>5, <2>2
  <2>6. ~ (m + 1 \in P /\ m + 1 \in Q)
    OBVIOUS
  <2> QED BY <1>0, <2>2, <2>4, <2>5, <2>6
<1>8. Len(s) \in T
  <2>1. Nat \subseteq T
    <3> HIDE DEF T
    <3> QED BY <1>6, <1>7, SetInduction
  <2> QED BY <1>4, <2>1
<1> QED
  BY <1>1, <1>2, <1>3, <1>4, <1>5, <1>8 DEF R

\* Only what is at its positions counts, and no position sums to nothing.
LEMMA SublistOfSame ==
    ASSUME NEW S, NEW s \in Seq(S), NEW P, NEW Q,
           \A n \in 1..Len(s) : n \in P <=> n \in Q
    PROVE  Sublist(s, P) = Sublist(s, Q)
<1> DEFINE Solves(f, A) ==
             f = [n \in 0..Len(s) |->
                    IF n = 0 THEN <<>>
                    ELSE IF n \in A THEN Append(f[n - 1], s[n]) ELSE f[n - 1]]
<1>1. Len(s) \in Nat
  BY LenProperties
<1>2. PICK f : Solves(f, P) /\ Sublist(s, P) = f[Len(s)]
  BY SublistRecursion
<1>3. PICK g : Solves(g, Q) /\ Sublist(s, Q) = g[Len(s)]
  BY SublistRecursion
<1>4. f[0] = <<>> /\ g[0] = <<>>
  BY <1>1, <1>2, <1>3
<1>5. \A n \in 1..Len(s) :
         /\ f[n] = IF n \in P THEN Append(f[n - 1], s[n]) ELSE f[n - 1]
         /\ g[n] = IF n \in Q THEN Append(g[n - 1], s[n]) ELSE g[n - 1]
  <2>1. \A n \in 1..Len(s) : n \in 0..Len(s) /\ n # 0
    BY <1>1
  <2> QED BY <1>2, <1>3, <2>1
<1> DEFINE T == {m \in Nat : m <= Len(s) => f[m] = g[m]}
<1>6. 0 \in T
  BY <1>4
<1> HIDE DEF Solves
<1>7. ASSUME NEW m \in Nat, m \in T
      PROVE  m + 1 \in T
  <2>1. SUFFICES ASSUME m + 1 <= Len(s)
                 PROVE  f[m + 1] = g[m + 1]
    OBVIOUS
  <2>2. f[m] = g[m] /\ m + 1 \in 1..Len(s) /\ (m + 1) - 1 = m
    BY <1>1, <1>7, <2>1
  <2> QED BY <1>5, <2>2
<1>8. Nat \subseteq T
  <2> HIDE DEF T
  <2> QED BY <1>6, <1>7, SetInduction
<1> QED
  BY <1>1, <1>2, <1>3, <1>8

\* A sublist of no position is empty.
LEMMA SublistOfNone ==
    ASSUME NEW S, NEW s \in Seq(S), NEW P, P \cap (1..Len(s)) = {}
    PROVE  Sublist(s, P) = <<>>
<1>1. /\ Sublist(s, P) \in Seq(S)
      /\ Len(Sublist(s, P)) = Cardinality(P \cap (1..Len(s)))
  BY SublistPicks, SublistLength
<1>2. Len(Sublist(s, P)) = 0
  BY <1>1, FS_EmptySet
<1> QED
  BY <1>1, <1>2, EmptySeq

\* The sublist of all positions is the sequence.
LEMMA SublistOfAll ==
    ASSUME NEW S, NEW s \in Seq(S), NEW P, 1..Len(s) \subseteq P
    PROVE  Sublist(s, P) = s
<1>1. PICK f : /\ f = [k \in 0..Len(s) |->
                         IF k = 0 THEN <<>>
                         ELSE IF k \in P THEN Append(f[k - 1], s[k]) ELSE f[k - 1]]
               /\ Sublist(s, P) = f[Len(s)]
  BY SublistRecursion
<1>2. Len(s) \in Nat /\ \A k \in 1..Len(s) : s[k] \in S
  BY LenProperties, ElementOfSeq
<1>3. f[0] = <<>>
  BY <1>1, <1>2
<1>a. ASSUME NEW k \in 1..Len(s)
      PROVE  f[k] = Append(f[k - 1], s[k])
  <2>1. k \in 0..Len(s) /\ k # 0 /\ k \in P
    BY <1>2
  <2> QED BY <1>1, <2>1
<1> DEFINE Good(m) == f[m] \in Seq(S) /\ Len(f[m]) = m /\ \A i \in 1..m : f[m][i] = s[i]
           T == {m \in Nat : m <= Len(s) => Good(m)}
<1>4. 0 \in T
  <2>1. <<>> \in Seq(S) /\ Len(<<>>) = 0
    OBVIOUS
  <2>2. Good(0)
    BY <1>3, <2>1
  <2> QED BY <2>2
<1>5. ASSUME NEW m \in Nat, Good(m), m + 1 <= Len(s)
      PROVE  Good(m + 1)
  <2>1. m + 1 \in 1..Len(s) /\ (m + 1) - 1 = m
    BY <1>2, <1>5
  <2>2. f[m + 1] = Append(f[m], s[m + 1]) /\ s[m + 1] \in S
    BY <1>2, <1>a, <2>1
  <2> QED BY <1>5, <2>2, AppendProperties
<1>6. Nat \subseteq T
  <2> HIDE DEF Good
  <2>1. ASSUME NEW m \in Nat, m \in T
        PROVE  m + 1 \in T
    BY <1>2, <1>5, <2>1
  <2> HIDE DEF T
  <2> QED BY <1>4, <2>1, SetInduction
<1>7. Good(Len(s))
  <2> HIDE DEF Good
  <2> QED BY <1>2, <1>6
<1> QED
  BY <1>1, <1>2, <1>7, SeqEqual

-----------------------------------------------------------------------------
(* Totals of a function over a set.                                        *)

\* A number for each part of a set, which grows by f[x] with x.
Adds(H, f, D) ==
    /\ H \in [SUBSET D -> Int]
    /\ H[{}] = 0
    /\ \A A \in SUBSET D : \A x \in A : H[A] = f[x] + H[A \ {x}]

\* Total is what any such number says of the whole, in whatever order it adds.
LEMMA TotalAdds ==
    ASSUME NEW D, IsFiniteSet(D), NEW f \in [D -> Int], NEW H, Adds(H, f, D)
    PROVE  Total(f) = H[D]
<1> DEFINE Sums(h) ==
             h = [A \in SUBSET DOMAIN f |->
                    IF A = {} THEN 0
                    ELSE LET x == CHOOSE x \in A : TRUE IN f[x] + h[A \ {x}]]
           c == CHOOSE h : Sums(h)
<1>1. DOMAIN f = D
  OBVIOUS
<1>2. ASSUME NEW A \in SUBSET D
      PROVE  H[A] = IF A = {} THEN 0
                    ELSE LET x == CHOOSE x \in A : TRUE IN f[x] + H[A \ {x}]
  <2>1. A # {} => (CHOOSE x \in A : TRUE) \in A
    OBVIOUS
  <2> QED BY <2>1 DEF Adds
<1>3. Sums(H)
  <2>1. H = [A \in SUBSET D |-> H[A]]
    BY DEF Adds
  <2> QED BY <1>1, <1>2, <2>1
<1>4. Sums(c)
  BY <1>3
<1>5. Total(f) = c[D]
  BY <1>1 DEF Total
<1> HIDE DEF c
<1>6. ASSUME NEW A \in SUBSET D
      PROVE  c[A] = IF A = {} THEN 0
                    ELSE LET x == CHOOSE x \in A : TRUE IN f[x] + c[A \ {x}]
  BY <1>1, <1>4
<1> HIDE DEF Sums
<1> DEFINE T == {m \in Nat : \A A \in SUBSET D : Cardinality(A) = m => c[A] = H[A]}
<1>7. \A A \in SUBSET D : IsFiniteSet(A) /\ Cardinality(A) \in Nat
  BY FS_Subset, FS_CardinalityType
<1>8. 0 \in T
  <2> SUFFICES ASSUME NEW A \in SUBSET D, Cardinality(A) = 0
               PROVE  c[A] = H[A]
    OBVIOUS
  <2>1. A = {}
    BY <1>7, FS_EmptySet
  <2> QED BY <1>2, <1>6, <2>1
<1>9. ASSUME NEW m \in Nat, m \in T
      PROVE  m + 1 \in T
  <2> SUFFICES ASSUME NEW A \in SUBSET D, Cardinality(A) = m + 1
               PROVE  c[A] = H[A]
    OBVIOUS
  <2>1. A # {}
    BY FS_EmptySet
  <2>2. PICK x \in A : x = CHOOSE y \in A : TRUE
    BY <2>1
  <2>3. Cardinality(A \ {x}) = m
    <3>1. IsFiniteSet(A) /\ x \in A
      BY <1>7, <2>2
    <3>2. Cardinality(A \ {x}) = Cardinality(A) - 1
      BY <3>1, FS_RemoveElement
    <3> QED BY <3>2
  <2>4. c[A \ {x}] = H[A \ {x}]
    BY <1>9, <2>3
  <2>5. c[A] = f[x] + c[A \ {x}] /\ H[A] = f[x] + H[A \ {x}]
    BY <1>2, <1>6, <2>1, <2>2
  <2> QED BY <2>4, <2>5
<1>10. Nat \subseteq T
  <2> HIDE DEF T
  <2> QED BY <1>8, <1>9, SetInduction
<1> QED
  BY <1>5, <1>7, <1>10

\* There is such a number.
LEMMA TotalExists ==
    ASSUME NEW D, IsFiniteSet(D), NEW f \in [D -> Int]
    PROVE  \E H : Adds(H, f, D)
<1> DEFINE T == {m \in Nat : \A E \in SUBSET D : Cardinality(E) = m => \E H : Adds(H, f, E)}
<1>1. \A E \in SUBSET D : IsFiniteSet(E) /\ Cardinality(E) \in Nat
  BY FS_Subset, FS_CardinalityType
<1>2. 0 \in T
  <2> SUFFICES ASSUME NEW E \in SUBSET D, Cardinality(E) = 0
               PROVE  \E H : Adds(H, f, E)
    OBVIOUS
  <2>1. E = {}
    BY <1>1, FS_EmptySet
  <2>2. Adds([A \in SUBSET E |-> 0], f, E)
    BY <2>1 DEF Adds
  <2> QED BY <2>2
<1>3. ASSUME NEW m \in Nat, m \in T
      PROVE  m + 1 \in T
  <2> SUFFICES ASSUME NEW E \in SUBSET D, Cardinality(E) = m + 1
               PROVE  \E H : Adds(H, f, E)
    OBVIOUS
  <2>1. PICK y \in E : TRUE
    BY FS_EmptySet
  <2> DEFINE F == E \ {y}
  <2>2. Cardinality(F) = m /\ F \in SUBSET D
    <3>1. IsFiniteSet(E) /\ y \in E
      BY <1>1, <2>1
    <3>2. Cardinality(E \ {y}) = Cardinality(E) - 1
      BY <3>1, FS_RemoveElement
    <3> QED BY <3>2
  <2>3. PICK G : Adds(G, f, F)
    <3> HIDE DEF F
    <3> QED BY <1>3, <2>2
  <2> DEFINE H == [A \in SUBSET E |-> IF y \in A THEN f[y] + G[A \ {y}] ELSE G[A]]
  <2>4. \A A \in SUBSET E : A \ {y} \in SUBSET F /\ (y \notin A => A \in SUBSET F)
    OBVIOUS
  <2>5. \A A \in SUBSET E : H[A] = IF y \in A THEN f[y] + G[A \ {y}] ELSE G[A]
    OBVIOUS
  <2>6. H \in [SUBSET E -> Int]
    <3>1. \A A \in SUBSET F : G[A] \in Int
      BY <2>3 DEF Adds
    <3>2. \A A \in SUBSET E : (IF y \in A THEN f[y] + G[A \ {y}] ELSE G[A]) \in Int
      <4> HIDE DEF F
      <4> QED BY <2>1, <2>4, <3>1
    <3> HIDE DEF F
    <3> QED BY <3>2
  <2> HIDE DEF H
  <2>7. H[{}] = 0
    BY <2>3, <2>5 DEF Adds
  <2>8. ASSUME NEW A \in SUBSET E, NEW x \in A
        PROVE  H[A] = f[x] + H[A \ {x}]
    <3>0. A \ {x} \in SUBSET E /\ A \ {y} \in SUBSET F
      BY <2>4
    <3>1. CASE x = y
      <4>1. y \notin A \ {x}
        BY <3>1
      <4>2. H[A \ {x}] = G[A \ {x}] /\ H[A] = f[y] + G[A \ {y}]
        BY <2>5, <3>0, <3>1, <4>1
      <4> QED BY <3>1, <4>2
    <3>2. CASE x # y /\ y \in A
      <4>1. y \in A \ {x} /\ x \in A \ {y} /\ (A \ {x}) \ {y} = (A \ {y}) \ {x}
        BY <3>2
      <4>2. /\ H[A] = f[y] + G[A \ {y}]
            /\ H[A \ {x}] = f[y] + G[(A \ {y}) \ {x}]
        BY <2>5, <3>0, <3>2, <4>1
      <4>3. G[A \ {y}] = f[x] + G[(A \ {y}) \ {x}]
        BY <2>3, <3>0, <4>1 DEF Adds
      <4>4. G[(A \ {y}) \ {x}] \in Int /\ f[x] \in Int /\ f[y] \in Int
        BY <2>3, <3>0, <2>1 DEF Adds
      <4> QED BY <4>2, <4>3, <4>4
    <3>3. CASE y \notin A
      <4>1. H[A] = G[A] /\ H[A \ {x}] = G[A \ {x}] /\ A \in SUBSET F
        BY <2>4, <2>5, <3>0, <3>3
      <4> QED BY <2>3, <4>1 DEF Adds
    <3> QED BY <3>1, <3>2, <3>3
  <2>9. Adds(H, f, E)
    BY <2>6, <2>7, <2>8 DEF Adds
  <2> QED BY <2>9
<1>4. Nat \subseteq T
  <2> HIDE DEF T
  <2> QED BY <1>2, <1>3, SetInduction
<1> QED
  BY <1>1, <1>4

\* Greater values have a greater total.
LEMMA TotalGrows ==
    ASSUME NEW D, IsFiniteSet(D), NEW f \in [D -> Int], NEW g \in [D -> Int],
           \A x \in D : f[x] <= g[x]
    PROVE  Total(f) \in Int /\ Total(g) \in Int /\ Total(f) <= Total(g)
<1>1. PICK F : Adds(F, f, D)
  BY TotalExists
<1>2. PICK G : Adds(G, g, D)
  BY TotalExists
<1>3. Total(f) = F[D] /\ Total(g) = G[D]
  BY <1>1, <1>2, TotalAdds
<1>4. \A A \in SUBSET D : IsFiniteSet(A) /\ Cardinality(A) \in Nat
  BY FS_Subset, FS_CardinalityType
<1>5. \A A \in SUBSET D : F[A] \in Int /\ G[A] \in Int
  BY <1>1, <1>2 DEF Adds
<1> DEFINE T == {m \in Nat : \A A \in SUBSET D : Cardinality(A) = m => F[A] <= G[A]}
<1>6. 0 \in T
  <2> SUFFICES ASSUME NEW A \in SUBSET D, Cardinality(A) = 0
               PROVE  F[A] <= G[A]
    OBVIOUS
  <2>1. A = {}
    BY <1>4, FS_EmptySet
  <2>2. F[A] = 0 /\ G[A] = 0
    BY <1>1, <1>2, <2>1 DEF Adds
  <2> QED BY <2>2
<1>7. ASSUME NEW m \in Nat, m \in T
      PROVE  m + 1 \in T
  <2> SUFFICES ASSUME NEW A \in SUBSET D, Cardinality(A) = m + 1
               PROVE  F[A] <= G[A]
    OBVIOUS
  <2>1. PICK x \in A : TRUE
    BY FS_EmptySet
  <2>2. Cardinality(A \ {x}) = m /\ A \ {x} \in SUBSET D
    <3>1. IsFiniteSet(A) /\ x \in A
      BY <1>4, <2>1
    <3>2. Cardinality(A \ {x}) = Cardinality(A) - 1
      BY <3>1, FS_RemoveElement
    <3> QED BY <3>2
  <2>3. F[A \ {x}] <= G[A \ {x}]
    BY <1>7, <2>2
  <2>4. F[A] = f[x] + F[A \ {x}] /\ G[A] = g[x] + G[A \ {x}]
    BY <1>1, <1>2, <2>1 DEF Adds
  <2>5. f[x] \in Int /\ g[x] \in Int /\ f[x] <= g[x]
    BY <2>1
  <2>6. F[A \ {x}] \in Int /\ G[A \ {x}] \in Int
    BY <1>5, <2>2
  <2>7. PICK a \in Int, b \in Int, p \in Int, q \in Int :
           a = F[A \ {x}] /\ b = G[A \ {x}] /\ p = f[x] /\ q = g[x]
    BY <2>5, <2>6
  <2> QED BY <2>3, <2>4, <2>5, <2>7
<1>8. Nat \subseteq T
  <2> HIDE DEF T
  <2> QED BY <1>6, <1>7, SetInduction
<1> QED
  BY <1>3, <1>4, <1>5, <1>8

\* The groups of trades with the same key, their profits and their sizes.
Grouped(s, D, key, Of, profit, size) ==
    /\ \A n \in 1..Len(s) : key[n] \in D
    /\ \A g \in D : Of[g] = {n \in 1..Len(s) : key[n] = g}
    /\ profit \in [D -> Int] /\ \A g \in D : profit[g] = NetPnl(Sublist(s, Of[g]))
    /\ size \in [D -> Int] /\ \A g \in D : size[g] = Len(Sublist(s, Of[g]))

\* Groups that have every trade once add up to all of them.
LEMMA GroupsAddUp ==
    ASSUME NEW S, \A x \in S : x.net_pnl \in Int, NEW s \in Seq(S),
           NEW D, IsFiniteSet(D), NEW key, NEW Of, NEW profit, NEW size,
           Grouped(s, D, key, Of, profit, size)
    PROVE  Total(profit) = NetPnl(s) /\ Total(size) = Len(s)
<1>c. /\ \A n \in 1..Len(s) : key[n] \in D
      /\ \A g \in D : Of[g] = {n \in 1..Len(s) : key[n] = g}
      /\ profit \in [D -> Int] /\ \A g \in D : profit[g] = NetPnl(Sublist(s, Of[g]))
      /\ size \in [D -> Int] /\ \A g \in D : size[g] = Len(Sublist(s, Of[g]))
  BY DEF Grouped
<1> DEFINE In(A) == {n \in 1..Len(s) : key[n] \in A}
           P == [A \in SUBSET D |-> NetPnl(Sublist(s, In(A)))]
           L == [A \in SUBSET D |-> Len(Sublist(s, In(A)))]
<1>1. Len(s) \in Nat
  BY LenProperties
<1>2. ASSUME NEW A \in SUBSET D
      PROVE  P[A] = NetPnl(Sublist(s, In(A))) /\ L[A] = Len(Sublist(s, In(A)))
  OBVIOUS
<1>3. ASSUME NEW A \in SUBSET D
      PROVE  P[A] \in Int /\ L[A] \in Int
  <2> HIDE DEF P, L, In
  <2>1. In(A) \cap {} = {}
    OBVIOUS
  <2>2. NetPnl(Sublist(s, In(A))) \in Int
    BY <2>1, NetPnlApart
  <2>3. Len(Sublist(s, In(A))) \in Int
    BY SublistPicks, LenProperties
  <2> QED BY <1>2, <2>2, <2>3
<1>4. P = [A \in SUBSET D |-> P[A]] /\ L = [A \in SUBSET D |-> L[A]]
  OBVIOUS
<1> HIDE DEF P, L
<1>5. P \in [SUBSET D -> Int] /\ L \in [SUBSET D -> Int]
  BY <1>3, <1>4
<1>6. P[{}] = 0 /\ L[{}] = 0
  <2>1. In({}) \cap (1..Len(s)) = {}
    OBVIOUS
  <2>2. Sublist(s, In({})) = <<>>
    <3> HIDE DEF In
    <3> QED BY <2>1, SublistOfNone
  <2>3. Len(<<>>) = 0
    OBVIOUS
  <2> HIDE DEF In
  <2> QED BY <1>2, <2>2, <2>3, NetPnlOfNone
<1>a. ASSUME NEW X, NEW Y, X \cap Y = {}
      PROVE  NetPnl(Sublist(s, X \cup Y)) = NetPnl(Sublist(s, X)) + NetPnl(Sublist(s, Y))
  BY ONLY \A x \in S : x.net_pnl \in Int, s \in Seq(S), <1>a, NetPnlApart
<1>b. ASSUME NEW X, NEW Y, X \subseteq 1..Len(s), Y \subseteq 1..Len(s), X \cap Y = {}
      PROVE  Cardinality(X \cup Y) = Cardinality(X) + Cardinality(Y)
  BY ONLY <1>1, <1>b, Apart, ZenonT(30)
<1>7. ASSUME NEW A \in SUBSET D, NEW x \in A
      PROVE  P[A] = profit[x] + P[A \ {x}] /\ L[A] = size[x] + L[A \ {x}]
  <2>1. In(A) = Of[x] \cup In(A \ {x}) /\ Of[x] \cap In(A \ {x}) = {}
    BY <1>c
  <2>2. Of[x] \subseteq 1..Len(s) /\ In(A \ {x}) \subseteq 1..Len(s)
    BY <1>c
  <2> HIDE DEF In
  <2>3. NetPnl(Sublist(s, In(A))) = NetPnl(Sublist(s, Of[x])) + NetPnl(Sublist(s, In(A \ {x})))
    <3>1. NetPnl(Sublist(s, Of[x] \cup In(A \ {x})))
             = NetPnl(Sublist(s, Of[x])) + NetPnl(Sublist(s, In(A \ {x})))
      BY <1>a, <2>1
    <3> QED BY <2>1, <3>1
  <2>4. Len(Sublist(s, In(A))) = Len(Sublist(s, Of[x])) + Len(Sublist(s, In(A \ {x})))
    <3>1. Cardinality(In(A)) = Cardinality(Of[x]) + Cardinality(In(A \ {x}))
      <4>1. Cardinality(Of[x] \cup In(A \ {x})) = Cardinality(Of[x]) + Cardinality(In(A \ {x}))
        BY <1>b, <2>1, <2>2
      <4> QED BY <2>1, <4>1
    <3>2. /\ In(A) \cap (1..Len(s)) = In(A) /\ Of[x] \cap (1..Len(s)) = Of[x]
          /\ In(A \ {x}) \cap (1..Len(s)) = In(A \ {x})
      BY <2>1, <2>2
    <3>3. /\ Len(Sublist(s, In(A))) = Cardinality(In(A) \cap (1..Len(s)))
          /\ Len(Sublist(s, Of[x])) = Cardinality(Of[x] \cap (1..Len(s)))
          /\ Len(Sublist(s, In(A \ {x}))) = Cardinality(In(A \ {x}) \cap (1..Len(s)))
      BY SublistLength
    <3> QED BY <3>1, <3>2, <3>3
  <2>5. A \ {x} \in SUBSET D
    OBVIOUS
  <2> QED BY <1>2, <1>c, <2>3, <2>4, <2>5
<1>8. Adds(P, profit, D) /\ Adds(L, size, D)
  BY <1>5, <1>6, <1>7 DEF Adds
<1>9. Total(profit) = P[D] /\ Total(size) = L[D]
  BY <1>8, <1>c, TotalAdds
<1>10. Sublist(s, In(D)) = s
  <2>1. 1..Len(s) \subseteq In(D)
    BY <1>c
  <2> HIDE DEF In
  <2> QED BY <2>1, SublistOfAll
<1> HIDE DEF In
<1> QED
  BY <1>2, <1>9, <1>10

-----------------------------------------------------------------------------
(* Returns that compound.                                                  *)

\* A period begins with the profits of those before it.
Periodic(s, T, key, balance, start, change) ==
    /\ \A n \in 1..Len(s) : key[n] \in T
    /\ \A p \in T : start[p] = balance + NetPnl(Sublist(s, {n \in 1..Len(s) : key[n] < p}))
    /\ \A p \in T : change[p] = NetPnl(Sublist(s, {n \in 1..Len(s) : key[n] = p}))

\* Each begins with what the one before ended with, the first with the balance.
Chain(T, start, change, balance, ending) ==
    /\ Min(T) \in T /\ Max(T) \in T
    /\ \A p \in T \ {Max(T)} : Min({q \in T : q > p}) \in T
    /\ start[Min(T)] = balance
    /\ start[Max(T)] + change[Max(T)] = ending
    /\ \A p \in T \ {Max(T)} : start[p] + change[p] = start[Min({q \in T : q > p})]

\* In the order of any periods that have every trade once, returns compound.
LEMMA PeriodsChain ==
    ASSUME NEW S, \A x \in S : x.net_pnl \in Int, NEW s \in Seq(S),
           NEW T \in SUBSET Int, IsFiniteSet(T), T # {}, NEW key, NEW balance \in Int,
           NEW start, NEW change, Periodic(s, T, key, balance, start, change)
    PROVE  Chain(T, start, change, balance, balance + NetPnl(s))
<1>c. /\ \A n \in 1..Len(s) : key[n] \in T
      /\ \A p \in T : start[p] = balance + NetPnl(Sublist(s, {n \in 1..Len(s) : key[n] < p}))
      /\ \A p \in T : change[p] = NetPnl(Sublist(s, {n \in 1..Len(s) : key[n] = p}))
  BY DEF Periodic
<1> DEFINE Below(p) == {n \in 1..Len(s) : key[n] < p}
           At(p) == {n \in 1..Len(s) : key[n] = p}
           Sum(X) == NetPnl(Sublist(s, X))
<1>1. \A n \in 1..Len(s) : key[n] \in Int
  BY <1>c
<1>2. ASSUME NEW X, NEW Y, X \cap Y = {}
      PROVE  Sum(X \cup Y) = Sum(X) + Sum(Y) /\ Sum(X) \in Int /\ Sum(Y) \in Int
  BY ONLY \A x \in S : x.net_pnl \in Int, s \in Seq(S), <1>2, NetPnlApart
<1>3. ASSUME NEW p \in T
      PROVE  start[p] = balance + Sum(Below(p)) /\ change[p] = Sum(At(p))
  BY <1>c
<1>4. PICK first \in T, last \in T :
         /\ first = Min(T) /\ \A q \in T : first <= q
         /\ last = Max(T) /\ \A q \in T : q <= last
  <2>1. /\ Min(T) \in T /\ \A q \in T : Min(T) <= q
        /\ Max(T) \in T /\ \A q \in T : q <= Max(T)
    BY MinOfSet, MaxOfSet
  <2> QED BY <2>1
<1>a. \A n \in 1..Len(s) : key[n] \in Int /\ first <= key[n] /\ key[n] <= last
  BY <1>1, <1>4, <1>c
<1>b. first \in Int /\ last \in Int /\ T \in SUBSET Int
  BY <1>4
<1>5. ASSUME NEW p \in T
      PROVE  start[p] + change[p] = balance + Sum(Below(p) \cup At(p))
  <2>1. Below(p) \cap At(p) = {}
    BY <1>1
  <2> HIDE DEF Below, At, Sum
  <2>2. Sum(Below(p) \cup At(p)) = Sum(Below(p)) + Sum(At(p)) /\ Sum(Below(p)) \in Int /\ Sum(At(p)) \in Int
    BY <1>2, <2>1
  <2> QED BY <1>3, <2>2
<1>6. start[Min(T)] = balance
  <2>1. Below(first) \cap (1..Len(s)) = {}
    BY ONLY <1>a, <1>b
  <2> HIDE DEF Below
  <2>2. Sum(Below(first)) = 0
    <3>1. Sublist(s, Below(first)) = <<>>
      BY <2>1, SublistOfNone
    <3> QED BY <3>1, NetPnlOfNone
  <2> HIDE DEF Sum
  <2>3. start[first] = balance + Sum(Below(first))
    BY <1>3
  <2> QED BY <1>4, <2>2, <2>3
<1>7. start[Max(T)] + change[Max(T)] = balance + NetPnl(s)
  <2>1. 1..Len(s) \subseteq Below(last) \cup At(last)
    BY ONLY <1>a, <1>b
  <2> HIDE DEF Below, At
  <2>2. Sum(Below(last) \cup At(last)) = NetPnl(s)
    <3>1. Sublist(s, Below(last) \cup At(last)) = s
      BY <2>1, SublistOfAll
    <3> QED BY <3>1
  <2> HIDE DEF Sum
  <2> QED BY <1>4, <1>5, <2>2
<1>8. ASSUME NEW p \in T \ {Max(T)}
      PROVE  /\ start[p] + change[p] = start[Min({q \in T : q > p})]
             /\ Min({q \in T : q > p}) \in T
  <2> DEFINE U == {q \in T : q > p}
  <2>0. p < last
    <3>1. p <= last /\ p # last /\ p \in Int /\ last \in Int
      BY <1>4
    <3> QED BY ONLY <3>1
  <2>1. U \in SUBSET Int /\ U # {} /\ U \subseteq T
    BY ONLY <1>b, <2>0, p \in T, last \in T
  <2>2. IsFiniteSet(U)
    <3> HIDE DEF U
    <3> QED BY <2>1, FS_Subset
  <2>3. Min(U) \in U /\ \A q \in U : Min(U) <= q
    <3> HIDE DEF U
    <3> QED BY <2>1, <2>2, MinOfSet
  <2>4. PICK q \in T : q = Min(U) /\ q > p /\ \A r \in T : r > p => q <= r
    BY <2>3
  <2>5. Below(p) \cup At(p) = Below(q)
    <3>1. \A n \in 1..Len(s) : key[n] < p \/ key[n] = p <=> key[n] < q
      BY <1>1, <1>c, <2>4, SMTT(30)
    <3> QED BY <3>1
  <2> HIDE DEF Below, At, Sum
  <2>6. start[p] + change[p] = balance + Sum(Below(q))
    BY <1>5, <2>5
  <2> QED BY <1>3, <2>4, <2>6
<1> QED
  BY <1>4, <1>6, <1>7, <1>8 DEF Chain

-----------------------------------------------------------------------------
(* Losing streaks.                                                         *)

\* The streak after each trade.
Streaks(c, s) ==
    /\ c[0] = 0
    /\ \A n \in 1..Len(s) : c[n] = IF s[n].net_pnl < 0 THEN c[n - 1] + 1 ELSE 0

\* The recursion of MaxConsecutiveLosses has a solution.
LEMMA StreaksExist ==
    ASSUME NEW S, NEW s \in Seq(S)
    PROVE  \E c : Streaks(c, s) /\ MaxConsecutiveLosses(s) = Max({c[n] : n \in 0..Len(s)})
<1> DEFINE Solves(f, m) ==
             f = [n \in 0..m |-> IF n > 0 /\ s[n].net_pnl < 0 THEN f[n - 1] + 1 ELSE 0]
           T == {m \in Nat : \E f : Solves(f, m)}
<1>0. Len(s) \in Nat
  BY LenProperties
<1>1. 0 \in T
  <2>1. Solves([n \in 0..0 |-> 0], 0)
    OBVIOUS
  <2> QED BY <2>1
<1>2. ASSUME NEW m \in Nat, m \in T
      PROVE  m + 1 \in T
  <2>1. PICK f : Solves(f, m)
    BY <1>2
  <2> DEFINE g == [n \in 0..(m + 1) |->
                     IF n <= m THEN f[n] ELSE IF s[n].net_pnl < 0 THEN f[m] + 1 ELSE 0]
  <2>2. Solves(g, m + 1)
    <3>1. \A n \in 0..(m + 1) :
             g[n] = IF n > 0 /\ s[n].net_pnl < 0 THEN g[n - 1] + 1 ELSE 0
      <4>1. \A n \in 0..m : f[n] = IF n > 0 /\ s[n].net_pnl < 0 THEN f[n - 1] + 1 ELSE 0
        BY <2>1
      <4>2. \A n \in 0..m : n # 0 => n - 1 \in 0..m
        OBVIOUS
      <4> QED BY <4>1, <4>2
    <3> HIDE DEF g
    <3>2. g = [n \in 0..(m + 1) |-> g[n]]
      BY DEF g
    <3> QED BY <3>1, <3>2
  <2> HIDE DEF Solves, g
  <2> QED BY <2>2
<1>3. Len(s) \in T
  <2>1. Nat \subseteq T
    <3> HIDE DEF T
    <3> QED BY <1>1, <1>2, SetInduction
  <2> HIDE DEF T
  <2> QED BY <1>0, <2>1
<1>4. PICK g : Solves(g, Len(s))
  BY <1>3
<1> DEFINE c == CHOOSE h : Solves(h, Len(s))
<1>5. Solves(c, Len(s))
  BY <1>4
<1>6. MaxConsecutiveLosses(s) = Max({c[n] : n \in 0..Len(s)})
  BY DEF MaxConsecutiveLosses
<1> HIDE DEF c
<1>7. \A n \in 0..Len(s) : c[n] = IF n > 0 /\ s[n].net_pnl < 0 THEN c[n - 1] + 1 ELSE 0
  BY <1>5
<1>8. c[0] = 0
  BY <1>0, <1>7
<1>9. \A n \in 1..Len(s) : n \in 0..Len(s) /\ n > 0
  BY <1>0
<1>10. Streaks(c, s)
  <2> SUFFICES ASSUME NEW n \in 1..Len(s)
               PROVE  c[n] = IF s[n].net_pnl < 0 THEN c[n - 1] + 1 ELSE 0
    BY <1>8 DEF Streaks
  <2> QED BY <1>7, <1>9
<1> QED
  BY <1>6, <1>10

\* The longest streak is the longest run of losing trades.
LEMMA StreakIsRun ==
    ASSUME NEW S, NEW s \in Seq(S)
    PROVE  MaxConsecutiveLosses(s) =
              Max({0} \cup {q[2] - q[1] + 1 : q \in
                    {p \in (1..Len(s)) \X (1..Len(s)) :
                        p[1] <= p[2] /\ \A k \in p[1]..p[2] : s[k].net_pnl < 0}})
<1> DEFINE Runs == {p \in (1..Len(s)) \X (1..Len(s)) :
                       p[1] <= p[2] /\ \A k \in p[1]..p[2] : s[k].net_pnl < 0}
           B == {0} \cup {q[2] - q[1] + 1 : q \in Runs}
<1>1. PICK c : Streaks(c, s) /\ MaxConsecutiveLosses(s) = Max({c[n] : n \in 0..Len(s)})
  BY StreaksExist
<1> DEFINE A == {c[n] : n \in 0..Len(s)}
<1>2. Len(s) \in Nat
  BY LenProperties
<1> DEFINE Good(n) == /\ c[n] \in 0..n
                      /\ \A k \in (n - c[n] + 1)..n : s[k].net_pnl < 0
                      /\ n - c[n] >= 1 => ~ (s[n - c[n]].net_pnl < 0)
           T == {n \in Nat : n <= Len(s) => Good(n)}
<1>3. 0 \in T
  BY <1>1 DEF Streaks
<1>4. ASSUME NEW n \in Nat, Good(n), n + 1 <= Len(s)
      PROVE  Good(n + 1)
  <2>1. n + 1 \in 1..Len(s) /\ (n + 1) - 1 = n
    BY <1>2, <1>4
  <2>2. c[n + 1] = IF s[n + 1].net_pnl < 0 THEN c[n] + 1 ELSE 0
    BY <1>1, <2>1 DEF Streaks
  <2>3. PICK a \in 0..n : a = c[n]
    BY <1>4
  <2>4. CASE s[n + 1].net_pnl < 0
    <3>1. c[n + 1] = a + 1 /\ (n + 1) - (a + 1) = n - a
      BY <2>2, <2>3, <2>4
    <3>2. \A k \in (n - a + 1)..(n + 1) : k \in (n - a + 1)..n \/ k = n + 1
      OBVIOUS
    <3>3. \A k \in (n - a + 1)..(n + 1) : s[k].net_pnl < 0
      BY <1>4, <2>3, <2>4, <3>2
    <3>4. a + 1 \in 0..(n + 1) /\ (n + 1) - (a + 1) + 1 = n - a + 1
      OBVIOUS
    <3>5. n - a >= 1 => ~ (s[n - a].net_pnl < 0)
      BY <1>4, <2>3
    <3>6. \A k \in ((n + 1) - c[n + 1] + 1)..(n + 1) : s[k].net_pnl < 0
      BY <3>1, <3>3, <3>4
    <3>7. (n + 1) - c[n + 1] >= 1 => ~ (s[(n + 1) - c[n + 1]].net_pnl < 0)
      BY <3>1, <3>5
    <3> QED BY <3>1, <3>4, <3>6, <3>7
  <2>5. CASE ~ (s[n + 1].net_pnl < 0)
    <3>1. c[n + 1] = 0
      BY <2>2, <2>5
    <3> QED BY <2>5, <3>1
  <2> QED BY <2>4, <2>5
<1>5. \A n \in 0..Len(s) : Good(n)
  <2> HIDE DEF Good
  <2>1. ASSUME NEW m \in Nat, m \in T
        PROVE  m + 1 \in T
    BY <1>2, <1>4, <2>1
  <2>2. Nat \subseteq T
    <3> HIDE DEF T
    <3> QED BY <1>3, <2>1, SetInduction
  <2> QED BY <1>2, <2>2
<1>6. ASSUME NEW n \in 0..Len(s)
      PROVE  c[n] \in B
  <2>1. PICK a \in 0..n : a = c[n] /\ \A k \in (n - a + 1)..n : s[k].net_pnl < 0
    BY <1>5
  <2>2. CASE a = 0
    BY <2>1, <2>2
  <2>3. CASE a # 0
    <3>1. n - a + 1 \in 1..Len(s) /\ n \in 1..Len(s) /\ n - a + 1 <= n
      BY <1>2, <2>3
    <3>2. <<n - a + 1, n>> \in Runs
      BY <2>1, <3>1
    <3>3. <<n - a + 1, n>>[2] - <<n - a + 1, n>>[1] + 1 = a
      BY <1>2
    <3> HIDE DEF Runs
    <3> QED BY <2>1, <3>2, <3>3
  <2> QED BY <2>2, <2>3
<1>7. ASSUME NEW q \in Runs
      PROVE  q[2] \in 0..Len(s) /\ q[2] - q[1] + 1 <= c[q[2]]
  <2>1. PICK i \in 1..Len(s), j \in 1..Len(s) :
           q[1] = i /\ q[2] = j /\ i <= j /\ \A k \in i..j : s[k].net_pnl < 0
    OBVIOUS
  <2>2. j \in 0..Len(s) /\ j \in Nat /\ i \in Nat
    BY <1>2
  <2>3. PICK a \in 0..j : a = c[j] /\ (j - a >= 1 => ~ (s[j - a].net_pnl < 0))
    BY <1>5, <2>2
  <2>4. ~ (j - a \in i..j)
    <3>1. SUFFICES ASSUME j - a \in i..j
                   PROVE  FALSE
      OBVIOUS
    <3>2. j - a >= 1 /\ s[j - a].net_pnl < 0
      BY <2>1, <2>2, <3>1
    <3> QED BY <2>3, <3>2
  <2>5. j - i + 1 <= a
    BY <2>2, <2>4
  <2> QED BY <2>1, <2>2, <2>3, <2>5
<1>8. A \in SUBSET Int /\ A # {} /\ IsFiniteSet(A)
  <2>1. \A n \in 0..Len(s) : c[n] \in Int
    BY <1>5
  <2>2. 0 \in 0..Len(s)
    BY <1>2
  <2>3. IsFiniteSet(0..Len(s))
    BY <1>2, FS_Interval
  <2>4. IsFiniteSet(A)
    BY <2>3, FiniteImage
  <2> QED BY <2>1, <2>2, <2>4
<1>9. B \in SUBSET Int /\ B # {} /\ IsFiniteSet(B)
  <2>1. \A q \in Runs : q[2] - q[1] + 1 \in 0..Len(s)
    BY <1>2
  <2> HIDE DEF Runs
  <2>2. B \subseteq 0..Len(s)
    BY <1>2, <2>1
  <2>3. IsFiniteSet(0..Len(s))
    BY <1>2, FS_Interval
  <2>4. 0 \in B
    OBVIOUS
  <2> HIDE DEF B
  <2>5. 0..Len(s) \subseteq Int
    BY <1>2
  <2>6. IsFiniteSet(B)
    BY <2>2, <2>3, FS_Subset
  <2> QED BY <2>2, <2>4, <2>5, <2>6
<1>10. /\ Max(A) \in A /\ \A y \in A : y <= Max(A)
       /\ Max(B) \in B /\ \A y \in B : y <= Max(B)
  <2> HIDE DEF A, B
  <2> QED BY <1>8, <1>9, MaxOfSet
<1>11. Max(A) <= Max(B)
  <2>1. Max(A) \in B
    <3> HIDE DEF B
    <3> QED BY <1>6, <1>10
  <2> HIDE DEF A, B
  <2> QED BY <1>10, <2>1
<1>12. Max(B) <= Max(A)
  <2>1. \A n \in 0..Len(s) : c[n] <= Max(A)
    <3>1. \A n \in 0..Len(s) : c[n] \in A
      OBVIOUS
    <3> HIDE DEF A
    <3> QED BY <1>10, <3>1
  <2>2. \A n \in 0..Len(s) : c[n] \in Int
    BY <1>5
  <2>3. Max(A) \in Int
    <3> HIDE DEF A
    <3> QED BY <1>8, <1>10
  <2>4. CASE Max(B) = 0
    <3>1. c[0] = 0 /\ 0 \in 0..Len(s)
      BY <1>1, <1>2 DEF Streaks
    <3> HIDE DEF A, B
    <3> QED BY <2>1, <2>4, <3>1
  <2>5. CASE Max(B) # 0
    <3>1. PICK q \in Runs : Max(B) = q[2] - q[1] + 1
      <4> HIDE DEF Runs
      <4> QED BY <1>10, <2>5
    <3>2. q[2] \in 0..Len(s) /\ Max(B) <= c[q[2]]
      <4> HIDE DEF B, Runs
      <4> QED BY <1>7, <3>1
    <3>3. Max(B) \in Int
      <4> HIDE DEF B
      <4> QED BY <1>9, <1>10
    <3> HIDE DEF A, B, Runs
    <3> QED BY <2>1, <2>2, <2>3, <3>2, <3>3
  <2> QED BY <2>4, <2>5
<1>13. Max(A) \in Int /\ Max(B) \in Int
  <2> HIDE DEF A, B
  <2> QED BY <1>8, <1>9, <1>10
<1>14. Max(A) = Max(B)
  <2> HIDE DEF A, B
  <2> QED BY <1>11, <1>12, <1>13
<1> QED
  BY <1>1, <1>14

-----------------------------------------------------------------------------
(* Trades in the order of their closes.                                    *)

\* Where NormalizedTrades puts a trade.
Inserted(rows, t) ==
    Append(Those(rows, LAMBDA u : ~ ClosesBefore(t, u)), t)
        \o Those(rows, LAMBDA u : ClosesBefore(t, u))

\* One trade more is in the rows.
LEMMA InsertedRows ==
    ASSUME NEW S, NEW rows \in Seq(S), NEW t \in S
    PROVE  Inserted(rows, t) \in Seq(S) /\ Len(Inserted(rows, t)) = Len(rows) + 1
<1> DEFINE P == {n \in DOMAIN rows : ~ ClosesBefore(t, rows[n])}
           Q == {n \in DOMAIN rows : ClosesBefore(t, rows[n])}
           p == Sublist(rows, P)
           q == Sublist(rows, Q)
<1>1. Inserted(rows, t) = Append(p, t) \o q
  BY DEF Inserted, Those
<1>2. DOMAIN rows = 1..Len(rows) /\ Len(rows) \in Nat
  BY LenProperties
<1>3. P \subseteq 1..Len(rows) /\ Q \subseteq 1..Len(rows) /\ P \cap Q = {} /\ P \cup Q = 1..Len(rows)
  BY <1>2
<1> HIDE DEF P, Q
<1>4. p \in Seq(S) /\ q \in Seq(S)
  BY SublistPicks
<1>5. Len(p) = Cardinality(P) /\ Len(q) = Cardinality(Q)
  <2>1. /\ Len(p) = Cardinality(P \cap (1..Len(rows)))
        /\ Len(q) = Cardinality(Q \cap (1..Len(rows)))
    BY SublistLength
  <2>2. P \cap (1..Len(rows)) = P /\ Q \cap (1..Len(rows)) = Q
    BY <1>3
  <2> QED BY <2>1, <2>2
<1>6. Cardinality(P) + Cardinality(Q) = Len(rows)
  <2>1. Cardinality(P \cup Q) = Cardinality(P) + Cardinality(Q)
    BY ONLY <1>2, <1>3, Apart
  <2>2. Cardinality(1..Len(rows)) = Len(rows)
    <3>1. Cardinality(1..Len(rows)) = IF 1 > Len(rows) THEN 0 ELSE Len(rows) - 1 + 1
      BY <1>2, FS_Interval
    <3> QED BY <1>2, <3>1
  <2> QED BY <1>3, <2>1, <2>2
<1> HIDE DEF p, q
<1>7. Append(p, t) \in Seq(S) /\ Len(Append(p, t)) = Len(p) + 1
  BY <1>4, AppendProperties
<1>8. Append(p, t) \o q \in Seq(S) /\ Len(Append(p, t) \o q) = Len(Append(p, t)) + Len(q)
  BY <1>4, <1>7, ConcatProperties
<1>9. Len(p) \in Nat /\ Len(q) \in Nat
  BY <1>4, LenProperties
<1>10. Len(Append(p, t)) + Len(q) = Len(rows) + 1
  <2>1. PICK i \in Nat, j \in Nat : i = Len(p) /\ j = Len(q)
    BY <1>9
  <2>2. i + j = Len(rows) /\ Len(Append(p, t)) = i + 1
    BY <1>5, <1>6, <1>7, <2>1
  <2> QED BY <1>2, <2>1, <2>2
<1> QED
  BY <1>1, <1>8, <1>10

\* The recursion that sorts has a solution, and keeps the rows' number and kind.
LEMMA SortedRows ==
    ASSUME NEW S, NEW trades \in Seq(S)
    PROVE  /\ NormalizedTrades(trades) \in Seq(S)
           /\ Len(NormalizedTrades(trades)) = Len(trades)
<1> DEFINE Solves(f, m) ==
             f = [n \in 0..m |-> IF n = 0 THEN <<>> ELSE Inserted(f[n - 1], trades[n])]
           T == {m \in Nat : \E f : Solves(f, m)}
<1>0. Len(trades) \in Nat /\ \A n \in 1..Len(trades) : trades[n] \in S
  BY LenProperties, ElementOfSeq
<1>1. 0 \in T
  <2>1. Solves([n \in 0..0 |-> <<>>], 0)
    OBVIOUS
  <2> QED BY <2>1
<1>2. ASSUME NEW m \in Nat, m \in T
      PROVE  m + 1 \in T
  <2>1. PICK f : Solves(f, m)
    BY <1>2
  <2> DEFINE g == [n \in 0..(m + 1) |-> IF n <= m THEN f[n] ELSE Inserted(f[m], trades[n])]
  <2>2. Solves(g, m + 1)
    <3>1. \A n \in 0..(m + 1) :
             g[n] = IF n = 0 THEN <<>> ELSE Inserted(g[n - 1], trades[n])
      <4>1. \A n \in 0..m : f[n] = IF n = 0 THEN <<>> ELSE Inserted(f[n - 1], trades[n])
        BY <2>1
      <4>2. \A n \in 0..m : n # 0 => n - 1 \in 0..m
        OBVIOUS
      <4> QED BY <4>1, <4>2
    <3> HIDE DEF g
    <3>2. g = [n \in 0..(m + 1) |-> g[n]]
      BY DEF g
    <3> QED BY <3>1, <3>2
  <2> HIDE DEF Solves, g
  <2> QED BY <2>2
<1>3. Len(trades) \in T
  <2>1. Nat \subseteq T
    <3> HIDE DEF T
    <3> QED BY <1>1, <1>2, SetInduction
  <2> HIDE DEF T
  <2> QED BY <1>0, <2>1
<1>4. PICK g : Solves(g, Len(trades))
  BY <1>3
<1> DEFINE c == CHOOSE h : Solves(h, Len(trades))
<1>5. Solves(c, Len(trades))
  BY <1>4
<1>6. NormalizedTrades(trades) = c[Len(trades)]
  BY DEF NormalizedTrades, Inserted
<1> HIDE DEF c
<1>7. c[0] = <<>>
  BY <1>0, <1>5
<1>8. ASSUME NEW n \in Nat, n + 1 <= Len(trades)
      PROVE  c[n + 1] = Inserted(c[n], trades[n + 1])
  <2>1. n + 1 \in 0..Len(trades) /\ n + 1 # 0 /\ (n + 1) - 1 = n
    BY <1>0, <1>8
  <2> QED BY <1>5, <2>1
<1> HIDE DEF Solves
<1> DEFINE U == {n \in Nat : n <= Len(trades) => c[n] \in Seq(S) /\ Len(c[n]) = n}
<1>9. 0 \in U
  <2>1. <<>> \in Seq(S) /\ Len(<<>>) = 0
    OBVIOUS
  <2> QED BY <1>7, <2>1
<1>10. ASSUME NEW n \in Nat, n \in U
       PROVE  n + 1 \in U
  <2>1. SUFFICES ASSUME n + 1 <= Len(trades)
                 PROVE  c[n + 1] \in Seq(S) /\ Len(c[n + 1]) = n + 1
    OBVIOUS
  <2>2. c[n] \in Seq(S) /\ Len(c[n]) = n /\ trades[n + 1] \in S
    BY <1>0, <1>10, <2>1
  <2>3. c[n + 1] = Inserted(c[n], trades[n + 1])
    BY <1>8, <2>1
  <2>4. /\ Inserted(c[n], trades[n + 1]) \in Seq(S)
        /\ Len(Inserted(c[n], trades[n + 1])) = Len(c[n]) + 1
    BY ONLY <2>2, InsertedRows
  <2> QED BY <2>2, <2>3, <2>4
<1>11. Nat \subseteq U
  <2> HIDE DEF U
  <2> QED BY <1>9, <1>10, SetInduction
<1> QED
  BY <1>0, <1>6, <1>11

-----------------------------------------------------------------------------
(* From the log to the report.                                             *)

\* Trades that ValidTrades lets pass.
SoundTrades(trades) ==
    /\ trades \in Seq(ToSet(trades))
    /\ \A x \in ToSet(trades) :
          /\ x.net_pnl \in Int /\ x.strategy # Missing
          /\ x.open_time \in Nat /\ x.close_time \in Nat /\ x.open_time <= x.close_time

\* A sequence is one of its own elements.
LEMMA ToSetOfSeq ==
    ASSUME NEW S, NEW s \in Seq(S)
    PROVE  s \in Seq(ToSet(s)) /\ DOMAIN s = 1..Len(s) /\ Len(s) \in Nat
           /\ ToSet(s) = {s[n] : n \in 1..Len(s)}
<1>1. Len(s) \in Nat /\ DOMAIN s = 1..Len(s) /\ s = [n \in 1..Len(s) |-> s[n]]
  BY LenProperties
<1>2. ToSet(s) = {s[n] : n \in 1..Len(s)}
  BY <1>1 DEF ToSet
<1>3. \A n \in 1..Len(s) : s[n] \in ToSet(s)
  BY <1>2
<1>4. s \in [1..Len(s) -> ToSet(s)]
  BY <1>1, <1>3
<1>5. s \in Seq(ToSet(s))
  BY <1>1, <1>4
<1> QED
  BY <1>1, <1>2, <1>5

\* What ValidTrades lets pass is sound.
LEMMA ValidIsSound ==
    ASSUME NEW S, NEW trades \in Seq(S), ValidTrades(trades)
    PROVE  SoundTrades(trades)
<1>1. /\ trades \in Seq(ToSet(trades)) /\ DOMAIN trades = 1..Len(trades)
      /\ ToSet(trades) = {trades[n] : n \in 1..Len(trades)}
  BY ToSetOfSeq
<1>2. \A k \in 1..Len(trades) :
          /\ trades[k].net_pnl \in Int /\ trades[k].strategy # Missing
          /\ trades[k].open_time \in Nat /\ trades[k].close_time \in Nat
          /\ trades[k].open_time <= trades[k].close_time
  BY <1>1 DEF ValidTrades
<1> QED
  BY <1>1, <1>2 DEF SoundTrades

\* A closed trade of the log is one of the report's.
LEMMA TradesOfLog ==
    ASSUME NEW V, NEW log \in Seq(V)
    PROVE  /\ Len(AuditTrades(log)) = Len(Records(log, "TRADE_CLOSED"))
           /\ AuditTrades(log) \in Seq(ToSet(AuditTrades(log)))
           /\ Len(Snapshots(log)) \in Nat /\ DOMAIN Snapshots(log) = 1..Len(Snapshots(log))
           /\ Snapshots(log) = <<>> <=> Len(Snapshots(log)) = 0
<1>1. ASSUME NEW type
      PROVE  /\ Records(log, type) \in Seq(V)
             /\ Len(Records(log, type)) \in Nat
             /\ DOMAIN Records(log, type) = 1..Len(Records(log, type))
  <2>1. Records(log, type) \in Seq(V)
    BY SublistPicks DEF Records, Those
  <2> QED BY <2>1, LenProperties
<1> DEFINE c == Records(log, "TRADE_CLOSED")
           a == AuditTrades(log)
           m == Records(log, "ACCOUNT_SNAPSHOT")
           p == Snapshots(log)
<1>2. DOMAIN c = 1..Len(c) /\ Len(c) \in Nat /\ DOMAIN m = 1..Len(m) /\ Len(m) \in Nat
  BY <1>1
<1>3. a = [k \in DOMAIN c |-> a[k]] /\ p = [k \in DOMAIN m |-> p[k]]
  BY DEF AuditTrades, Snapshots
<1> HIDE DEF a, c, m, p
<1>4. a \in Seq({a[k] : k \in 1..Len(c)}) /\ Len(a) = Len(c)
  <2>1. a \in [1..Len(c) -> {a[k] : k \in 1..Len(c)}]
    BY <1>2, <1>3
  <2> QED BY <1>2, <2>1
<1>5. p \in Seq({p[k] : k \in 1..Len(m)}) /\ Len(p) = Len(m) /\ DOMAIN p = 1..Len(m)
  <2>1. p \in [1..Len(m) -> {p[k] : k \in 1..Len(m)}]
    BY <1>2, <1>3
  <2> QED BY <1>2, <1>3, <2>1
<1>6. a \in Seq(ToSet(a))
  BY <1>4, ToSetOfSeq
<1>7. p = <<>> <=> Len(p) = 0
  BY <1>5, EmptySeq
<1> QED
  BY <1>2, <1>4, <1>5, <1>6, <1>7 DEF a, c, p

\* The parts of a report that is not refused.
Parts(made, trades, marks) ==
    /\ made.metrics.trades = trades
    /\ made.metrics.ending_balance = InitialBalance + NetPnl(trades)
    /\ made.metrics.maximum_consecutive_losses = MaxConsecutiveLosses(trades)
    /\ made.metrics.closed_drawdown = SummarizeDrawdown(RealizedPoints(trades))
    /\ marks # <<>> =>
          /\ made.metrics.drawdown = SummarizeDrawdown(SnapshotPoints(trades, marks))
          /\ made.metrics.returns = SnapshotDailyReturns(marks)
    /\ marks = <<>> => made.metrics.returns = DailyReturns(trades)
    /\ made.by_strategy = GroupedPerformance(trades)
    /\ made.monthly = MonthlyPerformance(trades)

\* A report that is not refused has its parts, of trades that are sound.
LEMMA ReportOfLog ==
    ASSUME NEW V, NEW log \in Seq(V), ~ PerformanceReport(log).refused
    PROVE  \E trades :
              /\ SoundTrades(trades)
              /\ Len(trades) = Len(Records(log, "TRADE_CLOSED"))
              /\ ~ PerformanceRefused(trades, Snapshots(log))
              /\ Parts(PerformanceReport(log), trades, Snapshots(log))
<1> DEFINE raw == AuditTrades(log)
           marks == Snapshots(log)
           trades == NormalizedTrades(raw)
           performance == AnalyzePerformance(raw, marks)
<1>1. /\ trades \in Seq(ToSet(raw)) /\ Len(trades) = Len(Records(log, "TRADE_CLOSED"))
  <2>1. raw \in Seq(ToSet(raw)) /\ Len(raw) = Len(Records(log, "TRADE_CLOSED"))
    BY TradesOfLog
  <2> HIDE DEF raw
  <2> QED BY <2>1, SortedRows
<1> HIDE DEF raw, marks, trades
<1>2. Loads(log) /\ ~ performance.refused
  <2>1. CASE ~ Loads(log) \/ performance.refused
    <3>1. PerformanceReport(log) = Refused
      BY <2>1 DEF PerformanceReport, performance, raw, marks
    <3> QED BY <3>1 DEF Refused
  <2> QED BY <2>1
<1>3. ~ PerformanceRefused(trades, marks)
  <2>1. CASE PerformanceRefused(trades, marks)
    <3>1. performance = Refused
      BY <2>1 DEF AnalyzePerformance, trades
    <3> QED BY <1>2, <3>1 DEF Refused
  <2> QED BY <2>1
<1>4. /\ performance.trades = trades
      /\ performance.ending_balance = InitialBalance + NetPnl(trades)
      /\ performance.maximum_consecutive_losses = MaxConsecutiveLosses(trades)
      /\ performance.closed_drawdown = SummarizeDrawdown(RealizedPoints(trades))
      /\ marks # <<>> =>
            /\ performance.drawdown = SummarizeDrawdown(SnapshotPoints(trades, marks))
            /\ performance.returns = SnapshotDailyReturns(marks)
      /\ marks = <<>> => performance.returns = DailyReturns(trades)
  BY <1>3 DEF AnalyzePerformance, trades
<1> HIDE DEF performance
<1>5. PerformanceReport(log)
         = [refused |-> FALSE, metrics |-> performance,
            by_strategy |-> GroupedPerformance(performance.trades),
            monthly |-> MonthlyPerformance(performance.trades)]
  BY <1>2 DEF PerformanceReport, performance, raw, marks
<1>6. Parts(PerformanceReport(log), trades, marks)
  BY <1>4, <1>5 DEF Parts
<1>7. SoundTrades(trades)
  <2>1. ValidTrades(trades)
    BY <1>3 DEF PerformanceRefused
  <2> QED BY <1>1, <2>1, ValidIsSound
<1> QED
  BY <1>1, <1>3, <1>6, <1>7 DEF marks

\* The report is the one on the records so far.
LogInv ==
    /\ input \in Seq(ToSet(input))
    /\ output = ReportOn(report, input)

\* The report on no records.
LEMMA InitLogInv == Init => LogInv
<1> SUFFICES ASSUME Init
             PROVE  LogInv
  OBVIOUS
<1>1. input = <<>> /\ <<>> \in Seq({})
  BY DEF Init
<1>2. input \in Seq(ToSet(input))
  BY <1>1, ToSetOfSeq
<1> QED
  BY <1>1, <1>2 DEF Init, LogInv

\* A record more, and the report on them all.
LEMMA StepLogInv == LogInv /\ [Write]_vars => LogInv'
<1> SUFFICES ASSUME LogInv, [Write]_vars
             PROVE  LogInv'
  OBVIOUS
<1>1. CASE UNCHANGED vars
  BY <1>1 DEF LogInv, vars
<1>2. CASE Write
  <2>1. PICK r \in Written(report, input) : input' = Append(input, r)
    BY <1>2 DEF Write
  <2> DEFINE S == ToSet(input) \cup {r}
  <2>2. input \in Seq(S) /\ r \in S
    <3>1. ToSet(input) \subseteq S /\ input \in Seq(ToSet(input))
      BY DEF LogInv
    <3> HIDE DEF S
    <3>2. input \in Seq(S)
      BY <3>1
    <3> QED BY <3>2 DEF S
  <2>3. input' \in Seq(S)
    <3> HIDE DEF S
    <3> QED BY <2>1, <2>2, AppendProperties
  <2>4. (input \in Seq(ToSet(input)))'
    <3> HIDE DEF S
    <3> QED BY <2>3, ToSetOfSeq
  <2>5. (output = ReportOn(report, input))'
    BY <1>2 DEF Write
  <2> QED BY <2>4, <2>5 DEF LogInv
<1> QED
  BY <1>1, <1>2

\* Every report is made of the records in its files, and of nothing else (main()
\* of the modules of python/analysis).
LEMMA ReportsAreOfTheLog == Spec => []LogInv
<1>1. Init => LogInv
  BY InitLogInv
<1>2. LogInv /\ [Write]_vars => LogInv'
  BY StepLogInv
<1> QED
  BY <1>1, <1>2, PTL DEF Spec

\* What a report of performance is made of.
LEMMA ReportedParts ==
    ASSUME LogInv, Reported
    PROVE  \E trades :
              /\ SoundTrades(trades)
              /\ Len(trades) = Len(Records(input, "TRADE_CLOSED"))
              /\ ~ PerformanceRefused(trades, Snapshots(input))
              /\ Parts(output, trades, Snapshots(input))
<1>1. output = PerformanceReport(input) /\ ~ output.refused
  BY DEF LogInv, Reported, ReportOn
<1>2. input \in Seq(ToSet(input))
  BY DEF LogInv
<1> QED
  BY <1>1, <1>2, ReportOfLog

\* The longest losing streak.
LEMMA StreakIsLongest ==
    ASSUME LogInv
    PROVE  LosingStreakIsLongest
<1> SUFFICES ASSUME Reported
             PROVE  LosingStreakIsLongest
  BY DEF LosingStreakIsLongest
<1>1. PICK trades : SoundTrades(trades) /\ Parts(output, trades, Snapshots(input))
  BY ReportedParts
<1>2. trades \in Seq(ToSet(trades)) /\ DOMAIN trades = 1..Len(trades)
  BY <1>1, ToSetOfSeq DEF SoundTrades
<1>3. MaxConsecutiveLosses(trades) =
              Max({0} \cup {q[2] - q[1] + 1 : q \in
                    {p \in (1..Len(trades)) \X (1..Len(trades)) :
                        p[1] <= p[2] /\ \A k \in p[1]..p[2] : trades[k].net_pnl < 0}})
  BY <1>2, StreakIsRun
<1>4. /\ output.metrics.trades = trades
      /\ output.metrics.maximum_consecutive_losses = MaxConsecutiveLosses(trades)
  BY <1>1 DEF Parts
<1> QED
  BY <1>2, <1>3, <1>4 DEF LosingStreakIsLongest

\* maximum_consecutive_losses is the longest run of losing trades, however many there
\* are (max_consecutive_losses of performance.py).
THEOREM StreakAlwaysLongest == Spec => []LosingStreakIsLongest
BY ReportsAreOfTheLog, StreakIsLongest, PTL

\* A group says how many trades it has and what they earned.
LEMMA GroupOfTrades ==
    ASSUME NEW trades
    PROVE  /\ AggregateTradeGroup(trades).number_of_trades = Len(trades)
           /\ AggregateTradeGroup(trades).net_profit = NetPnl(trades)
BY DEF AggregateTradeGroup

\* A table has a row for each value of the key, with the number of the trades that
\* have it and what they earned.
Tabled(trades, key, groups) ==
    /\ DOMAIN groups = {key[n] : n \in 1..Len(trades)}
    /\ \A g \in DOMAIN groups :
          LET of == Sublist(trades, {n \in 1..Len(trades) : key[n] = g})
          IN  groups[g].number_of_trades = Len(of) /\ groups[g].net_profit = NetPnl(of)

\* Such a table adds up.
LEMMA TableAddsUp ==
    ASSUME NEW trades, SoundTrades(trades), NEW key, NEW groups, Tabled(trades, key, groups)
    PROVE  /\ Total([g \in DOMAIN groups |-> groups[g].number_of_trades]) = Len(trades)
           /\ Total([g \in DOMAIN groups |-> groups[g].net_profit]) = NetPnl(trades)
<1> DEFINE S == ToSet(trades)
           D == DOMAIN groups
           Of == [g \in D |-> {n \in 1..Len(trades) : key[n] = g}]
           profit == [g \in D |-> groups[g].net_profit]
           size == [g \in D |-> groups[g].number_of_trades]
<1>1. trades \in Seq(S) /\ \A x \in S : x.net_pnl \in Int
  BY DEF SoundTrades
<1>2. Len(trades) \in Nat
  BY <1>1, LenProperties
<1>3. \A n \in 1..Len(trades) : key[n] \in D
  BY DEF Tabled
<1>4. \A g \in D : Of[g] = {n \in 1..Len(trades) : key[n] = g}
  OBVIOUS
<1>5. IsFiniteSet(D)
  <2>1. IsFiniteSet(1..Len(trades))
    BY <1>2, FS_Interval
  <2>2. IsFiniteSet({key[n] : n \in 1..Len(trades)})
    BY <2>1, FiniteImage
  <2> QED BY <2>2 DEF Tabled
<1>6. \A g \in D : groups[g].number_of_trades = Len(Sublist(trades, Of[g]))
                   /\ groups[g].net_profit = NetPnl(Sublist(trades, Of[g]))
  BY <1>4 DEF Tabled
<1>7. \A g \in D : profit[g] = NetPnl(Sublist(trades, Of[g])) /\ size[g] = Len(Sublist(trades, Of[g]))
  BY <1>6
<1> HIDE DEF S, D, Of
<1>8. ASSUME NEW g \in D
      PROVE  NetPnl(Sublist(trades, Of[g])) \in Int /\ Len(Sublist(trades, Of[g])) \in Int
  <2>1. NetPnl(Sublist(trades, Of[g])) \in Int
    <3>1. Of[g] \cap {} = {}
      OBVIOUS
    <3> QED BY ONLY <1>1, <3>1, NetPnlApart
  <2>2. Len(Sublist(trades, Of[g])) \in Int
    BY ONLY <1>1, SublistPicks, LenProperties
  <2> QED BY <2>1, <2>2
<1>9. profit = [g \in D |-> profit[g]] /\ size = [g \in D |-> size[g]]
  OBVIOUS
<1>10. profit \in [D -> Int] /\ size \in [D -> Int]
  <2> HIDE DEF profit, size
  <2>1. \A g \in D : profit[g] \in Int /\ size[g] \in Int
    BY <1>7, <1>8
  <2> QED BY <1>9, <2>1
<1> HIDE DEF profit, size
<1>11. Grouped(trades, D, key, Of, profit, size)
  BY <1>3, <1>4, <1>7, <1>10 DEF Grouped
<1>12. Total(profit) = NetPnl(trades) /\ Total(size) = Len(trades)
  BY ONLY <1>1, <1>5, <1>11, GroupsAddUp
<1> QED
  BY <1>12 DEF profit, size, D

\* Both tables add up.
LEMMA AddingUp ==
    ASSUME LogInv
    PROVE  ReportAddsUp
<1> SUFFICES ASSUME Reported
             PROVE  AddsUp(output.by_strategy) /\ AddsUp(output.monthly)
  BY DEF ReportAddsUp
<1>1. PICK trades : /\ SoundTrades(trades) /\ Parts(output, trades, Snapshots(input))
                    /\ Len(trades) = Len(Records(input, "TRADE_CLOSED"))
  BY ReportedParts
<1>2. trades \in Seq(ToSet(trades)) /\ DOMAIN trades = 1..Len(trades)
      /\ \A n \in 1..Len(trades) : trades[n] \in ToSet(trades)
  BY <1>1, ToSetOfSeq DEF SoundTrades
<1>3. ASSUME NEW groups,
             Total([g \in DOMAIN groups |-> groups[g].number_of_trades]) = Len(trades),
             Total([g \in DOMAIN groups |-> groups[g].net_profit]) = NetPnl(trades)
      PROVE  AddsUp(groups)
  <2>1. output.metrics.ending_balance = InitialBalance + NetPnl(trades)
    BY <1>1 DEF Parts
  <2> QED BY <1>1, <1>3, <2>1 DEF AddsUp
<1>4. AddsUp(output.by_strategy)
  <2> DEFINE key == [n \in 1..Len(trades) |-> trades[n].strategy]
             groups == GroupedPerformance(trades)
  <2>1. \A n \in 1..Len(trades) : key[n] = trades[n].strategy /\ key[n] # Missing
    BY <1>1, <1>2 DEF SoundTrades
  <2>2. DOMAIN groups = {key[n] : n \in 1..Len(trades)}
    <3>1. DOMAIN groups = {trades[k].strategy : k \in 1..Len(trades)} \ {Missing}
      BY <1>2 DEF GroupedPerformance
    <3> HIDE DEF key, groups
    <3> QED BY <2>1, <3>1
  <2>3. ASSUME NEW g \in DOMAIN groups
        PROVE  LET of == Sublist(trades, {n \in 1..Len(trades) : key[n] = g})
               IN  groups[g].number_of_trades = Len(of) /\ groups[g].net_profit = NetPnl(of)
    <3>1. groups[g] = AggregateTradeGroup(Sublist(trades, {n \in 1..Len(trades) : trades[n].strategy = g}))
      BY <1>2 DEF GroupedPerformance, Those
    <3>2. {n \in 1..Len(trades) : key[n] = g} = {n \in 1..Len(trades) : trades[n].strategy = g}
      BY <2>1
    <3> HIDE DEF groups, key
    <3> QED BY <3>1, <3>2, GroupOfTrades
  <2> HIDE DEF groups, key
  <2>4. AddsUp(groups)
    <3>1. /\ Total([g \in DOMAIN groups |-> groups[g].number_of_trades]) = Len(trades)
          /\ Total([g \in DOMAIN groups |-> groups[g].net_profit]) = NetPnl(trades)
      <4>1. Tabled(trades, key, groups)
        BY <2>2, <2>3 DEF Tabled
      <4> QED BY <1>1, <4>1, TableAddsUp
    <3> QED BY <1>3, <3>1
  <2> QED BY <1>1, <2>4 DEF Parts, groups
<1>5. AddsUp(output.monthly)
  <2> DEFINE key == [n \in 1..Len(trades) |-> Month(trades[n].close_time)]
             groups == MonthlyPerformance(trades)
  <2>1. \A n \in 1..Len(trades) : key[n] = Month(trades[n].close_time)
    OBVIOUS
  <2>2. DOMAIN groups = {key[n] : n \in 1..Len(trades)}
    <3>1. DOMAIN groups = {Month(t) : t \in {trades[k].close_time : k \in 1..Len(trades)}}
      BY <1>2 DEF MonthlyPerformance, CloseTimes
    <3> HIDE DEF key, groups
    <3> QED BY <2>1, <3>1
  <2>3. ASSUME NEW g \in DOMAIN groups
        PROVE  LET of == Sublist(trades, {n \in 1..Len(trades) : key[n] = g})
               IN  groups[g].number_of_trades = Len(of) /\ groups[g].net_profit = NetPnl(of)
    <3> DEFINE of == Sublist(trades, {n \in 1..Len(trades) : Month(trades[n].close_time) = g})
    <3>1. groups[g].number_of_trades = Len(of) /\ groups[g].net_profit = NetPnl(of)
      BY <1>2 DEF MonthlyPerformance, Those
    <3>2. {n \in 1..Len(trades) : key[n] = g}
             = {n \in 1..Len(trades) : Month(trades[n].close_time) = g}
      BY <2>1
    <3> HIDE DEF groups, key
    <3> QED BY <3>1, <3>2
  <2> HIDE DEF groups, key
  <2>4. AddsUp(groups)
    <3>1. /\ Total([g \in DOMAIN groups |-> groups[g].number_of_trades]) = Len(trades)
          /\ Total([g \in DOMAIN groups |-> groups[g].net_profit]) = NetPnl(trades)
      <4>1. Tabled(trades, key, groups)
        BY <2>2, <2>3 DEF Tabled
      <4> QED BY <1>1, <4>1, TableAddsUp
    <3> QED BY <1>3, <3>1
  <2> QED BY <1>1, <2>4 DEF Parts, groups
<1> QED
  BY <1>4, <1>5

\* Nothing is lost between any log and the tables by strategy and by month.
THEOREM ReportAlwaysAddsUp == Spec => []ReportAddsUp
BY ReportsAreOfTheLog, AddingUp, PTL

\* Months and days are numbers.
LEMMA PeriodsAreNumbers ==
    ASSUME NEW t \in Nat
    PROVE  Day(t) \in Nat /\ Month(t) \in Nat
<1>1. DaysPerMonth \in Nat \ {0}
  BY TradeReportsAssumption
<1>2. Day(t) \in Nat
  BY DEF Day
<1> QED
  BY <1>1, <1>2 DEF Month

\* The months' balances.
LEMMA MonthsChain ==
    ASSUME NEW trades, SoundTrades(trades), DOMAIN MonthlyPerformance(trades) # {}
    PROVE  LET monthly == MonthlyPerformance(trades)
           IN  Chain(DOMAIN monthly, [m \in DOMAIN monthly |-> monthly[m].starting_balance],
                     [m \in DOMAIN monthly |-> monthly[m].net_profit],
                     InitialBalance, InitialBalance + NetPnl(trades))
<1> DEFINE monthly == MonthlyPerformance(trades)
           T == DOMAIN monthly
           S == ToSet(trades)
           key == [n \in 1..Len(trades) |-> Month(trades[n].close_time)]
           start == [m \in T |-> monthly[m].starting_balance]
           change == [m \in T |-> monthly[m].net_profit]
<1>1. /\ trades \in Seq(S) /\ \A x \in S : x.net_pnl \in Int /\ x.close_time \in Nat
  BY DEF SoundTrades
<1>2. /\ Len(trades) \in Nat /\ DOMAIN trades = 1..Len(trades)
      /\ \A n \in 1..Len(trades) : trades[n] \in S
  BY <1>1, ToSetOfSeq
<1>3. \A n \in 1..Len(trades) : key[n] = Month(trades[n].close_time) /\ key[n] \in Int
  <2>1. \A n \in 1..Len(trades) : key[n] = Month(trades[n].close_time)
    OBVIOUS
  <2>2. \A n \in 1..Len(trades) : trades[n].close_time \in Nat
    BY <1>1, <1>2
  <2>3. \A n \in 1..Len(trades) : Month(trades[n].close_time) \in Nat
    BY ONLY <2>2, PeriodsAreNumbers
  <2> HIDE DEF key
  <2> QED BY <2>1, <2>3
<1>4. T = {key[n] : n \in 1..Len(trades)}
  <2>1. T = {Month(t) : t \in {trades[k].close_time : k \in 1..Len(trades)}}
    BY <1>2 DEF MonthlyPerformance, CloseTimes
  <2> HIDE DEF key, T
  <2> QED BY <1>3, <2>1
<1>5. IsFiniteSet(T)
  <2>1. IsFiniteSet(1..Len(trades))
    BY <1>2, FS_Interval
  <2> HIDE DEF key, T
  <2> QED BY <1>4, <2>1, FiniteImage
<1>6. ASSUME NEW m \in T
      PROVE  /\ monthly[m].starting_balance
                   = InitialBalance + NetPnl(Sublist(trades, {n \in 1..Len(trades) : key[n] < m}))
             /\ monthly[m].net_profit
                   = NetPnl(Sublist(trades, {n \in 1..Len(trades) : key[n] = m}))
  <2>1. /\ monthly[m].starting_balance
              = InitialBalance + NetPnl(Sublist(trades, {n \in 1..Len(trades) : Month(trades[n].close_time) < m}))
        /\ monthly[m].net_profit
              = NetPnl(Sublist(trades, {n \in 1..Len(trades) : Month(trades[n].close_time) = m}))
    BY <1>2 DEF MonthlyPerformance, Those
  <2>2. /\ {n \in 1..Len(trades) : Month(trades[n].close_time) < m} = {n \in 1..Len(trades) : key[n] < m}
        /\ {n \in 1..Len(trades) : Month(trades[n].close_time) = m} = {n \in 1..Len(trades) : key[n] = m}
    BY <1>3
  <2> HIDE DEF key, monthly
  <2> QED BY <2>1, <2>2
<1>7. \A m \in T : start[m] = monthly[m].starting_balance /\ change[m] = monthly[m].net_profit
  OBVIOUS
<1> HIDE DEF monthly, T, S, key, start, change
<1>8. Periodic(trades, T, key, InitialBalance, start, change)
  BY <1>4, <1>6, <1>7 DEF Periodic
<1>9. T \in SUBSET Int /\ T # {}
  BY <1>3, <1>4 DEF T, monthly
<1>10. InitialBalance \in Int
  BY TradeReportsAssumption
<1>11. Chain(T, start, change, InitialBalance, InitialBalance + NetPnl(trades))
  BY ONLY <1>1, <1>5, <1>8, <1>9, <1>10, PeriodsChain
<1> QED
  BY <1>11 DEF T, start, change, monthly

\* The days' balances, of realized profits.
LEMMA DaysChain ==
    ASSUME NEW trades, SoundTrades(trades), DOMAIN DailyReturns(trades) # {}
    PROVE  LET daily == DailyReturns(trades)
           IN  Chain(DOMAIN daily, [d \in DOMAIN daily |-> daily[d][2]],
                     [d \in DOMAIN daily |-> daily[d][1]],
                     InitialBalance, InitialBalance + NetPnl(trades))
<1> DEFINE daily == DailyReturns(trades)
           T == DOMAIN daily
           S == ToSet(trades)
           days == {Day(t) : t \in CloseTimes(trades)}
           key == [n \in 1..Len(trades) |-> Day(trades[n].close_time)]
           start == [d \in T |-> daily[d][2]]
           change == [d \in T |-> daily[d][1]]
<1>1. /\ trades \in Seq(S) /\ \A x \in S : x.net_pnl \in Int /\ x.close_time \in Nat
  BY DEF SoundTrades
<1>2. /\ Len(trades) \in Nat /\ DOMAIN trades = 1..Len(trades)
      /\ \A n \in 1..Len(trades) : trades[n] \in S
  BY <1>1, ToSetOfSeq
<1>3. \A n \in 1..Len(trades) : key[n] = Day(trades[n].close_time) /\ key[n] \in Int
  <2>1. \A n \in 1..Len(trades) : key[n] = Day(trades[n].close_time)
    OBVIOUS
  <2>2. \A n \in 1..Len(trades) : trades[n].close_time \in Nat
    BY <1>1, <1>2
  <2>3. \A n \in 1..Len(trades) : Day(trades[n].close_time) \in Nat
    BY ONLY <2>2, PeriodsAreNumbers
  <2> HIDE DEF key
  <2> QED BY <2>1, <2>3
<1>4. days = {key[n] : n \in 1..Len(trades)}
  <2>1. days = {Day(t) : t \in {trades[k].close_time : k \in 1..Len(trades)}}
    BY <1>2 DEF CloseTimes
  <2> HIDE DEF key, days
  <2> QED BY <1>3, <2>1
<1>5. trades # <<>>
  <2>1. CASE trades = <<>>
    <3>1. daily = <<>>
      BY <2>1 DEF DailyReturns
    <3>2. DOMAIN daily = {}
      BY <3>1
    <3> QED BY <3>2
  <2> QED BY <2>1
<1>6. days \in SUBSET Int /\ days # {} /\ IsFiniteSet(days)
  <2>1. IsFiniteSet(1..Len(trades))
    BY <1>2, FS_Interval
  <2>2. Len(trades) # 0
    BY <1>1, <1>5, EmptySeq
  <2>3. 1 \in 1..Len(trades)
    BY <1>2, <2>2
  <2> HIDE DEF key, days
  <2>4. IsFiniteSet(days)
    BY <1>4, <2>1, FiniteImage
  <2> QED BY <1>3, <1>4, <2>3, <2>4
<1>7. PICK first \in days, last \in days :
         /\ first = Min(days) /\ last = Max(days)
         /\ \A d \in days : first <= d /\ d <= last
  <2> HIDE DEF days
  <2>1. /\ Min(days) \in days /\ \A y \in days : Min(days) <= y
        /\ Max(days) \in days /\ \A y \in days : y <= Max(days)
    BY <1>6, MinOfSet, MaxOfSet
  <2> QED BY <2>1
<1>a. first \in Int /\ last \in Int /\ first <= last
  <2> HIDE DEF days
  <2> QED BY <1>6, <1>7
<1>8. T = first..last
  BY <1>5, <1>7 DEF DailyReturns
<1>9. ASSUME NEW d \in T
      PROVE  /\ daily[d][2]
                   = InitialBalance + NetPnl(Sublist(trades, {n \in 1..Len(trades) : key[n] < d}))
             /\ daily[d][1]
                   = NetPnl(Sublist(trades, {n \in 1..Len(trades) : key[n] = d}))
  <2>0. d \in Min(days)..Max(days)
    <3> HIDE DEF T, days
    <3> QED BY <1>7, <1>8
  <2>1. /\ daily[d][2]
              = InitialBalance + NetPnl(Sublist(trades, {n \in 1..Len(trades) : Day(trades[n].close_time) < d}))
        /\ daily[d][1]
              = NetPnl(Sublist(trades, {n \in 1..Len(trades) : Day(trades[n].close_time) = d}))
    BY <1>2, <1>5, <2>0 DEF DailyReturns, Those
  <2>2. /\ {n \in 1..Len(trades) : Day(trades[n].close_time) < d} = {n \in 1..Len(trades) : key[n] < d}
        /\ {n \in 1..Len(trades) : Day(trades[n].close_time) = d} = {n \in 1..Len(trades) : key[n] = d}
    BY <1>3
  <2> HIDE DEF key, daily
  <2> QED BY <2>1, <2>2
<1>10. \A d \in T : start[d] = daily[d][2] /\ change[d] = daily[d][1]
  OBVIOUS
<1> HIDE DEF daily, T, S, key, start, change, days
<1>11. \A n \in 1..Len(trades) : key[n] \in T
  BY <1>3, <1>4, <1>7, <1>8, <1>a
<1>12. Periodic(trades, T, key, InitialBalance, start, change)
  BY <1>9, <1>10, <1>11 DEF Periodic
<1>13. T \in SUBSET Int /\ T # {} /\ IsFiniteSet(T)
  <2>1. IsFiniteSet(first..last)
    BY ONLY <1>a, FS_Interval
  <2>2. first..last \in SUBSET Int /\ first \in first..last
    BY ONLY <1>a
  <2> QED BY <1>8, <2>1, <2>2
<1>14. InitialBalance \in Int
  BY TradeReportsAssumption
<1>15. Chain(T, start, change, InitialBalance, InitialBalance + NetPnl(trades))
  BY ONLY <1>1, <1>12, <1>13, <1>14, PeriodsChain
<1> QED
  BY <1>15 DEF T, start, change, daily

\* Snapshots that ValidSnapshots lets pass.
SoundMarks(marks) ==
    /\ Len(marks) \in Nat \ {0} /\ DOMAIN marks = 1..Len(marks)
    /\ \A j, k \in 1..Len(marks) : marks[j].timestamp = marks[k].timestamp => j = k
    /\ \A k \in 1..Len(marks) : marks[k].timestamp \in Nat /\ marks[k].equity \in Nat \ {0}

\* Of some snapshots one is the latest.
Latest(marks, K) ==
    CHOOSE k \in K : \A j \in K : marks[j].timestamp <= marks[k].timestamp

\* The latest of the snapshots.
LEMMA LatestIsLast ==
    ASSUME NEW marks, SoundMarks(marks), NEW K \in SUBSET DOMAIN marks, K # {}
    PROVE  /\ Latest(marks, K) \in K
           /\ \A j \in K : marks[j].timestamp <= marks[Latest(marks, K)].timestamp
<1> DEFINE A == {marks[k].timestamp : k \in K}
<1>1. K \subseteq 1..Len(marks) /\ Len(marks) \in Nat
  BY DEF SoundMarks
<1>2. IsFiniteSet(K)
  BY <1>1, PositionsFinite
<1>3. IsFiniteSet(A)
  <2> DEFINE f == [k \in K |-> marks[k].timestamp]
  <2>1. A = {f[k] : k \in K}
    OBVIOUS
  <2> HIDE DEF f
  <2> QED BY <1>2, <2>1, FiniteImage
<1>4. A \in SUBSET Int /\ A # {}
  BY <1>1 DEF SoundMarks
<1>5. Max(A) \in A /\ \A y \in A : y <= Max(A)
  <2> HIDE DEF A
  <2> QED BY <1>3, <1>4, MaxOfSet
<1>6. PICK k \in K : marks[k].timestamp = Max(A)
  BY <1>5
<1>7. \A j \in K : marks[j].timestamp <= marks[k].timestamp
  BY <1>5, <1>6
<1> QED
  BY <1>6, <1>7 DEF Latest

\* Equity per day: of the last snapshot until then.
LEMMA MarkedDaysChain ==
    ASSUME NEW marks, SoundMarks(marks)
    PROVE  LET returns == SnapshotDailyReturns(marks)
           IN  Chain(DOMAIN returns, [d \in DOMAIN returns |-> returns[d][2]],
                     [d \in DOMAIN returns |-> returns[d][1]],
                     InitialBalance, marks[Latest(marks, DOMAIN marks)].equity)
<1> DEFINE returns == SnapshotDailyReturns(marks)
           T == DOMAIN returns
           days == {Day(marks[k].timestamp) : k \in DOMAIN marks}
           Until(d) == {k \in DOMAIN marks : Day(marks[k].timestamp) <= d}
           equity == [d \in T |-> marks[Latest(marks, Until(d))].equity]
           start == [d \in T |-> returns[d][2]]
           change == [d \in T |-> returns[d][1]]
<1>1. /\ Len(marks) \in Nat /\ Len(marks) # 0 /\ DOMAIN marks = 1..Len(marks)
      /\ \A k \in DOMAIN marks : marks[k].timestamp \in Nat /\ marks[k].equity \in Int
  BY DEF SoundMarks
<1>2. \A k \in DOMAIN marks : Day(marks[k].timestamp) \in Nat
  BY <1>1, PeriodsAreNumbers
<1>3. days \in SUBSET Int /\ days # {} /\ IsFiniteSet(days)
  <2>1. IsFiniteSet(DOMAIN marks)
    BY <1>1, FS_Interval
  <2>2. IsFiniteSet(days)
    <3> DEFINE f == [k \in DOMAIN marks |-> Day(marks[k].timestamp)]
    <3>1. days = {f[k] : k \in DOMAIN marks}
      OBVIOUS
    <3> HIDE DEF f
    <3> QED BY <2>1, <3>1, FiniteImage
  <2>3. 1 \in DOMAIN marks
    BY <1>1
  <2> QED BY <1>2, <2>2, <2>3
<1>4. PICK first \in days, last \in days :
         /\ first = Min(days) /\ last = Max(days)
         /\ \A d \in days : first <= d /\ d <= last
  <2> HIDE DEF days
  <2>1. /\ Min(days) \in days /\ \A y \in days : Min(days) <= y
        /\ Max(days) \in days /\ \A y \in days : y <= Max(days)
    BY <1>3, MinOfSet, MaxOfSet
  <2> QED BY <2>1
<1>5. first \in Int /\ last \in Int /\ first <= last
  <2> HIDE DEF days
  <2> QED BY <1>3, <1>4
<1>6. T = first..last
  BY <1>4 DEF SnapshotDailyReturns
<1>7. ASSUME NEW d \in T
      PROVE  Until(d) \in SUBSET DOMAIN marks /\ Until(d) # {}
  <2>1. PICK k \in DOMAIN marks : first = Day(marks[k].timestamp)
    BY <1>4
  <2>2. first <= d
    BY <1>5, <1>6
  <2> QED BY <2>1, <2>2
<1>8. ASSUME NEW d \in T
      PROVE  equity[d] = marks[Latest(marks, Until(d))].equity /\ equity[d] \in Int
  <2> HIDE DEF Until, T
  <2>1. Latest(marks, Until(d)) \in Until(d)
    BY <1>7, LatestIsLast
  <2>2. equity[d] = marks[Latest(marks, Until(d))].equity
    OBVIOUS
  <2> HIDE DEF equity
  <2> QED BY <1>1, <1>7, <2>1, <2>2
<1>9. ASSUME NEW d \in T
      PROVE  LET before == IF d = first THEN InitialBalance
                           ELSE marks[Latest(marks, Until(d - 1))].equity
             IN  returns[d] = <<marks[Latest(marks, Until(d))].equity - before, before>>
  <2>0. d \in Min(days)..Max(days)
    <3> HIDE DEF T, days
    <3> QED BY <1>4, <1>6
  <2>1. first = Min(days)
    BY <1>4
  <2> QED BY <2>0, <2>1 DEF SnapshotDailyReturns, Latest
<1>10. \A d \in T : start[d] = returns[d][2] /\ change[d] = returns[d][1]
  OBVIOUS
<1>11. Until(last) = DOMAIN marks
  <2>1. \A k \in DOMAIN marks : Day(marks[k].timestamp) <= last
    BY <1>4
  <2> QED BY <2>1
<1> HIDE DEF returns, T, days, Until, equity, start, change
<1>12. InitialBalance \in Int
  BY TradeReportsAssumption
<1>13. ASSUME NEW d \in T, d # first
       PROVE  d - 1 \in T /\ start[d] = equity[d - 1] /\ start[d] + change[d] = equity[d]
  <2>1. d - 1 \in T
    BY <1>5, <1>6, <1>13
  <2>2. returns[d] = <<equity[d] - equity[d - 1], equity[d - 1]>>
    BY <1>8, <1>9, <1>13, <2>1
  <2>3. start[d] = equity[d - 1] /\ change[d] = equity[d] - equity[d - 1]
    BY <1>10, <2>2
  <2>4. equity[d] \in Int /\ equity[d - 1] \in Int
    BY <1>8, <2>1
  <2> QED BY <2>1, <2>3, <2>4
<1>14. first \in T /\ start[first] = InitialBalance /\ start[first] + change[first] = equity[first]
  <2>1. first \in T
    BY <1>5, <1>6
  <2>2. returns[first] = <<equity[first] - InitialBalance, InitialBalance>>
    BY <1>8, <1>9, <2>1
  <2>3. start[first] = InitialBalance /\ change[first] = equity[first] - InitialBalance
    BY <1>10, <2>1, <2>2
  <2>4. equity[first] \in Int
    BY <1>8, <2>1
  <2> QED BY <1>12, <2>1, <2>3, <2>4
<1>15. \A d \in T : start[d] + change[d] = equity[d]
  BY <1>13, <1>14
<1>16. T \in SUBSET Int /\ T # {} /\ IsFiniteSet(T)
  <2>1. IsFiniteSet(first..last)
    BY ONLY <1>5, FS_Interval
  <2>2. first..last \in SUBSET Int /\ first \in first..last
    BY ONLY <1>5
  <2> QED BY <1>6, <2>1, <2>2
<1>17. Min(T) = first /\ Max(T) = last
  <2>1. /\ Min(T) \in T /\ \A y \in T : Min(T) <= y
        /\ Max(T) \in T /\ \A y \in T : y <= Max(T)
    BY <1>16, MinOfSet, MaxOfSet
  <2>2. first \in T /\ last \in T
    BY <1>5, <1>6
  <2>3. first <= Min(T) /\ Max(T) <= last /\ Min(T) \in Int /\ Max(T) \in Int
    BY <1>5, <1>6, <2>1
  <2> QED BY <1>5, <2>1, <2>2, <2>3
<1>18. last \in T /\ equity[last] = marks[Latest(marks, DOMAIN marks)].equity
  <2>1. last \in T
    BY <1>5, <1>6
  <2> QED BY <1>8, <1>11, <2>1
<1>19. ASSUME NEW d \in T \ {last}
       PROVE  /\ start[d] + change[d] = start[Min({q \in T : q > d})]
              /\ Min({q \in T : q > d}) \in T
  <2> DEFINE U == {q \in T : q > d}
  <2>1. d + 1 \in T /\ d + 1 # first /\ (d + 1) - 1 = d
    BY <1>5, <1>6
  <2>2. U \in SUBSET Int /\ d + 1 \in U /\ \A q \in U : d + 1 <= q
    BY <1>5, <1>6, <2>1
  <2>3. U \subseteq T
    OBVIOUS
  <2> HIDE DEF U
  <2>4. IsFiniteSet(U)
    BY <1>16, <2>3, FS_Subset
  <2>5. Min(U) \in U /\ \A y \in U : Min(U) <= y
    BY <2>2, <2>4, MinOfSet
  <2>6. Min(U) = d + 1
    <3>1. Min(U) <= d + 1 /\ d + 1 <= Min(U) /\ Min(U) \in Int /\ d + 1 \in Int
      BY <2>2, <2>5
    <3> QED BY ONLY <3>1
  <2>7. start[d + 1] = equity[d]
    BY <1>13, <2>1
  <2> QED BY <1>15, <2>1, <2>6, <2>7 DEF U
<1>20. Chain(T, start, change, InitialBalance, equity[last])
  BY <1>14, <1>15, <1>17, <1>18, <1>19 DEF Chain
<1> QED
  BY <1>18, <1>20 DEF T, start, change, returns

\* Snapshots that a report is made of are sound.
LEMMA MarksAreSound ==
    ASSUME NEW V, NEW log \in Seq(V), ValidSnapshots(Snapshots(log)), Snapshots(log) # <<>>
    PROVE  SoundMarks(Snapshots(log))
<1> DEFINE marks == Snapshots(log)
<1>1. /\ Len(marks) \in Nat /\ DOMAIN marks = 1..Len(marks)
      /\ marks = <<>> <=> Len(marks) = 0
  BY TradesOfLog
<1> HIDE DEF marks
<1>2. \A k \in DOMAIN marks : marks[k].timestamp \in Nat /\ marks[k].equity \in Nat \ {0}
  BY DEF ValidSnapshots, marks
<1>3. \A j, k \in DOMAIN marks : marks[j].timestamp = marks[k].timestamp => j = k
  <2>1. ValidSnapshots(marks)
    BY DEF marks
  <2> QED BY <2>1 DEF ValidSnapshots, IsInjective
<1> QED
  BY <1>1, <1>2, <1>3 DEF SoundMarks, marks

\* The returns of a report compound.
LEMMA ReturnsChained ==
    ASSUME LogInv
    PROVE  ReturnsCompound
<1> SUFFICES ASSUME Reported
             PROVE  ReturnsCompound
  BY DEF ReturnsCompound
<1> DEFINE marks == Snapshots(input)
           monthly == output.monthly
           returns == output.metrics.returns
           ending == output.metrics.ending_balance
<1>1. PICK trades : /\ SoundTrades(trades) /\ Parts(output, trades, marks)
                    /\ ~ PerformanceRefused(trades, marks)
  BY ReportedParts
<1>2. /\ monthly = MonthlyPerformance(trades)
      /\ ending = InitialBalance + NetPnl(trades)
      /\ marks # <<>> => returns = SnapshotDailyReturns(marks)
      /\ marks = <<>> => returns = DailyReturns(trades)
  BY <1>1 DEF Parts
<1>3. DOMAIN monthly # {} =>
         Chain(DOMAIN monthly, [m \in DOMAIN monthly |-> monthly[m].starting_balance],
               [m \in DOMAIN monthly |-> monthly[m].net_profit], InitialBalance, ending)
  BY <1>1, <1>2, MonthsChain
<1>4. marks = <<>> /\ DOMAIN returns # {} =>
         Chain(DOMAIN returns, [d \in DOMAIN returns |-> returns[d][2]],
               [d \in DOMAIN returns |-> returns[d][1]], InitialBalance, ending)
  BY <1>1, <1>2, DaysChain
<1>5. marks # <<>> => SoundMarks(marks)
  BY <1>1, MarksAreSound DEF LogInv, PerformanceRefused
<1>6. marks # <<>> =>
         Chain(DOMAIN returns, [d \in DOMAIN returns |-> returns[d][2]],
               [d \in DOMAIN returns |-> returns[d][1]], InitialBalance,
               marks[Latest(marks, DOMAIN marks)].equity)
  BY <1>2, <1>5, MarkedDaysChain
<1>7. DOMAIN returns # {} =>
         Chain(DOMAIN returns, [d \in DOMAIN returns |-> returns[d][2]],
               [d \in DOMAIN returns |-> returns[d][1]], InitialBalance,
               IF marks = <<>> THEN ending ELSE marks[Latest(marks, DOMAIN marks)].equity)
  BY <1>4, <1>6
<1> HIDE DEF marks, monthly, returns, ending
<1>8. Chained(DOMAIN monthly, LAMBDA m : monthly[m].starting_balance,
              LAMBDA m : monthly[m].net_profit, ending)
  BY <1>3 DEF Chain, Chained
<1>9. Chained(DOMAIN returns, LAMBDA d : returns[d][2], LAMBDA d : returns[d][1],
              IF marks = <<>> THEN ending ELSE marks[Latest(marks, DOMAIN marks)].equity)
  BY <1>7 DEF Chain, Chained
<1> QED
  BY <1>8, <1>9 DEF ReturnsCompound, Latest, marks, monthly, returns, ending

\* The returns of the report compound to what the account earned, for any log.
THEOREM ReturnsAlwaysCompound == Spec => []ReturnsCompound
BY ReportsAreOfTheLog, ReturnsChained, PTL

-----------------------------------------------------------------------------
(* The deepest drawdown.                                                   *)

\* What Deepest says, of the points of a curve.
DeepestOf(d, T, points) ==
    /\ d.amount \in Int /\ d.peak \in Int
    /\ \A t, u \in T : t < u => (points[t] - points[u]) * d.peak <= d.amount * points[t]
    /\ d.amount > 0 =>
          /\ d.peak_time \in T /\ d.trough_time \in T /\ d.peak_time < d.trough_time
          /\ points[d.peak_time] = d.peak
          /\ points[d.trough_time] = d.peak - d.amount
          /\ \A t \in T : d.peak_time < t /\ (d.recovery_time = Missing \/ t < d.recovery_time)
                => points[t] < d.peak

\* No fall from a lower point to the same is a higher rate.
LEMMA LowerStartFallsLess ==
    ASSUME NEW x \in Int, NEW y \in Int, NEW p \in Int, NEW A \in Int, NEW P \in Int,
           x > 0, y > 0, p > 0, P > 0, x <= p, (p - y) * P <= A * p
    PROVE  (x - y) * P <= A * x
<1>1. (x - y) * p <= (p - y) * x
  <2>1. y * x <= y * p
    OBVIOUS
  <2>2. (x - y) * p = x * p - y * p /\ (p - y) * x = x * p - y * x
    OBVIOUS
  <2>3. x * p \in Int /\ y * p \in Int /\ y * x \in Int
    OBVIOUS
  <2> QED BY <2>1, <2>2, <2>3
<1>2. x - y \in Int /\ p - y \in Int
  OBVIOUS
<1> QED
  BY <1>1, <1>2, RatesAreOrdered

\* The drawdown that is reported is the first of the deepest falls.
LEMMA SummaryIsDeepest ==
    ASSUME NEW T \in SUBSET Int, IsFiniteSet(T), T # {}, NEW points \in [T -> Int],
           ~ CurveRefused(points)
    PROVE  DeepestOf(SummarizeDrawdown(points), T, points)
<1> DEFINE curve == DrawdownCurve(points)
           deepest == {t \in T : \A u \in T : ~ Deeper(curve[u], curve[t])}
           d == SummarizeDrawdown(points)
<1>1. DOMAIN points = T /\ \A t \in T : points[t] \in Int /\ points[t] > 0
  BY DEF CurveRefused
<1>2. PICK trough \in T : trough = Min(deepest) /\ \A u \in T : ~ Deeper(curve[u], curve[trough])
  BY TroughOfCurve
<1>3. ASSUME NEW t \in T
      PROVE  /\ curve[t].peak \in Int /\ curve[t].amount \in Int
             /\ curve[t].amount = curve[t].peak - points[t]
             /\ \A u \in T : u <= t => points[u] <= curve[t].peak
             /\ \E u \in T : u <= t /\ points[u] = curve[t].peak
  BY CurveOfPoints
<1>4. \A t \in T : curve[t].peak > 0
  <2> HIDE DEF curve
  <2> QED BY <1>1, <1>3
<1> DEFINE peaks == {t \in T : t <= trough /\ points[t] = curve[trough].peak}
           recovered == {t \in T : t > trough /\ points[t] >= curve[trough].peak}
<1>5. d = IF curve[trough].amount <= 0 THEN NoDrawdown
          ELSE [amount |-> curve[trough].amount, peak |-> curve[trough].peak,
                peak_time |-> Max(peaks), trough_time |-> trough,
                recovery_time |-> IF recovered = {} THEN Missing ELSE Min(recovered)]
  BY <1>1, <1>2 DEF SummarizeDrawdown
<1> HIDE DEF d, curve, deepest
<1>6. PICK P \in Int, A \in Int :
         /\ P = curve[trough].peak /\ A = curve[trough].amount
         /\ P > 0 /\ A = P - points[trough]
         /\ \A u \in T : u <= trough => points[u] <= P
         /\ \E u \in T : u <= trough /\ points[u] = P
  BY <1>3, <1>4
<1>7. ASSUME NEW u \in T
      PROVE  (curve[u].peak - points[u]) * P <= A * curve[u].peak
  <2>1. PICK p \in Int, a \in Int : p = curve[u].peak /\ a = curve[u].amount /\ a = p - points[u]
    BY <1>3
  <2>2. ~ (a * P > A * p)
    BY <1>2, <1>6, <2>1 DEF Deeper
  <2>3. a * P \in Int /\ A * p \in Int
    BY <2>1
  <2>4. a * P <= A * p
    BY ONLY <2>2, <2>3
  <2> QED BY <2>1, <2>4
<1>8. ASSUME NEW t \in T, NEW u \in T, t < u
      PROVE  (points[t] - points[u]) * P <= A * points[t]
  <2>1. PICK x \in Int, y \in Int, p \in Int :
           x = points[t] /\ y = points[u] /\ p = curve[u].peak /\ x > 0 /\ y > 0 /\ p > 0
    BY <1>1, <1>3, <1>4
  <2>2. x <= p
    <3>1. t <= u
      BY <1>8
    <3> QED BY <1>3, <2>1, <3>1
  <2>3. (p - y) * P <= A * p
    BY <1>7, <2>1
  <2>4. (x - y) * P <= A * x
    BY ONLY <2>1, <2>2, <2>3, <1>6, x \in Int, y \in Int, p \in Int, P \in Int, A \in Int,
            LowerStartFallsLess
  <2> QED BY <2>1, <2>4
<1>9. CASE A <= 0
  <2>1. d.amount = 0 /\ d.peak = 1
    BY <1>5, <1>6, <1>9 DEF NoDrawdown
  <2>2. ASSUME NEW t \in T, NEW u \in T, t < u
        PROVE  (points[t] - points[u]) * d.peak <= d.amount * points[t]
    <3>1. PICK x \in Int, y \in Int : x = points[t] /\ y = points[u] /\ x > 0
      BY <1>1
    <3>2. (x - y) * P <= A * x
      BY <1>8, <2>2, <3>1
    <3>3. A * x <= 0
      BY <1>9, <3>1
    <3>4. PICK e \in Int : e = x - y
      OBVIOUS
    <3>5. e * P <= 0
      BY <3>2, <3>3, <3>4
    <3>6. e <= 0
      BY <1>6, <3>5
    <3>7. d.amount * points[t] = 0 /\ (points[t] - points[u]) * d.peak = e
      BY <2>1, <3>1, <3>4
    <3> QED BY <3>6, <3>7
  <2>3. d.amount \in Int /\ d.peak \in Int /\ ~ (d.amount > 0)
    BY <2>1
  <2> QED BY <2>2, <2>3, Zenon DEF DeepestOf, d
<1>10. CASE A > 0
  <2>1. /\ d.amount = A /\ d.peak = P /\ d.trough_time = trough /\ d.peak_time = Max(peaks)
        /\ d.recovery_time = IF recovered = {} THEN Missing ELSE Min(recovered)
    BY <1>5, <1>6, <1>10
  <2>2. peaks \subseteq T /\ peaks # {} /\ \A t : t \in peaks <=> t \in T /\ t <= trough /\ points[t] = P
    BY <1>6
  <2>3. recovered \subseteq T /\ \A t : t \in recovered <=> t \in T /\ t > trough /\ points[t] >= P
    BY <1>6
  <2> HIDE DEF peaks, recovered
  <2>4. Max(peaks) \in peaks /\ \A t \in peaks : t <= Max(peaks)
    <3>1. IsFiniteSet(peaks) /\ peaks \in SUBSET Int
      BY <2>2, FS_Subset
    <3> QED BY <2>2, <3>1, MaxOfSet
  <2>5. recovered # {} => Min(recovered) \in recovered /\ \A t \in recovered : Min(recovered) <= t
    <3>1. IsFiniteSet(recovered) /\ recovered \in SUBSET Int
      BY <2>3, FS_Subset
    <3> QED BY <3>1, MinOfSet
  <2>6. PICK m \in T : m = Max(peaks) /\ m <= trough /\ points[m] = P /\ \A t \in peaks : t <= m
    BY <2>2, <2>4
  <2>7. points[trough] = P - A /\ points[trough] # P
    BY <1>1, <1>6, <1>10
  <2>8. m < trough
    <3>1. m # trough /\ m \in Int /\ trough \in Int
      BY <2>6, <2>7
    <3> QED BY <2>6, <3>1
  <2>9. ASSUME NEW t \in T, m < t, d.recovery_time = Missing \/ t < d.recovery_time
        PROVE  points[t] < P
    <3>1. PICK z \in Int : z = points[t]
      BY <1>1
    <3>2. SUFFICES ASSUME ~ (z < P)
                   PROVE  FALSE
      BY <3>1
    <3>3. z >= P
      BY <3>2
    <3>4. CASE t <= trough
      <4>1. z = P
        BY <1>6, <3>1, <3>3, <3>4
      <4>2. t \in peaks
        BY <2>2, <3>1, <3>4, <4>1
      <4>3. t <= m /\ t \in Int /\ m \in Int
        BY <2>6, <4>2
      <4> QED BY <2>9, <4>3
    <3>5. CASE t > trough
      <4>1. t \in recovered
        BY <2>3, <3>1, <3>3, <3>5
      <4>2. d.recovery_time = Min(recovered) /\ Min(recovered) <= t /\ Min(recovered) \in Int
        BY <2>1, <2>3, <2>5, <4>1
      <4>3. t < d.recovery_time
        BY <2>9, <4>2, TradeReportsAssumption
      <4> QED BY <4>2, <4>3
    <3> QED BY <3>4, <3>5
  <2>10. \A t, u \in T : t < u => (points[t] - points[u]) * d.peak <= d.amount * points[t]
    BY <1>8, <2>1
  <2>11. /\ d.peak_time \in T /\ d.trough_time \in T /\ d.peak_time < d.trough_time
         /\ points[d.peak_time] = d.peak /\ points[d.trough_time] = d.peak - d.amount
    BY <2>1, <2>6, <2>7, <2>8
  <2>12. \A t \in T : d.peak_time < t /\ (d.recovery_time = Missing \/ t < d.recovery_time)
             => points[t] < d.peak
    BY <2>1, <2>6, <2>9
  <2>13. d.amount \in Int /\ d.peak \in Int
    BY <2>1
  <2> QED BY <2>10, <2>11, <2>12, <2>13, Zenon DEF DeepestOf, d
<1> QED
  BY <1>9, <1>10 DEF d

\* What Deepest says, of a function on the integers.
DeepestIn(d, U, e) ==
    /\ \A t \in U : \A u \in U : t < u => (e[t] - e[u]) * d.peak <= d.amount * e[t]
    /\ d.amount > 0 =>
          /\ d.peak_time \in Int /\ d.trough_time \in Int
          /\ d.peak_time < d.trough_time
          /\ e[d.peak_time] = d.peak
          /\ e[d.trough_time] = d.peak - d.amount
          /\ \A t \in U : d.peak_time < t
                /\ (d.recovery_time = Missing \/ t < d.recovery_time) => e[t] < d.peak

\* It does not matter how long before the rest the account began.
LEMMA EarlierBeginning ==
    ASSUME NEW times \in SUBSET Int, NEW b \in Int, NEW c \in Int, c <= b,
           b # c => \A t \in times : b < t,
           NEW points, NEW d, DeepestOf(d, times \cup {b}, points),
           NEW e, \A t \in times \cup {b} : e[t] = points[t], e[c] = points[b]
    PROVE  DeepestIn(d, times \cup {c}, e)
<1>1. CASE b = c
  <2>1. \A t \in times \cup {b} : e[t] = points[t]
    OBVIOUS
  <2>2. times \cup {b} \in SUBSET Int
    OBVIOUS
  <2> DEFINE T == times \cup {b}
  <2>3. T \in SUBSET Int /\ (\A t \in T : e[t] = points[t]) /\ DeepestOf(d, T, points)
    BY <2>1, <2>2
  <2> HIDE DEF T
  <2>4. DeepestIn(d, T, e)
    BY <2>3 DEF DeepestOf, DeepestIn
  <2> QED BY <1>1, <2>4 DEF T
<1>2. CASE b # c
  <2>0. c < b /\ \A t \in times : t \in Int /\ b < t /\ c < t /\ ~ (t < c) /\ ~ (t < b)
    BY <1>2
  <2> DEFINE T == times \cup {b}
             U == times \cup {c}
  <2>1. /\ T \in SUBSET Int /\ (\A t \in T : e[t] = points[t] /\ b <= t)
        /\ DeepestOf(d, T, points) /\ b \in T /\ times \subseteq T
    <3>1. T \in SUBSET Int /\ b \in T /\ times \subseteq T /\ DeepestOf(d, T, points)
      OBVIOUS
    <3>2. \A t \in T : t \in times \/ t = b
      OBVIOUS
    <3>3. \A t \in T : e[t] = points[t]
      OBVIOUS
    <3>4. b <= b /\ \A t \in times : b <= t
      BY <2>0
    <3> HIDE DEF T
    <3> QED BY <3>1, <3>2, <3>3, <3>4, Zenon
  <2>2. \A t \in U : t \in times \/ t = c
    OBVIOUS
  <2>3. ~ (c < c) /\ ~ (b < c)
    BY <2>0
  <2> HIDE DEF T, U
  <2>4. ASSUME NEW t \in U, NEW u \in U, t < u
        PROVE  (e[t] - e[u]) * d.peak <= d.amount * e[t]
    <3>1. u \in times
      BY <2>0, <2>2, <2>3, <2>4
    <3>2. CASE t \in times
      BY <2>1, <2>4, <3>1, <3>2 DEF DeepestOf
    <3>3. CASE t = c
      <4>1. (points[b] - points[u]) * d.peak <= d.amount * points[b]
        BY <2>0, <2>1, <3>1 DEF DeepestOf
      <4> QED BY <2>1, <3>1, <3>3, <4>1
    <3> QED BY <2>2, <3>2, <3>3
  <2>5. ASSUME d.amount > 0
        PROVE  /\ d.peak_time \in Int /\ d.trough_time \in Int
               /\ d.peak_time < d.trough_time
               /\ e[d.peak_time] = d.peak
               /\ e[d.trough_time] = d.peak - d.amount
    BY <2>1, <2>5 DEF DeepestOf
  <2>6. ASSUME d.amount > 0, NEW t \in U, d.peak_time < t,
               d.recovery_time = Missing \/ t < d.recovery_time
        PROVE  e[t] < d.peak
    <3>1. d.peak_time \in T /\ d.peak_time \in Int /\ b <= d.peak_time
      BY <2>1, <2>6 DEF DeepestOf
    <3>2. t # c
      BY <2>0, <2>6, <3>1
    <3>3. t \in times
      BY <2>2, <3>2
    <3> QED BY <2>1, <2>6, <3>3 DEF DeepestOf
  <2>7. DeepestIn(d, U, e)
    BY <2>4, <2>5, <2>6 DEF DeepestIn
  <2> QED BY <2>7 DEF U
<1> QED
  BY <1>1, <1>2

\* The points of the curve of closed trades are balances.
LEMMA BalancesOfTrades ==
    ASSUME NEW trades, SoundTrades(trades), trades # <<>>,
           ~ CurveRefused(RealizedEquityCurve(trades))
    PROVE  LET T == CloseTimes(trades) \cup {Min(OpenTimes(trades))}
               points == RealizedPoints(trades)
           IN  /\ T \in SUBSET Int /\ IsFiniteSet(T) /\ T # {}
               /\ points \in [T -> Int] /\ ~ CurveRefused(points)
               /\ \A t \in T : points[t] = InitialBalance + NetPnl(ClosedBy(trades, t))
<1> DEFINE closes == CloseTimes(trades)
           opens == OpenTimes(trades)
           opened == Min(opens)
           curve == RealizedEquityCurve(trades)
           T == closes \cup {opened}
           points == RealizedPoints(trades)
           S == ToSet(trades)
<1>1. /\ trades \in Seq(S) /\ Len(trades) \in Nat /\ DOMAIN trades = 1..Len(trades)
      /\ Len(trades) # 0 /\ \A x \in S : x.net_pnl \in Int
      /\ \A n \in 1..Len(trades) : /\ trades[n].open_time \in Nat /\ trades[n].close_time \in Nat
                                   /\ trades[n].open_time <= trades[n].close_time
  <2>1. trades \in Seq(S)
    BY DEF SoundTrades
  <2>2. \A n \in 1..Len(trades) : trades[n] \in S
    BY <2>1, ElementOfSeq
  <2> QED BY <2>1, <2>2, LenProperties, EmptySeq DEF SoundTrades
<1>2. closes \in SUBSET Int /\ opens \in SUBSET Int /\ IsFiniteSet(closes) /\ IsFiniteSet(opens)
      /\ opens # {} /\ closes # {}
  <2>1. IsFiniteSet(1..Len(trades))
    BY <1>1, FS_Interval
  <2> DEFINE f == [n \in 1..Len(trades) |-> trades[n].close_time]
             g == [n \in 1..Len(trades) |-> trades[n].open_time]
  <2>2. closes = {f[n] : n \in 1..Len(trades)} /\ opens = {g[n] : n \in 1..Len(trades)}
    BY <1>1 DEF CloseTimes, OpenTimes
  <2>3. closes \in SUBSET Int /\ opens \in SUBSET Int
    BY <1>1 DEF CloseTimes, OpenTimes
  <2>4. 1 \in 1..Len(trades)
    BY <1>1
  <2> HIDE DEF closes, opens, f, g
  <2> QED BY <2>1, <2>2, <2>3, <2>4, FiniteImage
<1>3. /\ opened \in opens /\ \A t \in opens : opened <= t
  <2> HIDE DEF opens
  <2> QED BY <1>2, MinOfSet
<1>4. \A n \in 1..Len(trades) : trades[n].open_time \in opens /\ trades[n].close_time \in closes
  BY <1>1 DEF OpenTimes, CloseTimes
<1>5. ASSUME NEW t
      PROVE  NetPnl(ClosedBy(trades, t)) \in Int
  <2> DEFINE P == {n \in DOMAIN trades : trades[n].close_time <= t}
  <2>1. ClosedBy(trades, t) = Sublist(trades, P)
    BY DEF ClosedBy, Those
  <2> HIDE DEF P
  <2>2. NetPnl(Sublist(trades, P)) \in Int
    <3>1. P \cap {} = {}
      OBVIOUS
    <3> HIDE DEF S
    <3> QED BY <1>1, <3>1, NetPnlApart
  <2> QED BY <2>1, <2>2
<1>6. opened \notin closes => NetPnl(ClosedBy(trades, opened)) = 0
  <2> SUFFICES ASSUME opened \notin closes
               PROVE  NetPnl(ClosedBy(trades, opened)) = 0
    OBVIOUS
  <2> DEFINE P == {n \in DOMAIN trades : trades[n].close_time <= opened}
  <2>1. ClosedBy(trades, opened) = Sublist(trades, P)
    BY DEF ClosedBy, Those
  <2> HIDE DEF closes, opens, opened
  <2>2. ASSUME NEW n \in 1..Len(trades)
        PROVE  ~ (trades[n].close_time <= opened)
    <3>1. PICK o \in Int, c \in Int : o = trades[n].open_time /\ c = trades[n].close_time /\ o <= c
      BY <1>1
    <3>2. opened <= o /\ c # opened /\ opened \in Int
      BY <1>2, <1>3, <1>4, <3>1
    <3> QED BY <3>1, <3>2
  <2>3. P = {}
    BY <1>1, <2>2
  <2>4. Sublist(trades, {}) = <<>>
    <3> HIDE DEF S
    <3> QED BY <1>1, SublistOfNone
  <2> QED BY <2>1, <2>3, <2>4, NetPnlOfNone
<1>7. DOMAIN curve = closes /\ \A t \in closes : curve[t] = InitialBalance + NetPnl(ClosedBy(trades, t))
  BY DEF RealizedEquityCurve
<1>8. points = [t \in T |-> IF t \in closes THEN curve[t] ELSE InitialBalance]
  <2> HIDE DEF curve, closes
  <2>1. points = [t \in DOMAIN curve \cup {opened} |->
                    IF t \in DOMAIN curve THEN curve[t] ELSE InitialBalance]
    BY DEF RealizedPoints, curve
  <2> QED BY <1>7, <2>1
<1>9. \A t \in closes : curve[t] > 0
  <2> HIDE DEF closes, curve
  <2>1. \A t \in closes : ~ (curve[t] <= 0) /\ curve[t] \in Int
    BY <1>5, <1>7, TradeReportsAssumption DEF CurveRefused, curve
  <2> QED BY <2>1
<1> HIDE DEF closes, opens, opened, curve, points
<1>10. ASSUME NEW t \in T
       PROVE  /\ points[t] = InitialBalance + NetPnl(ClosedBy(trades, t))
              /\ points[t] \in Int /\ points[t] > 0
  <2>1. CASE t \in closes
    <3>1. points[t] = curve[t]
      BY <1>8, <2>1
    <3>2. NetPnl(ClosedBy(trades, t)) \in Int
      BY <1>5
    <3> QED BY <1>7, <1>9, <2>1, <3>1, <3>2, TradeReportsAssumption
  <2>2. CASE t \notin closes
    <3>1. points[t] = InitialBalance /\ t = opened
      BY <1>8, <2>2
    <3>2. NetPnl(ClosedBy(trades, t)) = 0
      BY <1>6, <2>2, <3>1
    <3> QED BY <3>1, <3>2, TradeReportsAssumption
  <2> QED BY <2>1, <2>2
<1>11. T \in SUBSET Int /\ IsFiniteSet(T) /\ T # {}
  BY <1>2, <1>3, FS_AddElement
<1> HIDE DEF T
<1>12. points \in [T -> Int] /\ DOMAIN points = T
  <2>1. points = [t \in T |-> points[t]]
    BY <1>8
  <2> QED BY <1>10, <2>1
<1>13. ~ CurveRefused(points)
  <2>1. \A t \in T : ~ (points[t] <= 0)
    BY <1>10
  <2> QED BY <1>12, <2>1 DEF CurveRefused
<1> QED
  BY <1>10, <1>11, <1>12, <1>13 DEF T, points, closes, opens, opened

\* The equity at a time of a snapshot, the initial balance before.
MarkedAt(marks, t) ==
    IF \E k \in DOMAIN marks : marks[k].timestamp = t
    THEN marks[CHOOSE k \in DOMAIN marks : marks[k].timestamp = t].equity
    ELSE InitialBalance

\* When the account began, for the drawdown of the snapshots.
Beginning(trades, marks) ==
    IF trades # <<>> /\ \A k \in DOMAIN marks : Min(OpenTimes(trades)) < marks[k].timestamp
    THEN Min(OpenTimes(trades)) ELSE -1

\* The drawdown of the snapshots.
LEMMA MarkedIsDeepest ==
    ASSUME NEW trades, SoundTrades(trades), NEW marks, SoundMarks(marks)
    PROVE  LET M == {marks[k].timestamp : k \in DOMAIN marks} \cup {Beginning(trades, marks)}
           IN  /\ M \in SUBSET Int
               /\ DeepestIn(SummarizeDrawdown(SnapshotPoints(trades, marks)), M,
                            [t \in Int |-> MarkedAt(marks, t)])
<1> DEFINE times == {marks[k].timestamp : k \in DOMAIN marks}
           opened == Min(OpenTimes(trades))
           b == IF trades # <<>> /\ opened < Min(times) THEN opened ELSE Min(times) - 1
           c == Beginning(trades, marks)
           points == SnapshotPoints(trades, marks)
           e == [t \in Int |-> MarkedAt(marks, t)]
           d == SummarizeDrawdown(points)
           T == times \cup {b}
<1>1. /\ Len(marks) \in Nat /\ Len(marks) # 0 /\ DOMAIN marks = 1..Len(marks)
      /\ \A k \in DOMAIN marks : /\ marks[k].timestamp \in Nat
                                 /\ marks[k].equity \in Int /\ marks[k].equity > 0
  BY DEF SoundMarks
<1>2. times \in SUBSET Int /\ IsFiniteSet(times) /\ times # {} /\ \A t \in times : t >= 0
  <2>1. IsFiniteSet(DOMAIN marks) /\ 1 \in DOMAIN marks
    BY <1>1, FS_Interval
  <2> DEFINE f == [k \in DOMAIN marks |-> marks[k].timestamp]
  <2>2. times = {f[k] : k \in DOMAIN marks}
    OBVIOUS
  <2>3. times \in SUBSET Int /\ \A t \in times : t >= 0
    BY <1>1
  <2> HIDE DEF f, times
  <2> QED BY <2>1, <2>2, <2>3, FiniteImage
<1>3. PICK first \in Int : first = Min(times) /\ first >= 0 /\ \A t \in times : t \in Int /\ first <= t
  <2> HIDE DEF times
  <2> QED BY <1>2, MinOfSet
<1>4. trades # <<>> => opened \in Int
  <2> SUFFICES ASSUME trades # <<>>
               PROVE  opened \in Int
    OBVIOUS
  <2>1. trades \in Seq(ToSet(trades))
    BY DEF SoundTrades
  <2>2. /\ Len(trades) \in Nat /\ DOMAIN trades = 1..Len(trades) /\ Len(trades) # 0
        /\ \A n \in 1..Len(trades) : trades[n].open_time \in Nat
    <3>1. \A n \in 1..Len(trades) : trades[n] \in ToSet(trades)
      BY <2>1, ElementOfSeq
    <3> QED BY <2>1, <3>1, LenProperties, EmptySeq DEF SoundTrades
  <2> DEFINE O == OpenTimes(trades)
             g == [n \in 1..Len(trades) |-> trades[n].open_time]
  <2>3. O = {g[n] : n \in 1..Len(trades)} /\ O \in SUBSET Int
    BY <2>2 DEF OpenTimes
  <2>4. 1 \in 1..Len(trades) /\ IsFiniteSet(1..Len(trades))
    BY <2>2, FS_Interval
  <2> HIDE DEF O, g
  <2>5. IsFiniteSet(O) /\ O # {}
    BY <2>3, <2>4, FiniteImage
  <2>6. Min(O) \in O
    BY <2>3, <2>5, MinOfSet
  <2> QED BY <2>3, <2>6 DEF O
<1>5. ASSUME trades # <<>>
      PROVE  opened < first <=> \A k \in DOMAIN marks : opened < marks[k].timestamp
  <2>1. PICK k \in DOMAIN marks : first = marks[k].timestamp
    <3>1. first \in times
      <4> HIDE DEF times
      <4> QED BY <1>2, <1>3, MinOfSet
    <3> QED BY <3>1
  <2>2. \A j \in DOMAIN marks : marks[j].timestamp \in Int /\ first <= marks[j].timestamp
    BY <1>3
  <2>3. opened \in Int
    BY <1>4, <1>5
  <2> HIDE DEF opened, times
  <2> QED BY <2>1, <2>2, <2>3
<1>6. /\ b \in Int /\ c \in Int /\ c <= b /\ (\A t \in times : b < t)
  <2> HIDE DEF times
  <2>1. CASE trades # <<>> /\ opened < first
    <3>1. b = opened /\ c = opened /\ opened \in Int
      BY <1>3, <1>4, <1>5, <2>1 DEF Beginning
    <3> HIDE DEF b, c, opened
    <3> QED BY <1>3, <2>1, <3>1
  <2>2. CASE ~ (trades # <<>> /\ opened < first)
    <3>1. b = first - 1 /\ c = -1
      BY <1>3, <1>5, <2>2 DEF Beginning
    <3> HIDE DEF b, c, opened
    <3> QED BY <1>3, <3>1
  <2> QED BY <2>1, <2>2
<1>7. /\ c \notin times /\ b \notin times
      /\ b # c => \A t \in times : b < t
  <2> HIDE DEF times, b
  <2>1. c = b \/ c < b
    BY <1>6
  <2>2. \A t \in times : t \in Int /\ b < t
    BY <1>3, <1>6
  <2> HIDE DEF c
  <2> QED BY <1>6, <2>1, <2>2
<1>8. points = [t \in T |-> IF t \in times THEN MarkedAt(marks, t) ELSE InitialBalance]
  <2>1. points = [t \in T |->
                    IF t \in times
                    THEN marks[CHOOSE k \in DOMAIN marks : marks[k].timestamp = t].equity
                    ELSE InitialBalance]
    BY DEF SnapshotPoints
  <2>2. \A t \in times :
           MarkedAt(marks, t) = marks[CHOOSE k \in DOMAIN marks : marks[k].timestamp = t].equity
    BY DEF MarkedAt
  <2> HIDE DEF points, times, T
  <2> QED BY <2>1, <2>2
<1>9. ASSUME NEW t
      PROVE  /\ t \in times => MarkedAt(marks, t) \in Int /\ MarkedAt(marks, t) > 0
             /\ t \notin times => MarkedAt(marks, t) = InitialBalance
  <2>1. CASE t \in times
    <3>1. \E k \in DOMAIN marks : marks[k].timestamp = t
      BY <2>1
    <3>2. PICK k \in DOMAIN marks : MarkedAt(marks, t) = marks[k].equity
      BY <3>1 DEF MarkedAt
    <3> QED BY <1>1, <2>1, <3>2
  <2>2. CASE t \notin times
    <3>1. ~ \E k \in DOMAIN marks : marks[k].timestamp = t
      BY <2>2
    <3> QED BY <2>2, <3>1 DEF MarkedAt
  <2> QED BY <2>1, <2>2
<1> HIDE DEF times, b, c, points
<1>10. \A t \in T : points[t] = MarkedAt(marks, t) /\ points[t] \in Int /\ points[t] > 0
  BY <1>8, <1>9, TradeReportsAssumption
<1>11. T \in SUBSET Int /\ IsFiniteSet(T) /\ T # {} /\ b \in T
  BY <1>2, <1>6, FS_AddElement
<1>12. points \in [T -> Int] /\ DOMAIN points = T
  <2> HIDE DEF T
  <2>1. points = [t \in T |-> points[t]]
    BY <1>8
  <2> QED BY <1>10, <2>1
<1>13. ~ CurveRefused(points)
  <2> HIDE DEF T
  <2>1. \A t \in T : ~ (points[t] <= 0)
    BY <1>10
  <2> QED BY <1>12, <2>1 DEF CurveRefused
<1>14. DeepestOf(d, T, points)
  <2> HIDE DEF T
  <2> QED BY <1>11, <1>12, <1>13, SummaryIsDeepest
<1>15. \A t \in T : e[t] = points[t]
  BY <1>10, <1>11
<1>16. e[c] = points[b]
  <2>1. points[b] = MarkedAt(marks, b)
    BY <1>10, <1>11
  <2>2. MarkedAt(marks, b) = InitialBalance /\ MarkedAt(marks, c) = InitialBalance
    BY <1>7, <1>9
  <2> QED BY <1>6, <2>1, <2>2
<1> HIDE DEF e, d
<1>17. DeepestIn(d, times \cup {c}, e)
  BY <1>2, <1>6, <1>7, <1>14, <1>15, <1>16, EarlierBeginning DEF T
<1>18. times \cup {c} \in SUBSET Int
  BY <1>2, <1>6
<1> QED
  BY <1>17, <1>18 DEF d, times, c, points, e

\* Both drawdowns of a report.
LEMMA DrawdownsAreDeepest ==
    ASSUME LogInv
    PROVE  DrawdownIsDeepest
<1> SUFFICES ASSUME Reported
             PROVE  DrawdownIsDeepest
  BY DEF DrawdownIsDeepest
<1> DEFINE marks == Snapshots(input)
           trades == output.metrics.trades
<1>1. /\ SoundTrades(trades) /\ Parts(output, trades, marks)
      /\ ~ PerformanceRefused(trades, marks)
  BY ReportedParts DEF Parts
<1>2. /\ output.metrics.closed_drawdown = SummarizeDrawdown(RealizedPoints(trades))
      /\ marks # <<>> =>
            output.metrics.drawdown = SummarizeDrawdown(SnapshotPoints(trades, marks))
  BY <1>1 DEF Parts
<1> DEFINE opened == Min(OpenTimes(trades))
           T == CloseTimes(trades) \cup {opened}
           balance == [t \in Int |-> InitialBalance + NetPnl(ClosedBy(trades, t))]
           marked == [t \in Int |-> MarkedAt(marks, t)]
           M == {marks[k].timestamp : k \in DOMAIN marks} \cup {Beginning(trades, marks)}
           closed == output.metrics.closed_drawdown
           drawdown == output.metrics.drawdown
<1> HIDE DEF trades
<1>3. trades # <<>> => T \in SUBSET Int /\ DeepestIn(closed, T, balance)
  <2> SUFFICES ASSUME trades # <<>>
               PROVE  T \in SUBSET Int /\ DeepestIn(closed, T, balance)
    OBVIOUS
  <2> DEFINE points == RealizedPoints(trades)
  <2>1. /\ T \in SUBSET Int /\ IsFiniteSet(T) /\ T # {}
        /\ points \in [T -> Int] /\ ~ CurveRefused(points)
        /\ \A t \in T : points[t] = InitialBalance + NetPnl(ClosedBy(trades, t))
    BY <1>1, BalancesOfTrades DEF PerformanceRefused
  <2>2. \A t \in T : balance[t] = points[t]
    BY <2>1
  <2> HIDE DEF points, T, balance, closed
  <2>3. DeepestOf(SummarizeDrawdown(points), T, points)
    BY <2>1, SummaryIsDeepest
  <2>4. DeepestOf(closed, T, points)
    BY <1>2, <2>3 DEF closed, points
  <2> QED BY <2>1, <2>2, <2>4 DEF DeepestOf, DeepestIn
<1>4. marks # <<>> => M \in SUBSET Int /\ DeepestIn(drawdown, M, marked)
  <2> SUFFICES ASSUME marks # <<>>
               PROVE  M \in SUBSET Int /\ DeepestIn(drawdown, M, marked)
    OBVIOUS
  <2>1. SoundMarks(marks)
    BY <1>1, MarksAreSound DEF LogInv, PerformanceRefused
  <2> HIDE DEF marks
  <2>2. /\ M \in SUBSET Int
        /\ DeepestIn(SummarizeDrawdown(SnapshotPoints(trades, marks)), M, marked)
    BY <1>1, <2>1, MarkedIsDeepest
  <2> QED BY <1>2, <2>2
<1>5. trades # <<>> =>
         Deepest(closed, T, LAMBDA t : InitialBalance + NetPnl(ClosedBy(trades, t)))
  <2> SUFFICES ASSUME trades # <<>>
               PROVE  Deepest(closed, T, LAMBDA t : InitialBalance + NetPnl(ClosedBy(trades, t)))
    OBVIOUS
  <2>1. \A t \in Int : balance[t] = InitialBalance + NetPnl(ClosedBy(trades, t))
    OBVIOUS
  <2> HIDE DEF balance, T, closed
  <2> QED BY <1>3, <2>1 DEF Deepest, DeepestIn
<1>6. marks # <<>> => Deepest(drawdown, M, LAMBDA t : MarkedAt(marks, t))
  <2> SUFFICES ASSUME marks # <<>>
               PROVE  Deepest(drawdown, M, LAMBDA t : MarkedAt(marks, t))
    OBVIOUS
  <2>1. \A t \in Int : marked[t] = MarkedAt(marks, t)
    OBVIOUS
  <2> HIDE DEF marked, M, drawdown, marks
  <2> QED BY <1>4, <2>1 DEF Deepest, DeepestIn
<1> QED
  BY <1>5, <1>6, Zenon
     DEF DrawdownIsDeepest, Deepest, MarkedAt, Beginning, marks, trades

\* The drawdown that a report states is the deepest that there was, for any log.
THEOREM DrawdownAlwaysDeepest == Spec => []DrawdownIsDeepest
BY ReportsAreOfTheLog, DrawdownsAreDeepest, PTL

-----------------------------------------------------------------------------
(* A period that did worse.                                                *)

\* A metric that is no better is degraded wherever the better one is.
LEMMA WorseIsDegraded ==
    ASSUME NEW metric, NEW s, NEW a, NEW b, NEW limit \in Nat,
           \/ a = b
           \/ /\ a \in Int /\ b \in Int
              /\ IF metric \in LowerIsBetter THEN a > b ELSE a < b,
           Degraded(metric, s, b, limit)
    PROVE  Degraded(metric, s, a, limit)
<1>1. CASE a = b
  BY <1>1
<1>2. CASE a # b
  <2>1. /\ s \in Int /\ a \in Int /\ b \in Int
        /\ IF metric \in LowerIsBetter THEN a > b ELSE a < b
    BY <1>2 DEF Degraded
  <2>2. PICK x \in Int : x = Magnitude(s)
    BY <2>1 DEF Magnitude
  <2>3. CASE metric \in LowerIsBetter
    <3>1. PICK y \in Int : y = Max({Magnitude(s), DrawdownFloor})
      <4> DEFINE M == {Magnitude(s), DrawdownFloor}
      <4>1. M \in SUBSET Int /\ M # {} /\ IsFiniteSet(M)
        <5>1. IsFiniteSet({DrawdownFloor}) /\ IsFiniteSet({x})
          BY FS_Singleton
        <5>2. M = {x} \cup {DrawdownFloor}
          BY <2>2
        <5>3. IsFiniteSet(M)
          BY <5>1, <5>2, FS_Union
        <5> QED BY <2>2, <5>3, ReleaseChecksAssumption
      <4> HIDE DEF M
      <4>2. Max(M) \in Int
        BY <4>1, MaxOfSet
      <4> QED BY <4>2 DEF M
    <3>2. (b - s) * 100 >= limit * y
      BY <2>3, <3>1 DEF Degraded
    <3>3. PICK z \in Int : z = limit * y
      OBVIOUS
    <3>4. (a - s) * 100 >= z
      BY <2>1, <2>3, <3>2, <3>3
    <3> QED BY <2>1, <2>3, <3>1, <3>3, <3>4 DEF Degraded
  <2>4. CASE metric \notin LowerIsBetter
    <3>2. s # 0 /\ (s - b) * 100 >= limit * x
      BY <2>2, <2>4 DEF Degraded
    <3>3. PICK z \in Int : z = limit * x
      OBVIOUS
    <3>4. (s - a) * 100 >= z
      BY <2>1, <2>4, <3>2, <3>3
    <3> QED BY <2>1, <2>2, <2>4, <3>2, <3>3, <3>4 DEF Degraded
  <2> QED BY <2>3, <2>4
<1> QED
  BY <1>1, <1>2

\* Metrics that are no better score no less.
LEMMA WorseScoresMore ==
    ASSUME NEW s, NEW a, NEW b, NoBetter(a, b)
    PROVE  /\ Score(s, a) \in Int /\ Score(s, b) \in Int
           /\ Score(s, b) <= Score(s, a)
<1> DEFINE f == [metric \in EvaluatedMetrics |-> SeverityScore(metric, s[metric], a[metric])]
           g == [metric \in EvaluatedMetrics |-> SeverityScore(metric, s[metric], b[metric])]
<1>1. f \in [EvaluatedMetrics -> Int] /\ g \in [EvaluatedMetrics -> Int]
  <2>1. \A metric, x, y : SeverityScore(metric, x, y) \in Int
    BY DEF SeverityScore
  <2> QED BY <2>1
<1>2. ASSUME NEW metric \in EvaluatedMetrics
      PROVE  g[metric] <= f[metric]
  <2>1. \/ a[metric] = b[metric]
        \/ /\ a[metric] \in Int /\ b[metric] \in Int
           /\ IF metric \in LowerIsBetter THEN a[metric] > b[metric] ELSE a[metric] < b[metric]
    BY DEF NoBetter
  <2>2. ASSUME NEW limit \in Nat, Degraded(metric, s[metric], b[metric], limit)
        PROVE  Degraded(metric, s[metric], a[metric], limit)
    BY <2>1, <2>2, WorseIsDegraded
  <2>3. HighRate \in Nat /\ ModerateRate \in Nat
    BY ReleaseChecksAssumption
  <2> QED BY <2>2, <2>3 DEF SeverityScore
<1>3. IsFiniteSet(EvaluatedMetrics)
  <2>1. IsFiniteSet({"profit_factor"}) /\ IsFiniteSet({"sharpe_ratio"})
        /\ IsFiniteSet({"expectancy"}) /\ IsFiniteSet({"net_profit"})
        /\ IsFiniteSet({"max_drawdown_rate"})
    BY FS_Singleton
  <2>2. EvaluatedMetrics = {"profit_factor"} \cup ({"sharpe_ratio"} \cup ({"expectancy"}
                             \cup ({"net_profit"} \cup {"max_drawdown_rate"})))
    BY DEF EvaluatedMetrics, HigherIsBetter, LowerIsBetter
  <2>3. IsFiniteSet({"net_profit"} \cup {"max_drawdown_rate"})
    BY <2>1, FS_Union
  <2>4. IsFiniteSet({"expectancy"} \cup ({"net_profit"} \cup {"max_drawdown_rate"}))
    BY <2>1, <2>3, FS_Union
  <2>5. IsFiniteSet({"sharpe_ratio"} \cup ({"expectancy"}
                             \cup ({"net_profit"} \cup {"max_drawdown_rate"})))
    BY <2>1, <2>4, FS_Union
  <2> QED BY <2>1, <2>2, <2>5, FS_Union
<1> HIDE DEF f, g
<1>4. Total(g) \in Int /\ Total(f) \in Int /\ Total(g) <= Total(f)
  BY <1>1, <1>2, <1>3, TotalGrows
<1> QED
  BY <1>4 DEF Score, f, g

\* The class of a score grows with it.
LEMMA ClassGrows ==
    ASSUME NEW m \in Int, NEW n \in Int, m <= n, NEW count \in Nat
    PROVE  /\ ClassifyScore(m, count) \in 0..2 /\ ClassifyScore(n, count) \in 0..2
           /\ ClassifyScore(m, count) <= ClassifyScore(n, count)
<1>1. PICK h \in Int, l \in Int : h = ScoreHigh * count /\ l = ScoreModerate * count
  BY ReleaseChecksAssumption
<1> QED
  BY <1>1 DEF ClassifyScore

\* Two sequences of the metrics of periods: the first did no better.
Worse(other, periods) ==
    /\ Len(other) \in Nat /\ Len(periods) = Len(other)
    /\ other \in Seq(ToSet(other)) /\ periods \in Seq(ToSet(periods))
    /\ \A i \in 1..Len(other) : NoBetter(other[i], periods[i])

\* The scores of periods that did no better.
LEMMA WorseTotal ==
    ASSUME NEW s, NEW other, NEW periods, Worse(other, periods)
    PROVE  /\ Total([k \in DOMAIN other |-> Score(s, other[k])]) \in Int
           /\ Total([k \in DOMAIN periods |-> Score(s, periods[k])]) \in Int
           /\ Total([k \in DOMAIN periods |-> Score(s, periods[k])])
                <= Total([k \in DOMAIN other |-> Score(s, other[k])])
<1> DEFINE D == 1..Len(other)
           f == [k \in D |-> Score(s, other[k])]
           g == [k \in D |-> Score(s, periods[k])]
<1>1. DOMAIN other = D /\ DOMAIN periods = D /\ Len(other) \in Nat
  BY LenProperties DEF Worse
<1>2. \A k \in D : /\ Score(s, other[k]) \in Int /\ Score(s, periods[k]) \in Int
                   /\ Score(s, periods[k]) <= Score(s, other[k])
  BY WorseScoresMore DEF Worse
<1>3. IsFiniteSet(D)
  BY <1>1, FS_Interval
<1> HIDE DEF D
<1>4. f \in [D -> Int] /\ g \in [D -> Int] /\ \A k \in D : g[k] <= f[k]
  BY <1>2
<1> HIDE DEF f, g
<1>5. Total(g) \in Int /\ Total(f) \in Int /\ Total(g) <= Total(f)
  BY <1>3, <1>4, TotalGrows
<1> QED
  BY <1>1, <1>5 DEF f, g

\* The classes of an assessment.
Classes(s, oos, folds) ==
    {ClassifyScore(Score(s, oos[k]), 1) : k \in DOMAIN oos}
        \cup (IF folds = <<>> THEN {}
              ELSE {ClassifyScore(Total([k \in DOMAIN folds |-> Score(s, folds[k])]),
                                  Len(folds))})

\* The highest class of periods that did no better is no lower.
LEMMA WorseClasses ==
    ASSUME NEW s, NEW oos, NEW folds, NEW oos2, NEW folds2,
           Worse(oos2, oos), Worse(folds2, folds), oos # <<>> \/ folds # <<>>
    PROVE  /\ Max(Classes(s, oos, folds)) \in 0..2
           /\ Max(Classes(s, oos2, folds2)) \in 0..2
           /\ Max(Classes(s, oos, folds)) <= Max(Classes(s, oos2, folds2))
<1> DEFINE A == Classes(s, oos, folds)
           B == Classes(s, oos2, folds2)
           D == 1..Len(oos)
           total == Total([k \in DOMAIN folds |-> Score(s, folds[k])])
           total2 == Total([k \in DOMAIN folds2 |-> Score(s, folds2[k])])
           f == [k \in D |-> ClassifyScore(Score(s, oos[k]), 1)]
           g == [k \in D |-> ClassifyScore(Score(s, oos2[k]), 1)]
           c == ClassifyScore(total, Len(folds))
           c2 == ClassifyScore(total2, Len(folds))
<1>1. /\ Len(oos) \in Nat /\ DOMAIN oos = D /\ DOMAIN oos2 = D
      /\ Len(folds) \in Nat /\ Len(folds2) = Len(folds)
      /\ folds = <<>> <=> folds2 = <<>>
      /\ oos # <<>> => D # {}
  <2>1. /\ oos \in Seq(ToSet(oos)) /\ oos2 \in Seq(ToSet(oos2)) /\ Len(oos2) = Len(oos)
        /\ folds \in Seq(ToSet(folds)) /\ folds2 \in Seq(ToSet(folds2))
        /\ Len(folds2) = Len(folds) /\ Len(folds) \in Nat /\ Len(oos) \in Nat
    BY DEF Worse
  <2>2. /\ oos = <<>> <=> Len(oos) = 0
        /\ folds = <<>> <=> Len(folds) = 0
        /\ folds2 = <<>> <=> Len(folds2) = 0
    BY <2>1, EmptySeq
  <2>3. DOMAIN oos = 1..Len(oos) /\ DOMAIN oos2 = 1..Len(oos2)
    BY <2>1, LenProperties
  <2>4. oos # <<>> => D # {}
    <3>1. oos # <<>> => 1 \in 1..Len(oos)
      BY <2>1, <2>2
    <3> QED BY <3>1
  <2>5. DOMAIN oos = D /\ DOMAIN oos2 = D
    BY <2>1, <2>3
  <2>6. folds = <<>> <=> folds2 = <<>>
    BY <2>1, <2>2
  <2> HIDE DEF D
  <2> QED BY <2>1, <2>4, <2>5, <2>6
<1>2. ASSUME NEW k \in D
      PROVE  f[k] \in 0..2 /\ g[k] \in 0..2 /\ f[k] <= g[k]
  <2>1. /\ Score(s, oos[k]) \in Int /\ Score(s, oos2[k]) \in Int
        /\ Score(s, oos[k]) <= Score(s, oos2[k])
    BY <1>1, WorseScoresMore DEF Worse
  <2>2. PICK x \in Int, y \in Int : x = Score(s, oos[k]) /\ y = Score(s, oos2[k]) /\ x <= y
    BY <2>1
  <2>3. /\ ClassifyScore(x, 1) \in 0..2 /\ ClassifyScore(y, 1) \in 0..2
        /\ ClassifyScore(x, 1) <= ClassifyScore(y, 1)
    BY <2>2, ClassGrows
  <2>4. f[k] = ClassifyScore(x, 1) /\ g[k] = ClassifyScore(y, 1)
    BY <2>2
  <2> QED BY ONLY <2>3, <2>4
<1>3. c \in 0..2 /\ c2 \in 0..2 /\ c <= c2
  <2>1. total \in Int /\ total2 \in Int /\ total <= total2
    BY WorseTotal
  <2> HIDE DEF total, total2
  <2> QED BY <1>1, <2>1, ClassGrows
<1>4. /\ A = {f[k] : k \in D} \cup (IF folds = <<>> THEN {} ELSE {c})
      /\ B = {g[k] : k \in D} \cup (IF folds = <<>> THEN {} ELSE {c2})
  <2>1. {ClassifyScore(Score(s, oos[k]), 1) : k \in DOMAIN oos} = {f[k] : k \in D}
    BY <1>1
  <2>2. {ClassifyScore(Score(s, oos2[k]), 1) : k \in DOMAIN oos2} = {g[k] : k \in D}
    BY <1>1
  <2>3. A = {ClassifyScore(Score(s, oos[k]), 1) : k \in DOMAIN oos}
              \cup (IF folds = <<>> THEN {} ELSE {c})
    BY DEF Classes
  <2>4. B = {ClassifyScore(Score(s, oos2[k]), 1) : k \in DOMAIN oos2}
              \cup (IF folds2 = <<>> THEN {} ELSE {ClassifyScore(total2, Len(folds2))})
    BY DEF Classes
  <2> HIDE DEF A, B, f, g, c
  <2> QED BY <1>1, <2>1, <2>2, <2>3, <2>4
<1>5. IsFiniteSet(D)
  BY <1>1, FS_Interval
<1> HIDE DEF A, B, D, f, g, c, c2
<1>6. IsFiniteSet({f[k] : k \in D}) /\ IsFiniteSet({g[k] : k \in D})
  BY <1>5, FiniteImage
<1>7. IsFiniteSet(A) /\ IsFiniteSet(B)
  <2>1. IsFiniteSet({c}) /\ IsFiniteSet({c2})
    BY FS_Singleton
  <2>2. CASE folds = <<>>
    BY <1>4, <1>6, <2>2
  <2>3. CASE folds # <<>>
    <3>1. A = {f[k] : k \in D} \cup {c} /\ B = {g[k] : k \in D} \cup {c2}
      BY <1>4, <2>3
    <3> QED BY <1>6, <2>1, <3>1, FS_Union
  <2> QED BY <2>2, <2>3
<1>8. A \in SUBSET (0..2) /\ B \in SUBSET (0..2) /\ A # {} /\ B # {}
  BY <1>1, <1>2, <1>3, <1>4
<1>9. \A x \in A : \E y \in B : x <= y
  <2>1. ASSUME NEW x \in A
        PROVE  \E y \in B : x <= y
    <3>1. (\E k \in D : x = f[k]) \/ (folds # <<>> /\ x = c)
      BY <1>4
    <3>2. \A k \in D : g[k] \in B
      BY <1>4
    <3>3. folds # <<>> => c2 \in B
      BY <1>4
    <3> QED BY <1>2, <1>3, <3>1, <3>2, <3>3
  <2> QED BY <2>1
<1>10. Max(A) \in A /\ Max(B) \in B /\ \A y \in B : y <= Max(B)
  <2>1. 0..2 \in SUBSET Int
    OBVIOUS
  <2>2. A \in SUBSET Int /\ B \in SUBSET Int
    BY <1>8, <2>1
  <2> QED BY <1>7, <1>8, <2>2, MaxOfSet
<1>11. Max(A) \in 0..2 /\ Max(B) \in 0..2
  BY <1>8, <1>10
<1>12. PICK y \in B : Max(A) <= y
  BY <1>9, <1>10
<1>13. y \in Int /\ y <= Max(B)
  BY <1>8, <1>10
<1> QED
  BY <1>11, <1>12, <1>13 DEF A, B

\* The same positions of two sequences, side by side.
LEMMA SublistsAlike ==
    ASSUME NEW S, NEW s \in Seq(S), NEW t \in Seq(S), Len(t) = Len(s), NEW P
    PROVE  /\ Len(Sublist(t, P)) = Len(Sublist(s, P)) /\ Len(Sublist(s, P)) \in Nat
           /\ \A i \in 1..Len(Sublist(s, P)) : \E n \in P \cap (1..Len(s)) :
                 Sublist(s, P)[i] = s[n] /\ Sublist(t, P)[i] = t[n]
<1> DEFINE Solves(f, r) ==
             f = [n \in 0..Len(r) |->
                    IF n = 0 THEN <<>>
                    ELSE IF n \in P THEN Append(f[n - 1], r[n]) ELSE f[n - 1]]
<1>1. Len(s) \in Nat /\ \A n \in 1..Len(s) : s[n] \in S /\ t[n] \in S
  BY LenProperties, ElementOfSeq
<1>2. PICK f : Solves(f, s) /\ Sublist(s, P) = f[Len(s)]
  BY SublistRecursion
<1>3. PICK g : Solves(g, t) /\ Sublist(t, P) = g[Len(t)]
  BY SublistRecursion
<1>4. f[0] = <<>> /\ g[0] = <<>>
  BY <1>1, <1>2, <1>3
<1>5. \A n \in 1..Len(s) :
         /\ f[n] = IF n \in P THEN Append(f[n - 1], s[n]) ELSE f[n - 1]
         /\ g[n] = IF n \in P THEN Append(g[n - 1], t[n]) ELSE g[n - 1]
  <2>1. \A n \in 1..Len(s) : n \in 0..Len(s) /\ n # 0
    BY <1>1
  <2> QED BY <1>2, <1>3, <2>1
<1> HIDE DEF Solves
<1> DEFINE Alike(m) ==
             /\ f[m] \in Seq(S) /\ g[m] \in Seq(S) /\ Len(g[m]) = Len(f[m])
             /\ \A i \in 1..Len(f[m]) : \E n \in P \cap (1..Len(s)) :
                   f[m][i] = s[n] /\ g[m][i] = t[n]
           T == {m \in Nat : m <= Len(s) => Alike(m)}
<1>6. 0 \in T
  <2>1. <<>> \in Seq(S) /\ Len(<<>>) = 0
    OBVIOUS
  <2>2. Alike(0)
    BY <1>4, <2>1
  <2> QED BY <2>2
<1>7. ASSUME NEW m \in Nat, Alike(m), m + 1 <= Len(s)
      PROVE  Alike(m + 1)
  <2>1. m + 1 \in 1..Len(s) /\ (m + 1) - 1 = m
    BY <1>1, <1>7
  <2>2. CASE m + 1 \in P
    <3>1. f[m + 1] = Append(f[m], s[m + 1]) /\ g[m + 1] = Append(g[m], t[m + 1])
      BY <1>5, <2>1, <2>2
    <3>2. PICK a \in Seq(S), b \in Seq(S) : a = f[m] /\ b = g[m] /\ Len(b) = Len(a)
      BY <1>7
    <3>3. PICK x \in S, y \in S : x = s[m + 1] /\ y = t[m + 1]
      BY <1>1, <2>1
    <3>4. /\ Append(a, x) \in Seq(S) /\ Append(b, y) \in Seq(S)
          /\ Len(Append(a, x)) = Len(a) + 1 /\ Len(Append(b, y)) = Len(b) + 1
          /\ \A i \in 1..Len(a) : Append(a, x)[i] = a[i]
          /\ \A i \in 1..Len(b) : Append(b, y)[i] = b[i]
          /\ Append(a, x)[Len(a) + 1] = x /\ Append(b, y)[Len(b) + 1] = y /\ Len(a) \in Nat
      BY AppendProperties, LenProperties
    <3>5. \A i \in 1..Len(a) + 1 : i \in 1..Len(a) \/ i = Len(a) + 1
      BY <3>4
    <3>6. m + 1 \in P \cap (1..Len(s))
      BY <2>1, <2>2
    <3>7. \A i \in 1..Len(a) : \E n \in P \cap (1..Len(s)) : a[i] = s[n] /\ b[i] = t[n]
      BY <1>7, <3>2
    <3>8. PICK a2, b2 : a2 = Append(a, x) /\ b2 = Append(b, y)
      OBVIOUS
    <3>9. \A i \in 1..Len(a2) : \E n \in P \cap (1..Len(s)) : a2[i] = s[n] /\ b2[i] = t[n]
      <4> SUFFICES ASSUME NEW i \in 1..Len(a2)
                   PROVE  \E n \in P \cap (1..Len(s)) : a2[i] = s[n] /\ b2[i] = t[n]
        OBVIOUS
      <4>1. CASE i \in 1..Len(a)
        <5>1. a2[i] = a[i] /\ b2[i] = b[i]
          BY <3>2, <3>4, <3>8, <4>1
        <5> QED BY <3>7, <4>1, <5>1
      <4>2. CASE i = Len(a) + 1
        <5>1. a2[i] = x /\ b2[i] = y
          BY <3>2, <3>4, <3>8, <4>2
        <5> QED BY <3>3, <3>6, <5>1
      <4>3. i \in 1..Len(a) + 1
        BY <3>4, <3>8
      <4> QED BY <3>5, <4>1, <4>2, <4>3
    <3>10. f[m + 1] = a2 /\ g[m + 1] = b2
      BY <3>1, <3>2, <3>3, <3>8
    <3>11. a2 \in Seq(S) /\ b2 \in Seq(S) /\ Len(b2) = Len(a2)
      BY <3>2, <3>4, <3>8
    <3> QED BY ONLY <3>9, <3>10, <3>11
  <2>3. CASE m + 1 \notin P
    <3>1. f[m + 1] = f[m] /\ g[m + 1] = g[m]
      BY <1>5, <2>1, <2>3
    <3> QED BY <1>7, <3>1
  <2> QED BY <2>2, <2>3
<1>8. Nat \subseteq T
  <2> HIDE DEF Alike
  <2>1. ASSUME NEW m \in Nat, m \in T
        PROVE  m + 1 \in T
    BY <1>1, <1>7, <2>1
  <2> HIDE DEF T
  <2> QED BY <1>6, <2>1, SetInduction
<1>9. Alike(Len(s))
  <2> HIDE DEF Alike
  <2> QED BY <1>1, <1>8
<1> QED
  BY <1>2, <1>3, <1>9, LenProperties

\* The metrics of the periods of a log.
LEMMA MetricsOfLog ==
    ASSUME NEW V, NEW log \in Seq(V), NEW type
    PROVE  /\ PeriodMetrics(log, type) \in Seq(ToSet(PeriodMetrics(log, type)))
           /\ Len(PeriodMetrics(log, type)) = Len(Records(log, type))
           /\ Len(PeriodMetrics(log, type)) \in Nat
           /\ \A i \in 1..Len(Records(log, type)) :
                 PeriodMetrics(log, type)[i] = Records(log, type)[i].metrics
           /\ ToSet(PeriodMetrics(log, type))
                = {log[n].metrics : n \in {k \in DOMAIN log : log[k].event_type = type}}
<1> DEFINE P == {n \in DOMAIN log : log[n].event_type = type}
           r == Records(log, type)
           p == PeriodMetrics(log, type)
<1>1. r = Sublist(log, P)
  BY DEF Records, Those
<1>2. DOMAIN log = 1..Len(log)
  BY LenProperties
<1>3. P \cap (1..Len(log)) = P
  BY <1>2
<1> HIDE DEF P
<1>4. r \in Seq(V) /\ ToSet(r) = {log[n] : n \in P}
  <2>1. Sublist(log, P) \in Seq(V)
    BY SublistPicks
  <2>2. ToSet(Sublist(log, P)) = {log[n] : n \in P}
    BY <1>3, ToSetSublist
  <2> QED BY <1>1, <2>1, <2>2
<1>5. p = [i \in DOMAIN r |-> r[i].metrics]
  BY DEF PeriodMetrics
<1> HIDE DEF r, p
<1>6. DOMAIN r = 1..Len(r) /\ Len(r) \in Nat
  BY <1>4, LenProperties
<1>7. /\ p \in Seq({r[i].metrics : i \in 1..Len(r)}) /\ Len(p) = Len(r)
      /\ \A i \in 1..Len(r) : p[i] = r[i].metrics
  <2>1. p \in [1..Len(r) -> {r[i].metrics : i \in 1..Len(r)}]
    BY <1>5, <1>6
  <2> QED BY <1>5, <1>6, <2>1
<1>8. p \in Seq(ToSet(p)) /\ ToSet(p) = {p[i] : i \in 1..Len(r)}
  <2>1. PICK R : p \in Seq(R)
    BY <1>7
  <2>2. p \in Seq(ToSet(p)) /\ ToSet(p) = {p[i] : i \in 1..Len(p)}
    BY ONLY <2>1, ToSetOfSeq
  <2> QED BY <1>7, <2>2
<1>9. ToSet(p) = {log[n].metrics : n \in P}
  <2>1. ToSet(r) = {r[i] : i \in 1..Len(r)}
    BY <1>4, ToSetOfSeq
  <2>2. {p[i] : i \in 1..Len(r)} = {x.metrics : x \in ToSet(r)}
    <3>1. {p[i] : i \in 1..Len(r)} = {r[i].metrics : i \in 1..Len(r)}
      BY <1>7
    <3>2. {r[i].metrics : i \in 1..Len(r)} = {x.metrics : x \in {r[i] : i \in 1..Len(r)}}
      OBVIOUS
    <3> QED BY <2>1, <3>1, <3>2
  <2>3. {x.metrics : x \in ToSet(r)} = {log[n].metrics : n \in P}
    BY <1>4
  <2> QED BY <1>8, <2>2, <2>3
<1> QED
  BY <1>6, <1>7, <1>8, <1>9 DEF p, r, P

\* A log with a period that did no better than the one in its place.
LEMMA WorsePeriods ==
    ASSUME NEW V, NEW log \in Seq(V), NEW k \in DOMAIN log, NEW r \in V,
           r.event_type = log[k].event_type, NoBetter(r.metrics, log[k].metrics), NEW type
    PROVE  Worse(PeriodMetrics([log EXCEPT ![k] = r], type), PeriodMetrics(log, type))
<1> DEFINE new == [log EXCEPT ![k] = r]
           P == {n \in DOMAIN log : log[n].event_type = type}
           Q == {n \in DOMAIN new : new[n].event_type = type}
           p == PeriodMetrics(log, type)
           q == PeriodMetrics(new, type)
<1>1. /\ new \in Seq(V) /\ Len(new) = Len(log) /\ Len(log) \in Nat
      /\ DOMAIN log = 1..Len(log) /\ DOMAIN new = DOMAIN log
      /\ \A n \in DOMAIN log : new[n] = IF n = k THEN r ELSE log[n]
  <2>1. DOMAIN log = 1..Len(log) /\ Len(log) \in Nat /\ \A n \in 1..Len(log) : log[n] \in V
    BY LenProperties, ElementOfSeq
  <2>2. \A n \in DOMAIN log : new[n] = IF n = k THEN r ELSE log[n]
    OBVIOUS
  <2>3. new \in [1..Len(log) -> V] /\ DOMAIN new = DOMAIN log
    BY <2>1
  <2> HIDE DEF new
  <2> QED BY <2>1, <2>2, <2>3
<1> HIDE DEF new
<1>2. Q = P
  BY <1>1
<1>3. Records(log, type) = Sublist(log, P) /\ Records(new, type) = Sublist(new, P)
  <2>1. Records(new, type) = Sublist(new, Q)
    BY DEF Records, Those
  <2>2. Records(log, type) = Sublist(log, P)
    BY DEF Records, Those
  <2> HIDE DEF P, Q
  <2> QED BY <1>2, <2>1, <2>2
<1>4. /\ p \in Seq(ToSet(p)) /\ Len(p) = Len(Sublist(log, P))
      /\ \A i \in 1..Len(Sublist(log, P)) : p[i] = Sublist(log, P)[i].metrics
  <2> HIDE DEF P
  <2> QED BY <1>3, MetricsOfLog
<1>5. /\ q \in Seq(ToSet(q)) /\ Len(q) = Len(Sublist(new, P))
      /\ \A i \in 1..Len(Sublist(new, P)) : q[i] = Sublist(new, P)[i].metrics
  <2> HIDE DEF P
  <2> QED BY <1>1, <1>3, MetricsOfLog
<1> HIDE DEF P, Q, p, q
<1>6. /\ Len(Sublist(new, P)) = Len(Sublist(log, P)) /\ Len(Sublist(log, P)) \in Nat
      /\ \A i \in 1..Len(Sublist(log, P)) : \E n \in P \cap (1..Len(log)) :
            Sublist(log, P)[i] = log[n] /\ Sublist(new, P)[i] = new[n]
  <2>1. log \in Seq(V) /\ new \in Seq(V) /\ Len(new) = Len(log)
    BY <1>1
  <2> QED BY ONLY <2>1, SublistsAlike
<1>7. ASSUME NEW i \in 1..Len(q)
      PROVE  NoBetter(q[i], p[i])
  <2>1. PICK n \in 1..Len(log) : p[i] = log[n].metrics /\ q[i] = new[n].metrics
    BY <1>4, <1>5, <1>6
  <2>2. CASE n = k
    BY <1>1, <2>1, <2>2
  <2>3. CASE n # k
    <3>1. q[i] = p[i]
      BY <1>1, <2>1, <2>3
    <3> QED BY <3>1 DEF NoBetter
  <2> QED BY <2>2, <2>3
<1> QED
  BY <1>4, <1>5, <1>6, <1>7 DEF Worse, p, q, new

\* Every period has enough trades.
AllEnough(s, periods) == \A i \in 1..Len(periods) : TradeCountSufficient(s, periods[i])

\* The assessment by its parts.
LEMMA AssessmentOf ==
    ASSUME NEW s, NEW S, NEW oos \in Seq(S), NEW folds \in Seq(S)
    PROVE  AssessOverfitting(s, oos, folds)
             = IF AllEnough(s, oos) /\ AllEnough(s, folds) THEN Max(Classes(s, oos, folds)) ELSE -1
<1> DEFINE periods == oos \o folds
           enough == \A k \in DOMAIN periods : TradeCountSufficient(s, periods[k])
<1>1. /\ periods \in Seq(S)
      /\ \A i \in 1..Len(oos) : i \in 1..Len(periods) /\ periods[i] = oos[i]
      /\ \A i \in 1..Len(folds) : Len(oos) + i \in 1..Len(periods)
                                  /\ periods[Len(oos) + i] = folds[i]
      /\ \A i \in 1..Len(periods) :
            i \in 1..Len(oos) \/ (i - Len(oos) \in 1..Len(folds) /\ i = Len(oos) + (i - Len(oos)))
  BY ConcatElements
<1>2. AssessOverfitting(s, oos, folds) = IF enough THEN Max(Classes(s, oos, folds)) ELSE -1
  BY DEF AssessOverfitting, Classes
<1> HIDE DEF periods
<1>3. DOMAIN periods = 1..Len(periods)
  BY <1>1, LenProperties
<1>4. enough <=> AllEnough(s, oos) /\ AllEnough(s, folds)
  <2>1. ASSUME enough
        PROVE  AllEnough(s, oos) /\ AllEnough(s, folds)
    BY <1>1, <1>3, <2>1 DEF AllEnough
  <2>2. ASSUME AllEnough(s, oos), AllEnough(s, folds), NEW k \in 1..Len(periods)
        PROVE  TradeCountSufficient(s, periods[k])
    <3>1. CASE k \in 1..Len(oos)
      BY <1>1, <2>2, <3>1 DEF AllEnough
    <3>2. CASE k - Len(oos) \in 1..Len(folds) /\ k = Len(oos) + (k - Len(oos))
      <4>1. periods[k] = folds[k - Len(oos)]
        BY <1>1, <3>2
      <4> QED BY <2>2, <3>2, <4>1 DEF AllEnough
    <3> QED BY <1>1, <3>1, <3>2
  <2> QED BY <1>3, <2>1, <2>2
<1> QED
  BY <1>2, <1>4

\* Periods that did no better have as many trades.
LEMMA WorseEnough ==
    ASSUME NEW s, NEW other, NEW periods, Worse(other, periods)
    PROVE  AllEnough(s, other) <=> AllEnough(s, periods)
<1>1. Len(periods) = Len(other)
      /\ \A i \in 1..Len(other) : other[i].number_of_trades = periods[i].number_of_trades
  BY DEF Worse, NoBetter
<1>2. \A i \in 1..Len(other) :
         TradeCountSufficient(s, other[i]) <=> TradeCountSufficient(s, periods[i])
  BY <1>1 DEF TradeCountSufficient, EnoughTrades
<1> QED
  BY <1>1, <1>2 DEF AllEnough

\* The assessment of a log and of one with a period that did no better.
LEMMA WorseAssessment ==
    ASSUME NEW V, NEW log \in Seq(V), NEW k \in DOMAIN log, NEW r \in V,
           r.event_type = log[k].event_type, NoBetter(r.metrics, log[k].metrics),
           PeriodMetrics(log, "OOS") # <<>> \/ PeriodMetrics(log, "FOLD") # <<>>
    PROVE  Assess([log EXCEPT ![k] = r]) >= Assess(log)
<1> DEFINE new == [log EXCEPT ![k] = r]
           oos == PeriodMetrics(log, "OOS")
           folds == PeriodMetrics(log, "FOLD")
           oos2 == PeriodMetrics(new, "OOS")
           folds2 == PeriodMetrics(new, "FOLD")
<1>1. Worse(oos2, oos) /\ Worse(folds2, folds)
  BY WorsePeriods
<1>2. Assess(log) = AssessOverfitting(InSample, oos, folds)
      /\ Assess(new) = AssessOverfitting(InSample, oos2, folds2)
  BY DEF Assess
<1> HIDE DEF new, oos, folds, oos2, folds2
<1>3. ASSUME NEW p, NEW q, p \in Seq(ToSet(p)), q \in Seq(ToSet(q))
      PROVE  AssessOverfitting(InSample, p, q)
               = IF AllEnough(InSample, p) /\ AllEnough(InSample, q)
                 THEN Max(Classes(InSample, p, q)) ELSE -1
  <2> DEFINE S == ToSet(p) \cup ToSet(q)
  <2>1. ToSet(p) \subseteq S /\ ToSet(q) \subseteq S
    OBVIOUS
  <2> HIDE DEF S
  <2>2. p \in Seq(S) /\ q \in Seq(S)
    BY <1>3, <2>1
  <2> QED BY <2>2, AssessmentOf
<1>4. /\ oos \in Seq(ToSet(oos)) /\ folds \in Seq(ToSet(folds))
      /\ oos2 \in Seq(ToSet(oos2)) /\ folds2 \in Seq(ToSet(folds2))
  BY <1>1 DEF Worse
<1> DEFINE A == Max(Classes(InSample, oos, folds))
           B == Max(Classes(InSample, oos2, folds2))
<1>5. /\ Assess(log) = IF AllEnough(InSample, oos) /\ AllEnough(InSample, folds) THEN A ELSE -1
      /\ Assess(new) = IF AllEnough(InSample, oos2) /\ AllEnough(InSample, folds2) THEN B ELSE -1
  BY <1>2, <1>3, <1>4
<1>6. /\ AllEnough(InSample, oos2) <=> AllEnough(InSample, oos)
      /\ AllEnough(InSample, folds2) <=> AllEnough(InSample, folds)
  BY <1>1, WorseEnough
<1>7. A \in 0..2 /\ B \in 0..2 /\ A <= B
  BY <1>1, WorseClasses DEF oos, folds
<1> HIDE DEF A, B
<1>8. Assess(new) >= Assess(log)
  BY <1>5, <1>6, <1>7
<1> QED
  BY <1>8 DEF new

\* When there is not enough data.
LEMMA EnoughData ==
    ASSUME NEW V, NEW log \in Seq(V),
           PeriodMetrics(log, "OOS") # <<>> \/ PeriodMetrics(log, "FOLD") # <<>>
    PROVE  Assess(log) = -1 <=>
              \/ ~ EnoughTrades(InSample)
              \/ \E k \in DOMAIN log : /\ log[k].event_type \in {"OOS", "FOLD"}
                                      /\ ~ EnoughTrades(log[k].metrics)
<1> DEFINE oos == PeriodMetrics(log, "OOS")
           folds == PeriodMetrics(log, "FOLD")
           A == Max(Classes(InSample, oos, folds))
           Of(type) == {n \in DOMAIN log : log[n].event_type = type}
<1>1. /\ oos \in Seq(ToSet(oos)) /\ folds \in Seq(ToSet(folds))
      /\ Len(oos) \in Nat /\ Len(folds) \in Nat
      /\ ToSet(oos) = {log[n].metrics : n \in Of("OOS")}
      /\ ToSet(folds) = {log[n].metrics : n \in Of("FOLD")}
  BY MetricsOfLog
<1>2. Assess(log) = AssessOverfitting(InSample, oos, folds)
  BY DEF Assess
<1>a. oos # <<>> \/ folds # <<>>
  OBVIOUS
<1> HIDE DEF oos, folds
<1>3. Assess(log) = IF AllEnough(InSample, oos) /\ AllEnough(InSample, folds) THEN A ELSE -1
  <2> DEFINE S == ToSet(oos) \cup ToSet(folds)
  <2>1. ToSet(oos) \subseteq S /\ ToSet(folds) \subseteq S
    OBVIOUS
  <2> HIDE DEF S
  <2>2. oos \in Seq(S) /\ folds \in Seq(S)
    BY <1>1, <2>1
  <2> QED BY <1>2, <2>2, AssessmentOf
<1>4. A \in 0..2
  <2>1. ASSUME NEW p, p \in Seq(ToSet(p)), Len(p) \in Nat
        PROVE  Worse(p, p)
    BY <2>1 DEF Worse, NoBetter
  <2>2. Worse(oos, oos) /\ Worse(folds, folds)
    BY <1>1, <2>1
  <2> QED BY <1>a, <2>2, WorseClasses
<1> HIDE DEF A, Of
<1>5. Assess(log) = -1 <=> ~ (AllEnough(InSample, oos) /\ AllEnough(InSample, folds))
  BY <1>3, <1>4
<1>6. ASSUME NEW p, p \in Seq(ToSet(p))
      PROVE  AllEnough(InSample, p) <=>
                \A x \in ToSet(p) : EnoughTrades(InSample) /\ EnoughTrades(x)
  <2>1. ToSet(p) = {p[i] : i \in 1..Len(p)}
    BY <1>6, ToSetOfSeq
  <2> QED BY <2>1 DEF AllEnough, TradeCountSufficient
<1>7. ToSet(oos) # {} \/ ToSet(folds) # {}
  <2>1. ASSUME NEW p, p \in Seq(ToSet(p)), p # <<>>
        PROVE  ToSet(p) # {}
    <3>1. Len(p) # 0 /\ Len(p) \in Nat
      BY <2>1, EmptySeq, LenProperties
    <3>2. 1 \in 1..Len(p)
      BY <3>1
    <3> QED BY <2>1, <3>2, ElementOfSeq
  <2> QED BY <1>1, <1>a, <2>1
<1>8. (AllEnough(InSample, oos) /\ AllEnough(InSample, folds)) <=>
         /\ EnoughTrades(InSample)
         /\ \A n \in Of("OOS") : EnoughTrades(log[n].metrics)
         /\ \A n \in Of("FOLD") : EnoughTrades(log[n].metrics)
  <2>1. /\ AllEnough(InSample, oos) <=>
              \A x \in ToSet(oos) : EnoughTrades(InSample) /\ EnoughTrades(x)
        /\ AllEnough(InSample, folds) <=>
              \A x \in ToSet(folds) : EnoughTrades(InSample) /\ EnoughTrades(x)
    BY <1>1, <1>6
  <2>2. /\ (\A x \in ToSet(oos) : EnoughTrades(x)) <=>
              \A n \in Of("OOS") : EnoughTrades(log[n].metrics)
        /\ (\A x \in ToSet(folds) : EnoughTrades(x)) <=>
              \A n \in Of("FOLD") : EnoughTrades(log[n].metrics)
    BY <1>1
  <2> QED BY <1>7, <2>1, <2>2
<1> QED
  BY <1>5, <1>8 DEF Of

\* The assessment with one period exchanged for a worse one.
LEMMA WorseNeverHelps ==
    ASSUME LogInv
    PROVE  WorsePeriodNeverHelps
<1> SUFFICES ASSUME Assessed
             PROVE  WorsePeriodNeverHelps
  BY DEF WorsePeriodNeverHelps
<1>1. /\ output.classification = Assess(input)
      /\ PeriodMetrics(input, "OOS") # <<>> \/ PeriodMetrics(input, "FOLD") # <<>>
  <2>1. output = IF PeriodMetrics(input, "OOS") = <<>> /\ PeriodMetrics(input, "FOLD") = <<>>
                 THEN Refused ELSE [refused |-> FALSE, classification |-> Assess(input)]
    BY DEF LogInv, Assessed, ReportOn
  <2>2. ~ output.refused
    BY DEF Assessed
  <2> QED BY <2>1, <2>2 DEF Refused
<1>2. ASSUME NEW k \in DOMAIN input, NEW r \in Written(report, <<>>),
             r.event_type = input[k].event_type, NoBetter(r.metrics, input[k].metrics)
      PROVE  Assess([input EXCEPT ![k] = r]) >= output.classification
  <2> DEFINE V == ToSet(input) \cup {r}
  <2>1. input \in Seq(V) /\ r \in V
    <3>1. ToSet(input) \subseteq V /\ input \in Seq(ToSet(input)) /\ r \in V
      BY DEF LogInv
    <3> HIDE DEF V
    <3> QED BY <3>1
  <2> HIDE DEF V
  <2> QED BY <1>1, <1>2, <2>1, WorseAssessment
<1>3. input \in Seq(ToSet(input))
  BY DEF LogInv
<1>4. Assess(input) = -1 <=>
         \/ ~ EnoughTrades(InSample)
         \/ \E k \in DOMAIN input : /\ input[k].event_type \in {"OOS", "FOLD"}
                                   /\ ~ EnoughTrades(input[k].metrics)
  BY <1>1, <1>3, EnoughData
<1> QED
  BY <1>1, <1>2, <1>4, Zenon DEF WorsePeriodNeverHelps

\* A period that did worse never makes the assessment better, and one without
\* enough trades makes it INSUFFICIENT_DATA, for any log (overfitting.py).
THEOREM WorsePeriodCannotHelp == Spec => []WorsePeriodNeverHelps
BY ReportsAreOfTheLog, WorseNeverHelps, PTL

-----------------------------------------------------------------------------
(* The joins.                                                              *)

\* A sublist by its positions, in their order.
InOrder(b, r, s, K) ==
    /\ Len(r) \in Nat
    /\ b \in [1..Len(r) -> K]
    /\ \A i, j \in 1..Len(r) : i < j => b[i] < b[j]
    /\ \A k \in K : \E i \in 1..Len(r) : b[i] = k
    /\ \A i \in 1..Len(r) : r[i] = s[b[i]]

\* The positions of a sublist increase.
LEMMA PositionsIncrease ==
    ASSUME NEW l \in Nat, NEW P
    PROVE  LET q == Sublist([n \in 1..l |-> n], P)
           IN  /\ Len(q) \in Nat
               /\ \A i \in 1..Len(q) : q[i] \in P \cap (1..l)
               /\ \A i, j \in 1..Len(q) : i < j => q[i] < q[j]
<1> DEFINE z == [n \in 1..l |-> n]
<1>1. z \in Seq(Nat) /\ Len(z) = l /\ \A n \in 1..l : z[n] = n
  OBVIOUS
<1> HIDE DEF z
<1>2. PICK f : /\ f = [n \in 0..Len(z) |->
                         IF n = 0 THEN <<>>
                         ELSE IF n \in P THEN Append(f[n - 1], z[n]) ELSE f[n - 1]]
               /\ Sublist(z, P) = f[Len(z)]
  BY <1>1, SublistRecursion
<1>3. /\ f[0] = <<>>
      /\ \A n \in 1..l : f[n] = IF n \in P THEN Append(f[n - 1], n) ELSE f[n - 1]
  <2>1. \A n \in 1..l : n \in 0..Len(z) /\ n # 0
    BY <1>1
  <2>2. 0 \in 0..Len(z)
    BY <1>1
  <2> QED BY <1>1, <1>2, <2>1, <2>2
<1> DEFINE Grows(m) ==
             /\ f[m] \in Seq(Nat)
             /\ \A i \in 1..Len(f[m]) : f[m][i] \in P \cap (1..m)
             /\ \A i, j \in 1..Len(f[m]) : i < j => f[m][i] < f[m][j]
           T == {m \in Nat : m <= l => Grows(m)}
<1>4. 0 \in T
  <2>1. <<>> \in Seq(Nat) /\ Len(<<>>) = 0
    OBVIOUS
  <2>2. Grows(0)
    BY <1>3, <2>1
  <2> QED BY <2>2
<1>5. ASSUME NEW m \in Nat, Grows(m), m + 1 <= l
      PROVE  Grows(m + 1)
  <2>1. m + 1 \in 1..l /\ (m + 1) - 1 = m
    BY <1>5
  <2>2. PICK a \in Seq(Nat) : /\ a = f[m] /\ Len(a) \in Nat
                              /\ \A i \in 1..Len(a) : a[i] \in P /\ a[i] \in 1..m
                              /\ \A i, j \in 1..Len(a) : i < j => a[i] < a[j]
    BY <1>5, LenProperties
  <2>3. CASE m + 1 \in P
    <3>1. PICK c : c = Append(a, m + 1)
      OBVIOUS
    <3>2. f[m + 1] = c
      BY <1>3, <2>1, <2>2, <2>3, <3>1
    <3>3. /\ c \in Seq(Nat) /\ Len(c) = Len(a) + 1 /\ c[Len(a) + 1] = m + 1
          /\ \A i \in 1..Len(a) : c[i] = a[i]
      BY <2>2, <3>1, AppendProperties
    <3>4. \A i \in 1..Len(c) : i \in 1..Len(a) \/ i = Len(a) + 1
      BY <2>2, <3>3
    <3>5. \A i \in 1..Len(c) : c[i] \in P \cap (1..m + 1)
      <4>1. 1..m \subseteq 1..m + 1 /\ m + 1 \in 1..m + 1
        OBVIOUS
      <4> QED BY <2>2, <2>3, <3>3, <3>4, <4>1
    <3>6. \A i, j \in 1..Len(c) : i < j => c[i] < c[j]
      <4> SUFFICES ASSUME NEW i \in 1..Len(c), NEW j \in 1..Len(c), i < j
                   PROVE  c[i] < c[j]
        OBVIOUS
      <4>1. i \in 1..Len(a)
        BY <2>2, <3>3
      <4>2. CASE j \in 1..Len(a)
        BY <2>2, <3>3, <4>1, <4>2
      <4>3. CASE j = Len(a) + 1
        <5>1. c[i] = a[i] /\ a[i] \in 1..m /\ c[j] = m + 1
          BY <2>2, <3>3, <4>1, <4>3
        <5> QED BY <5>1
      <4> QED BY <3>4, <4>2, <4>3
    <3> QED BY <3>2, <3>3, <3>5, <3>6
  <2>4. CASE m + 1 \notin P
    <3>1. f[m + 1] = a
      BY <1>3, <2>1, <2>2, <2>4
    <3>2. 1..m \subseteq 1..m + 1
      OBVIOUS
    <3> QED BY <2>2, <3>1, <3>2
  <2> QED BY <2>3, <2>4
<1>6. Nat \subseteq T
  <2> HIDE DEF Grows
  <2>1. ASSUME NEW m \in Nat, m \in T
        PROVE  m + 1 \in T
    BY <1>5, <2>1
  <2> HIDE DEF T
  <2> QED BY <1>4, <2>1, SetInduction
<1>7. Grows(l)
  <2> HIDE DEF Grows
  <2> QED BY <1>6
<1>8. Sublist(z, P) = f[l] /\ Len(f[l]) \in Nat
  BY <1>1, <1>2, <1>7, LenProperties
<1> QED
  BY <1>7, <1>8 DEF z

\* A sublist keeps the order.
LEMMA SublistInOrder ==
    ASSUME NEW S, NEW s \in Seq(S), NEW P
    PROVE  \E b : InOrder(b, Sublist(s, P), s, P \cap (1..Len(s)))
<1> DEFINE l == Len(s)
           z == [n \in 1..l |-> n]
           b == Sublist(z, P)
           r == Sublist(s, P)
           K == P \cap (1..l)
           U == S \cup Nat
<1>1. l \in Nat
  BY LenProperties
<1>2. z \in Seq(Nat) /\ Len(z) = l /\ \A n \in 1..l : z[n] = n
  BY <1>1
<1>3. z \in Seq(U) /\ s \in Seq(U)
  <2>1. Nat \subseteq U /\ S \subseteq U
    OBVIOUS
  <2> HIDE DEF z, U
  <2> QED BY <1>2, <2>1
<1>4. /\ Len(b) \in Nat
      /\ \A i \in 1..Len(b) : b[i] \in K
      /\ \A i, j \in 1..Len(b) : i < j => b[i] < b[j]
  <2> HIDE DEF l
  <2> QED BY <1>1, PositionsIncrease
<1> HIDE DEF z, b, r, K, U, l
<1>5. /\ Len(b) = Len(r) /\ Len(r) \in Nat
      /\ \A i \in 1..Len(r) : \E n \in K : r[i] = s[n] /\ b[i] = z[n]
  BY <1>2, <1>3, SublistsAlike DEF b, r, K, l
<1>6. \A i \in 1..Len(r) : r[i] = s[b[i]]
  <2>1. \A n \in K : z[n] = n
    BY <1>2 DEF K
  <2> QED BY <1>5, <2>1
<1>7. \A k \in K : \E i \in 1..Len(r) : b[i] = k
  <2>1. PICK p : Picks(p, b, z, K)
    BY <1>2, SublistPicks DEF b, K
  <2>2. \A k \in K : z[k] = k
    BY <1>2 DEF K
  <2> QED BY <1>5, <2>1, <2>2 DEF Picks
<1>8. b \in [1..Len(r) -> K]
  <2>1. b \in Seq(Nat)
    BY <1>2, SublistPicks DEF b
  <2>2. DOMAIN b = 1..Len(r) /\ b = [i \in DOMAIN b |-> b[i]]
    BY <1>5, <2>1, LenProperties
  <2> QED BY <1>4, <1>5, <2>2
<1>9. InOrder(b, r, s, K)
  BY <1>4, <1>5, <1>6, <1>7, <1>8 DEF InOrder
<1> QED
  BY <1>9 DEF r, K, l

\* A sublist of a sublist.
Within(b, c, q, r, s, K, L, M) ==
    /\ K \in SUBSET Nat /\ L \in SUBSET Nat /\ L \subseteq 1..Len(r)
    /\ InOrder(b, r, s, K) /\ InOrder(c, q, r, L)
    /\ \A l \in L : b[l] \in M
    /\ \A m \in M : \E l \in L : b[l] = m

\* Its elements are of the sequence, in the order of the sequence.
LEMMA InOrderWithin ==
    ASSUME NEW b, NEW c, NEW q, NEW r, NEW s, NEW K, NEW L, NEW M, Within(b, c, q, r, s, K, L, M)
    PROVE  \E d : InOrder(d, q, s, M)
<1> DEFINE d == [i \in 1..Len(q) |-> b[c[i]]]
<1>1. /\ Len(q) \in Nat /\ Len(r) \in Nat
      /\ \A i \in 1..Len(q) : c[i] \in L /\ c[i] \in 1..Len(r) /\ q[i] = r[c[i]]
      /\ \A l \in L : b[l] \in K /\ r[l] = s[b[l]]
  BY DEF InOrder, Within
<1>2. d \in [1..Len(q) -> M]
  BY <1>1 DEF Within
<1>3. \A i, j \in 1..Len(q) : i < j => d[i] < d[j]
  BY <1>1 DEF InOrder, Within
<1>4. \A k \in M : \E i \in 1..Len(q) : d[i] = k
  BY DEF InOrder, Within
<1>5. \A i \in 1..Len(q) : q[i] = s[d[i]]
  BY <1>1
<1> HIDE DEF d
<1> QED
  BY <1>1, <1>2, <1>3, <1>4, <1>5 DEF InOrder

\* Of the records at Q, the first of each candidate.
Firsts(c, log, Q) ==
    /\ Len(c) \in Nat /\ DOMAIN c = 1..Len(c)
    /\ \A j, k \in 1..Len(c) : c[j].trade_candidate_id = c[k].trade_candidate_id => j = k
    /\ \A j \in 1..Len(c) : \E m \in Q :
          /\ c[j] = log[m]
          /\ \A n \in Q : log[n].trade_candidate_id = log[m].trade_candidate_id => m <= n
    /\ \A n \in Q : \E j \in 1..Len(c) : c[j].trade_candidate_id = log[n].trade_candidate_id

\* The first per candidate is the first in the log (seen, trade_breakdown.py).
LEMMA FirstsOfLog ==
    ASSUME NEW R, NEW records \in Seq(R), NEW log, NEW Q \in SUBSET Nat,
           NEW b, InOrder(b, records, log, Q)
    PROVE  Firsts(FirstPerCandidate(records), log, Q)
<1> DEFINE c == FirstPerCandidate(records)
           P == {k \in DOMAIN records : \A j \in 1..k - 1 :
                    records[j].trade_candidate_id # records[k].trade_candidate_id}
           Id(k) == records[k].trade_candidate_id
<1>1. DOMAIN records = 1..Len(records) /\ Len(records) \in Nat
  BY LenProperties
<1>2. c = Sublist(records, P) /\ P \cap (1..Len(records)) = P
  BY <1>1 DEF FirstPerCandidate
<1>3. \A k : k \in P <=> k \in 1..Len(records) /\ \A j \in 1..k - 1 : Id(j) # Id(k)
  BY <1>1
<1> HIDE DEF c, P
<1>4. c \in Seq(R) /\ DOMAIN c = 1..Len(c) /\ Len(c) \in Nat
  <2>1. c \in Seq(R)
    BY <1>2, SublistPicks
  <2> QED BY <2>1, LenProperties
<1>5. PICK d : InOrder(d, c, records, P)
  <2>1. \E d : InOrder(d, Sublist(records, P), records, P \cap (1..Len(records)))
    BY SublistInOrder
  <2> QED BY <1>2, <2>1
<1>6. /\ \A i \in 1..Len(c) : d[i] \in P /\ d[i] \in 1..Len(records) /\ c[i] = records[d[i]]
      /\ \A i, j \in 1..Len(c) : i < j => d[i] < d[j]
      /\ \A k \in P : \E i \in 1..Len(c) : d[i] = k
  BY <1>3, <1>5 DEF InOrder
<1>7. /\ \A i \in 1..Len(records) : b[i] \in Q /\ b[i] \in Nat /\ records[i] = log[b[i]]
      /\ \A i, j \in 1..Len(records) : i < j => b[i] < b[j]
      /\ \A n \in Q : \E i \in 1..Len(records) : b[i] = n
  BY DEF InOrder
<1>8. ASSUME NEW i \in P, NEW k \in 1..Len(records), Id(i) = Id(k)
      PROVE  i <= k
  <2>1. i \in 1..Len(records) /\ ~ (k \in 1..i - 1)
    BY <1>3, <1>8
  <2> QED BY <1>1, <2>1
<1>9. ASSUME NEW j \in 1..Len(c), NEW k \in 1..Len(c),
             c[j].trade_candidate_id = c[k].trade_candidate_id
      PROVE  j = k
  <2>1. Id(d[j]) = Id(d[k])
    BY <1>6, <1>9
  <2>2. d[j] <= d[k] /\ d[k] <= d[j] /\ d[j] \in Int /\ d[k] \in Int
    BY <1>6, <1>8, <2>1, SMTT(30)
  <2>3. ~ (j < k) /\ ~ (k < j)
    BY <1>6, <2>2
  <2> QED BY <1>4, <2>3
<1>10. ASSUME NEW j \in 1..Len(c)
       PROVE  \E m \in Q :
                /\ c[j] = log[m]
                /\ \A n \in Q : log[n].trade_candidate_id = log[m].trade_candidate_id => m <= n
  <2>1. c[j] = log[b[d[j]]] /\ b[d[j]] \in Q /\ b[d[j]] \in Nat
    BY <1>6, <1>7
  <2>2. ASSUME NEW n \in Q, log[n].trade_candidate_id = log[b[d[j]]].trade_candidate_id
        PROVE  b[d[j]] <= n
    <3>1. PICK k \in 1..Len(records) : b[k] = n
      BY <1>7
    <3>2. Id(k) = Id(d[j])
      BY <1>6, <1>7, <2>2, <3>1
    <3>3. d[j] <= k /\ d[j] \in 1..Len(records)
      BY <1>6, <1>8, <3>2
    <3>4. d[j] = k \/ d[j] < k
      BY <3>3
    <3>5. b[d[j]] = b[k] \/ b[d[j]] < b[k]
      BY <1>7, <3>3, <3>4
    <3>6. b[k] \in Int /\ b[d[j]] \in Int
      BY <1>7, <3>3
    <3> QED BY <3>1, <3>5, <3>6
  <2> QED BY <2>1, <2>2
<1>11. ASSUME NEW n \in Q
       PROVE  \E j \in 1..Len(c) : c[j].trade_candidate_id = log[n].trade_candidate_id
  <2>1. PICK k \in 1..Len(records) : b[k] = n /\ records[k] = log[n]
    BY <1>7
  <2> DEFINE T == {i \in 1..Len(records) : Id(i) = Id(k)}
  <2>2. T \in SUBSET Nat /\ k \in T
    BY <1>1
  <2>3. PICK i \in T : \A l \in T : i <= l
    <3> HIDE DEF T
    <3> QED BY <2>2, LeastNatural
  <2>4. i \in P
    <3>1. ASSUME NEW l \in 1..i - 1
          PROVE  Id(l) # Id(i)
      <4>1. l \in 1..Len(records) /\ ~ (i <= l)
        BY <1>1, <3>1
      <4> QED BY <2>3, <4>1
    <3> QED BY <1>3, <3>1
  <2>5. PICK j \in 1..Len(c) : d[j] = i
    BY <1>6, <2>4
  <2> QED BY <1>6, <2>1, <2>5
<1> QED
  BY <1>4, <1>9, <1>10, <1>11 DEF Firsts, c

\* The records of a type, and those with a status.
OfType(log, type) == {n \in DOMAIN log : log[n].event_type = type}

OfStatus(log, type, status) ==
    {n \in DOMAIN log : log[n].event_type = type /\ log[n].status = status}

\* The records of a type, and those of them with a status, in the order of the log.
LEMMA RecordsInOrder ==
    ASSUME NEW V, NEW log \in Seq(V), NEW type
    PROVE  /\ Records(log, type) \in Seq(V)
           /\ \E b : InOrder(b, Records(log, type), log,
                             OfType(log, type))
<1> DEFINE P == {n \in DOMAIN log : log[n].event_type = type}
<1>1. DOMAIN log = 1..Len(log)
  BY LenProperties
<1>2. Records(log, type) = Sublist(log, P) /\ P \cap (1..Len(log)) = P
  BY <1>1 DEF Records, Those
<1> HIDE DEF P
<1>3. Sublist(log, P) \in Seq(V) /\ \E b : InOrder(b, Sublist(log, P), log, P \cap (1..Len(log)))
  BY SublistPicks, SublistInOrder
<1> QED
  BY <1>2, <1>3 DEF P, OfType

\* Those of a type that end in a status.
LEMMA StatusInOrder ==
    ASSUME NEW V, NEW log \in Seq(V), NEW type, NEW status
    PROVE  LET q == Concluded(log, type, status)
           IN  /\ q \in Seq(V)
               /\ \E b : InOrder(b, q, log, OfStatus(log, type, status))
<1> DEFINE r == Records(log, type)
           q == Concluded(log, type, status)
           K == OfType(log, type)
           L == {i \in DOMAIN r : r[i].status = status}
<1>1. r \in Seq(V)
  BY RecordsInOrder
<1>2. PICK b : InOrder(b, r, log, K)
  BY RecordsInOrder
<1>3. q = Sublist(r, L)
  BY DEF Concluded, Those
<1>4. L \subseteq DOMAIN r /\ \A i : i \in L <=> i \in DOMAIN r /\ r[i].status = status
  OBVIOUS
<1>5. K \subseteq DOMAIN log /\ \A n : n \in K <=> n \in DOMAIN log /\ log[n].event_type = type
  BY DEF OfType
<1> HIDE DEF r, q, K, L
<1>6. DOMAIN r = 1..Len(r) /\ Len(r) \in Nat /\ L \cap (1..Len(r)) = L
      /\ L \in SUBSET Nat
  <2>1. DOMAIN r = 1..Len(r) /\ Len(r) \in Nat
    BY <1>1, LenProperties
  <2> QED BY <1>4, <2>1
<1>7. q \in Seq(V) /\ \E c : InOrder(c, q, r, L)
  <2>1. Sublist(r, L) \in Seq(V) /\ \E c : InOrder(c, Sublist(r, L), r, L \cap (1..Len(r)))
    BY <1>1, SublistPicks, SublistInOrder
  <2> QED BY <1>3, <1>6, <2>1
<1>8. K \in SUBSET Nat
  <2>1. DOMAIN log = 1..Len(log)
    BY LenProperties
  <2> QED BY <1>5, <2>1
<1> DEFINE M == {n \in K : log[n].status = status}
<1>9. M = OfStatus(log, type, status)
  BY <1>5 DEF OfStatus
<1>10. (\A l \in L : b[l] \in M) /\ (\A m \in M : \E l \in L : b[l] = m)
  <2>1. /\ \A l \in 1..Len(r) : b[l] \in K /\ r[l] = log[b[l]]
        /\ \A n \in K : \E l \in 1..Len(r) : b[l] = n
    BY <1>2 DEF InOrder
  <2>2. \A l : l \in L <=> l \in 1..Len(r) /\ r[l].status = status
    BY <1>4, <1>6
  <2> QED BY <2>1, <2>2
<1> HIDE DEF M
<1>11. \E d : InOrder(d, q, log, M)
  <2>1. PICK c : InOrder(c, q, r, L)
    BY <1>7
  <2>2. L \subseteq 1..Len(r) /\ L \in SUBSET Nat
    BY <1>6
  <2>3. Within(b, c, q, r, log, K, L, M)
    BY <1>2, <1>8, <1>10, <2>1, <2>2 DEF Within
  <2> QED BY ONLY <2>3, InOrderWithin
<1> QED
  BY <1>7, <1>9, <1>11 DEF q, r

\* The columns that one candidate's record adds: a candidate has one at most.
Context(c, cols) ==
    /\ c \in Seq(ToSet(c))
    /\ \A j, k \in 1..Len(c) : c[j].trade_candidate_id = c[k].trade_candidate_id => j = k
    /\ \A j \in 1..Len(c) : DOMAIN c[j] = cols \cup {"trade_candidate_id"}

\* A candidate has one record in a context, or none.
LEMMA OneOfCandidate ==
    ASSUME NEW c, NEW cols, Context(c, cols), NEW id
    PROVE  \/ /\ OfCandidate(c, id) = <<>>
              /\ \A j \in 1..Len(c) : c[j].trade_candidate_id # id
           \/ \E j \in 1..Len(c) : /\ c[j].trade_candidate_id = id
                                  /\ OfCandidate(c, id) = <<c[j]>>
<1> DEFINE P == {n \in DOMAIN c : c[n].trade_candidate_id = id}
           r == OfCandidate(c, id)
<1>1. c \in Seq(ToSet(c)) /\ DOMAIN c = 1..Len(c) /\ Len(c) \in Nat
  BY LenProperties DEF Context
<1>2. r = Sublist(c, P) /\ P \cap (1..Len(c)) = P
  BY <1>1 DEF OfCandidate, Those
<1>3. \A n : n \in P <=> n \in 1..Len(c) /\ c[n].trade_candidate_id = id
  BY <1>1
<1> HIDE DEF P, r
<1>4. PICK b : InOrder(b, r, c, P)
  <2>1. \E b : InOrder(b, Sublist(c, P), c, P \cap (1..Len(c)))
    BY <1>1, SublistInOrder
  <2> QED BY <1>2, <2>1
<1>5. /\ Len(r) \in Nat
      /\ \A i \in 1..Len(r) : b[i] \in P /\ b[i] \in Nat /\ r[i] = c[b[i]]
      /\ \A i, j \in 1..Len(r) : i < j => b[i] < b[j]
      /\ \A k \in P : \E i \in 1..Len(r) : b[i] = k
  BY <1>3, <1>4 DEF InOrder
<1>6. r \in Seq(ToSet(c))
  BY <1>1, <1>2, SublistPicks
<1>7. CASE Len(r) = 0
  <2>1. r = <<>>
    BY <1>6, <1>7, EmptySeq
  <2>2. \A j \in 1..Len(c) : c[j].trade_candidate_id # id
    BY <1>3, <1>5, <1>7
  <2> QED BY <2>1, <2>2 DEF r
<1>8. CASE Len(r) # 0
  <2>1. \A i, j \in 1..Len(r) : b[i] = b[j]
    BY <1>3, <1>5, SMTT(30) DEF Context
  <2>2. Len(r) = 1
    <3>1. SUFFICES ASSUME Len(r) > 1
                   PROVE  FALSE
      <4>1. PICK l \in Nat : l = Len(r)
        BY <1>5
      <4>2. l # 0 /\ ~ (l > 1) => l = 1
        OBVIOUS
      <4> QED BY <1>8, <4>1, <4>2
    <3>2. 1 \in 1..Len(r) /\ 2 \in 1..Len(r) /\ 1 < 2
      BY <1>5, <3>1
    <3>3. b[1] < b[2] /\ b[1] = b[2] /\ b[1] \in Nat
      BY <1>5, <2>1, <3>2
    <3> QED BY <3>3
  <2>3. 1 \in 1..Len(r)
    BY <2>2
  <2>4. b[1] \in 1..Len(c) /\ c[b[1]].trade_candidate_id = id /\ r[1] = c[b[1]]
    BY <1>3, <1>5, <2>3
  <2>5. r = <<r[1]>>
    BY <1>6, <2>2
  <2> QED BY <2>4, <2>5 DEF r
<1> QED
  BY <1>7, <1>8

\* Flattening sequences of one element each.
LEMMA FlattenSingles ==
    ASSUME NEW S, NEW ss \in Seq(Seq(S)), \A k \in 1..Len(ss) : Len(ss[k]) = 1
    PROVE  /\ FlattenSeq(ss) \in Seq(S) /\ Len(FlattenSeq(ss)) = Len(ss)
           /\ \A k \in 1..Len(ss) : FlattenSeq(ss)[k] = ss[k][1]
<1>0. Len(ss) \in Nat /\ \A k \in 1..Len(ss) : ss[k] \in Seq(S)
  BY LenProperties, ElementOfSeq
<1>1. CASE Len(ss) = 0
  <2>1. ss = <<>> /\ FlattenSeq(ss) = <<>>
    BY <1>1, EmptySeq DEF FlattenSeq
  <2>2. <<>> \in Seq(S) /\ Len(<<>>) = 0
    OBVIOUS
  <2>3. FlattenSeq(ss) \in Seq(S) /\ Len(FlattenSeq(ss)) = Len(ss)
    BY <1>1, <2>1, <2>2
  <2> QED BY <1>1, <2>3
<1>2. CASE Len(ss) # 0
  <2>1. PICK f : /\ f = [n \in 1..Len(ss) |-> IF n = 1 THEN ss[n] ELSE f[n - 1] \o ss[n]]
                 /\ FlattenSeq(ss) = f[Len(ss)]
    BY <1>2, FlattenRecursion
  <2>2. f[1] = ss[1]
    BY <1>0, <1>2, <2>1
  <2>3. \A n \in 1..Len(ss) : n # 1 => f[n] = f[n - 1] \o ss[n]
    BY <2>1
  <2> DEFINE Good(n) == /\ f[n] \in Seq(S) /\ Len(f[n]) = n
                       /\ \A k \in 1..n : f[n][k] = ss[k][1]
             T == {m \in Nat : m + 1 <= Len(ss) => Good(m + 1)}
  <2>4. 0 \in T
    <3>1. f[1] \in Seq(S) /\ Len(f[1]) = 1
      BY <1>0, <1>2, <2>2
    <3>2. \A k \in 1..1 : k = 1
      OBVIOUS
    <3>3. Good(1)
      BY <2>2, <3>1, <3>2
    <3> QED BY <3>3
  <2>5. ASSUME NEW m \in Nat, m \in T
        PROVE  m + 1 \in T
    <3>1. SUFFICES ASSUME m + 2 <= Len(ss)
                   PROVE  Good(m + 2)
      <4>1. (m + 1) + 1 = m + 2 /\ m + 1 \in Nat
        OBVIOUS
      <4> HIDE DEF Good
      <4> QED BY <4>1
    <3>2. /\ f[m + 1] \in Seq(S) /\ Len(f[m + 1]) = m + 1
          /\ \A k \in 1..(m + 1) : f[m + 1][k] = ss[k][1]
      BY <1>0, <2>5, <3>1
    <3>3. m + 2 \in 1..Len(ss) /\ m + 2 # 1 /\ (m + 2) - 1 = m + 1
      BY <1>0, <3>1
    <3>4. f[m + 2] = f[m + 1] \o ss[m + 2] /\ ss[m + 2] \in Seq(S) /\ Len(ss[m + 2]) = 1
      BY <1>0, <2>3, <3>3
    <3> DEFINE x == f[m + 1]
               y == ss[m + 2]
    <3> HIDE DEF x, y
    <3>5. x \in Seq(S) /\ y \in Seq(S) /\ f[m + 2] = x \o y /\ Len(x) = m + 1 /\ Len(y) = 1
      BY <3>2, <3>4 DEF x, y
    <3>6. /\ x \o y \in Seq(S) /\ Len(x \o y) = Len(x) + Len(y)
          /\ \A i \in 1..Len(x) : (x \o y)[i] = x[i]
          /\ \A i \in 1..Len(y) : (x \o y)[Len(x) + i] = y[i]
      <4>1. PICK u \in Seq(S), v \in Seq(S) : u = x /\ v = y
        BY <3>5
      <4>2. /\ u \o v \in Seq(S) /\ Len(u \o v) = Len(u) + Len(v)
            /\ \A i \in 1..Len(u) : (u \o v)[i] = u[i]
            /\ \A i \in 1..Len(v) : (u \o v)[Len(u) + i] = v[i]
        BY ConcatElements
      <4> QED BY <4>1, <4>2
    <3>7. (x \o y)[m + 2] = y[1]
      <4>1. (m + 1) + 1 = m + 2 /\ 1 \in 1..1
        OBVIOUS
      <4> QED BY <3>5, <3>6, <4>1
    <3>8. \A k \in 1..(m + 2) : k \in 1..(m + 1) \/ k = m + 2
      OBVIOUS
    <3>9. \A k \in 1..(m + 2) : (x \o y)[k] = ss[k][1]
      <4>1. \A k \in 1..(m + 1) : (x \o y)[k] = ss[k][1]
        BY <3>2, <3>5, <3>6 DEF x
      <4>2. (x \o y)[m + 2] = ss[m + 2][1]
        BY <3>7 DEF y
      <4> QED BY <3>8, <4>1, <4>2
    <3>10. Len(x \o y) = m + 2
      BY <3>5, <3>6
    <3> QED BY <3>5, <3>6, <3>9, <3>10
  <2>6. Nat \subseteq T
    <3> HIDE DEF T
    <3> QED BY <2>4, <2>5, SetInduction
  <2>7. Good(Len(ss))
    <3>1. Len(ss) - 1 \in Nat /\ (Len(ss) - 1) + 1 = Len(ss)
      BY <1>0, <1>2
    <3> HIDE DEF Good
    <3>2. Len(ss) - 1 \in T
      BY <2>6, <3>1
    <3> QED BY <1>0, <3>1, <3>2
  <2> QED BY <2>1, <2>7
<1> QED
  BY <1>1, <1>2

\* A join keeps the rows, and adds to each what its candidate's record says.
LEMMA MergeRows ==
    ASSUME NEW R, NEW rows \in Seq(R), NEW c, NEW cols, Context(c, cols), NEW absent
    PROVE  LET m == Merge(rows, c, absent)
           IN  /\ m \in Seq(ToSet(m)) /\ Len(m) = Len(rows)
               /\ \A k \in 1..Len(rows) :
                     \/ /\ m[k] = With(rows[k], absent)
                        /\ \A j \in 1..Len(c) :
                              c[j].trade_candidate_id # rows[k].trade_candidate_id
                     \/ \E j \in 1..Len(c) :
                           /\ m[k] = With(rows[k], c[j])
                           /\ c[j].trade_candidate_id = rows[k].trade_candidate_id
<1> DEFINE Of(row) == OfCandidate(c, row.trade_candidate_id)
           J(row) == Matches(row, c, absent)
           ss == [k \in DOMAIN rows |-> J(rows[k])]
           m == Merge(rows, c, absent)
           S == {J(rows[k])[1] : k \in 1..Len(rows)}
<1>1. DOMAIN rows = 1..Len(rows) /\ Len(rows) \in Nat
  BY LenProperties
<1>2. m = FlattenSeq(ss)
  BY DEF Merge
<1>3. ASSUME NEW row
      PROVE  \/ /\ J(row) = <<With(row, absent)>>
                /\ \A j \in 1..Len(c) : c[j].trade_candidate_id # row.trade_candidate_id
             \/ \E j \in 1..Len(c) : /\ J(row) = <<With(row, c[j])>>
                                    /\ c[j].trade_candidate_id = row.trade_candidate_id
  <2>1. \/ /\ Of(row) = <<>>
           /\ \A j \in 1..Len(c) : c[j].trade_candidate_id # row.trade_candidate_id
        \/ \E j \in 1..Len(c) : /\ c[j].trade_candidate_id = row.trade_candidate_id
                               /\ Of(row) = <<c[j]>>
    BY OneOfCandidate
  <2>2. J(row) = IF Of(row) = <<>> THEN <<With(row, absent)>>
                 ELSE [k \in DOMAIN Of(row) |-> With(row, Of(row)[k])]
    BY DEF Matches
  <2>3. CASE Of(row) = <<>> /\ \A j \in 1..Len(c) : c[j].trade_candidate_id # row.trade_candidate_id
    BY <2>3, <2>2
  <2>4. CASE \E j \in 1..Len(c) : /\ c[j].trade_candidate_id = row.trade_candidate_id
                               /\ Of(row) = <<c[j]>>
    <3>1. PICK j \in 1..Len(c) : /\ c[j].trade_candidate_id = row.trade_candidate_id
                                 /\ Of(row) = <<c[j]>>
      BY <2>4
    <3>2. J(row) = [k \in DOMAIN <<c[j]>> |-> With(row, <<c[j]>>[k])]
      BY <2>2, <3>1
    <3>3. J(row) = <<With(row, c[j])>>
      <4> DEFINE w == With(row, c[j])
      <4>1. \A k \in 1..1 : With(row, <<c[j]>>[k]) = w
        OBVIOUS
      <4>2. DOMAIN <<c[j]>> = 1..1
        OBVIOUS
      <4> HIDE DEF w
      <4>3. J(row) = [k \in 1..1 |-> w]
        BY <3>2, <4>1, <4>2
      <4>4. [k \in 1..1 |-> w] = <<w>>
        OBVIOUS
      <4> QED BY <4>3, <4>4 DEF w
    <3> QED BY <3>1, <3>3
  <2> HIDE DEF J, Of
  <2> QED BY <2>1, <2>3, <2>4
<1> HIDE DEF J
<1>4. \A k \in 1..Len(rows) : \E w : J(rows[k]) = <<w>>
  BY <1>3
<1>5. ss \in Seq(Seq(S)) /\ Len(ss) = Len(rows) /\ \A k \in 1..Len(rows) : ss[k] = J(rows[k])
  <2>1. \A k \in 1..Len(rows) : J(rows[k]) \in Seq(S)
    <3>1. SUFFICES ASSUME NEW k \in 1..Len(rows)
                   PROVE  J(rows[k]) \in Seq(S)
      OBVIOUS
    <3>2. PICK w : J(rows[k]) = <<w>>
      BY <1>4
    <3>3. w \in S
      <4>1. J(rows[k])[1] = w
        BY <3>2
      <4> QED BY <4>1
    <3> HIDE DEF S
    <3> QED BY <3>2, <3>3
  <2> HIDE DEF S
  <2>2. ss \in [1..Len(rows) -> Seq(S)]
    BY <1>1, <2>1
  <2> QED BY <1>1, <2>2
<1> HIDE DEF ss, S, m
<1>6. \A k \in 1..Len(ss) : Len(ss[k]) = 1
  BY <1>4, <1>5
<1>7. m \in Seq(S) /\ Len(m) = Len(rows) /\ \A k \in 1..Len(rows) : m[k] = ss[k][1]
  BY <1>2, <1>5, <1>6, FlattenSingles
<1>8. \A k \in 1..Len(rows) : \A w : J(rows[k]) = <<w>> => m[k] = w
  BY <1>5, <1>7
<1>9. m \in Seq(ToSet(m))
  BY <1>7, ToSetOfSeq
<1>10. \A k \in 1..Len(rows) :
                     \/ /\ m[k] = With(rows[k], absent)
                        /\ \A j \in 1..Len(c) :
                              c[j].trade_candidate_id # rows[k].trade_candidate_id
                     \/ \E j \in 1..Len(c) :
                           /\ m[k] = With(rows[k], c[j])
                           /\ c[j].trade_candidate_id = rows[k].trade_candidate_id
  BY <1>3, <1>8
<1> QED
  BY <1>7, <1>9, <1>10 DEF m

\* What the first of the records at Q says of a candidate, if one of them does.
Says(log, Q, id) == {n \in Q : log[n].trade_candidate_id = id}

Told(log, Q, id, source) ==
    IF Says(log, Q, id) = {} THEN Missing ELSE Number(log[Min(Says(log, Q, id))][source])

\* A context that says this of every candidate.
Tells(c, log, Q, column, source) ==
    /\ \A j \in 1..Len(c) : c[j][column] = Told(log, Q, c[j].trade_candidate_id, source)
    /\ \A id : (\A j \in 1..Len(c) : c[j].trade_candidate_id # id) => Says(log, Q, id) = {}

\* The columns of the first records.
ColumnsOf(c, first, cols) ==
    /\ c = [k \in DOMAIN first |-> c[k]]
    /\ \A k \in DOMAIN first : /\ c[k].trade_candidate_id = first[k].trade_candidate_id
                              /\ DOMAIN c[k] = cols \cup {"trade_candidate_id"}

\* The columns of the first records are a context.
LEMMA ContextOfFirsts ==
    ASSUME NEW first, NEW log, NEW Q, Firsts(first, log, Q), NEW c, NEW cols,
           ColumnsOf(c, first, cols)
    PROVE  Context(c, cols)
<1>1. DOMAIN first = 1..Len(first) /\ Len(first) \in Nat
  BY DEF Firsts
<1>2. c \in [1..Len(first) -> {c[k] : k \in 1..Len(first)}]
  BY <1>1 DEF ColumnsOf
<1>3. c \in Seq({c[k] : k \in 1..Len(first)}) /\ Len(c) = Len(first)
  BY <1>1, <1>2
<1>4. c \in Seq(ToSet(c))
  BY <1>3, ToSetOfSeq
<1>5. /\ \A j, k \in 1..Len(c) : c[j].trade_candidate_id = c[k].trade_candidate_id => j = k
      /\ \A j \in 1..Len(c) : DOMAIN c[j] = cols \cup {"trade_candidate_id"}
  BY <1>1, <1>3 DEF Firsts, ColumnsOf
<1> QED
  BY <1>4, <1>5 DEF Context

\* And they say what the first record says.
LEMMA FirstsTell ==
    ASSUME NEW first, NEW log, NEW l \in Nat, NEW Q, Q \subseteq 1..l, Firsts(first, log, Q),
           NEW c, NEW cols, ColumnsOf(c, first, cols), NEW column, NEW source,
           \A k \in DOMAIN first : c[k][column] = Number(first[k][source])
    PROVE  Tells(c, log, Q, column, source)
<1>1. DOMAIN first = 1..Len(first) /\ Len(first) \in Nat
  BY DEF Firsts
<1>2. Len(c) = Len(first)
  <2>1. c \in [1..Len(first) -> {c[k] : k \in 1..Len(first)}]
    BY <1>1 DEF ColumnsOf
  <2> QED BY <1>1, <2>1
<1>3. \A j \in 1..Len(c) : /\ c[j].trade_candidate_id = first[j].trade_candidate_id
                          /\ c[j][column] = Number(first[j][source])
  BY <1>1, <1>2 DEF ColumnsOf
<1>4. ASSUME NEW j \in 1..Len(c)
      PROVE  c[j][column] = Told(log, Q, c[j].trade_candidate_id, source)
  <2>1. PICK m \in Q :
          /\ first[j] = log[m]
          /\ \A n \in Q : log[n].trade_candidate_id = log[m].trade_candidate_id => m <= n
    BY <1>2 DEF Firsts
  <2> DEFINE s == Says(log, Q, c[j].trade_candidate_id)
  <2>2. \A n : n \in s <=> n \in Q /\ log[n].trade_candidate_id = log[m].trade_candidate_id
    BY <1>3, <2>1 DEF Says
  <2> HIDE DEF s
  <2>3. m \in s /\ s \subseteq 1..l /\ \A n \in s : m <= n
    BY <2>1, <2>2
  <2>4. Min(s) \in s /\ \A n \in s : Min(s) <= n
    <3>1. s \in SUBSET Int /\ IsFiniteSet(s) /\ s # {}
      <4>1. IsFiniteSet(s)
        BY <2>3, PositionsFinite
      <4> QED BY <2>3, <4>1
    <3> QED BY <3>1, MinOfSet
  <2>5. Min(s) = m
    <3>1. PICK x \in s : x = Min(s)
      BY <2>4
    <3>2. m <= x /\ x <= m
      BY <2>3, <2>4, <3>1
    <3>3. m \in Int /\ x \in Int
      BY <2>3
    <3> QED BY <3>1, <3>2, <3>3
  <2>6. s # {} /\ log[Min(s)] = first[j]
    BY <2>1, <2>3, <2>5
  <2> QED BY <1>3, <2>6 DEF Told, s
<1>5. ASSUME NEW id, \A j \in 1..Len(c) : c[j].trade_candidate_id # id
      PROVE  Says(log, Q, id) = {}
  <2>1. SUFFICES ASSUME NEW n \in Q, log[n].trade_candidate_id = id
                 PROVE  FALSE
    BY DEF Says
  <2>2. PICK j \in 1..Len(first) : first[j].trade_candidate_id = log[n].trade_candidate_id
    BY DEF Firsts
  <2> QED BY <1>2, <1>3, <1>5, <2>1, <2>2
<1> QED
  BY <1>4, <1>5 DEF Tells

\* The rows of m are those of rows, as far as these columns go.
Carries(m, rows, names) ==
    /\ m \in Seq(ToSet(m)) /\ Len(m) = Len(rows)
    /\ \A k \in 1..Len(m) : \A name \in names :
          name \in DOMAIN m[k] /\ m[k][name] = rows[k][name]

\* Columns are carried from step to step.
LEMMA CarriesOn ==
    ASSUME NEW rows, NEW m, NEW n, NEW fewer, NEW names, fewer \subseteq names,
           Carries(m, rows, fewer), Carries(n, m, names)
    PROVE  Carries(n, rows, fewer)
<1>1. Len(n) = Len(m) /\ Len(m) = Len(rows) /\ n \in Seq(ToSet(n))
  BY DEF Carries
<1>2. \A k \in 1..Len(n) : \A name \in fewer :
          name \in DOMAIN n[k] /\ n[k][name] = rows[k][name]
  BY <1>1 DEF Carries
<1> QED
  BY <1>1, <1>2 DEF Carries

\* The rows say of their candidates what the log does.
Gives(m, log, Q, column, source) ==
    \A k \in 1..Len(m) :
       /\ column \in DOMAIN m[k]
       /\ m[k][column] = Told(log, Q, m[k].trade_candidate_id, source)

\* What rows give, they give wherever they are carried.
LEMMA GivesOn ==
    ASSUME NEW m, NEW n, NEW names, Carries(n, m, names), NEW log, NEW Q, NEW column, NEW source,
           Gives(m, log, Q, column, source), column \in names, "trade_candidate_id" \in names
    PROVE  Gives(n, log, Q, column, source)
<1>1. \A k \in 1..Len(n) : /\ column \in DOMAIN n[k] /\ n[k][column] = m[k][column]
                          /\ n[k].trade_candidate_id = m[k].trade_candidate_id
                          /\ k \in 1..Len(m)
  BY DEF Carries
<1> QED
  BY <1>1 DEF Gives

\* A join carries the columns that it does not add.
LEMMA MergeCarries ==
    ASSUME NEW rows, rows \in Seq(ToSet(rows)), NEW c, NEW cols, Context(c, cols),
           NEW absent, DOMAIN absent = cols, NEW names, names \cap cols = {},
           "trade_candidate_id" \in names,
           \A k \in 1..Len(rows) : names \subseteq DOMAIN rows[k]
    PROVE  Carries(Merge(rows, c, absent), rows, names)
<1> DEFINE m == Merge(rows, c, absent)
<1>1. /\ m \in Seq(ToSet(m)) /\ Len(m) = Len(rows)
      /\ \A k \in 1..Len(rows) :
                     \/ /\ m[k] = With(rows[k], absent)
                        /\ \A j \in 1..Len(c) :
                              c[j].trade_candidate_id # rows[k].trade_candidate_id
                     \/ \E j \in 1..Len(c) :
                           /\ m[k] = With(rows[k], c[j])
                           /\ c[j].trade_candidate_id = rows[k].trade_candidate_id
  BY MergeRows
<1> HIDE DEF m
<1>2. ASSUME NEW k \in 1..Len(m), NEW name \in names
      PROVE  name \in DOMAIN m[k] /\ m[k][name] = rows[k][name]
  <2>1. name \in DOMAIN rows[k] /\ name \notin cols /\ k \in 1..Len(rows)
    BY <1>1
  <2>2. CASE m[k] = With(rows[k], absent)
    BY <2>1, <2>2 DEF With
  <2>3. CASE \E j \in 1..Len(c) : /\ m[k] = With(rows[k], c[j])
                                /\ c[j].trade_candidate_id = rows[k].trade_candidate_id
    <3>1. PICK j \in 1..Len(c) : /\ m[k] = With(rows[k], c[j])
                                 /\ c[j].trade_candidate_id = rows[k].trade_candidate_id
      BY <2>3
    <3>2. DOMAIN c[j] = cols \cup {"trade_candidate_id"}
      BY DEF Context
    <3>3. CASE name = "trade_candidate_id"
      BY <2>1, <3>1, <3>2, <3>3 DEF With
    <3>4. CASE name # "trade_candidate_id"
      BY <2>1, <3>1, <3>2, <3>4 DEF With
    <3> QED BY <3>3, <3>4
  <2> QED BY <1>1, <2>1, <2>2, <2>3
<1> QED
  BY <1>1, <1>2 DEF Carries, m

\* A join adds what the context tells.
LEMMA MergeGives ==
    ASSUME NEW rows, rows \in Seq(ToSet(rows)), NEW c, NEW cols, Context(c, cols),
           NEW absent, DOMAIN absent = cols, NEW names, names \cap cols = {},
           "trade_candidate_id" \in names,
           \A k \in 1..Len(rows) : names \subseteq DOMAIN rows[k],
           NEW log, NEW Q, NEW column \in cols, NEW source, Tells(c, log, Q, column, source),
           absent[column] = Missing
    PROVE  Gives(Merge(rows, c, absent), log, Q, column, source)
<1> DEFINE m == Merge(rows, c, absent)
<1>1. /\ Len(m) = Len(rows)
      /\ \A k \in 1..Len(rows) :
                     \/ /\ m[k] = With(rows[k], absent)
                        /\ \A j \in 1..Len(c) :
                              c[j].trade_candidate_id # rows[k].trade_candidate_id
                     \/ \E j \in 1..Len(c) :
                           /\ m[k] = With(rows[k], c[j])
                           /\ c[j].trade_candidate_id = rows[k].trade_candidate_id
  BY MergeRows
<1>2. Carries(m, rows, names)
  BY MergeCarries
<1> HIDE DEF m
<1>3. ASSUME NEW k \in 1..Len(m)
      PROVE  /\ column \in DOMAIN m[k]
             /\ m[k][column] = Told(log, Q, m[k].trade_candidate_id, source)
  <2>1. m[k].trade_candidate_id = rows[k].trade_candidate_id /\ k \in 1..Len(rows)
    BY <1>1, <1>2 DEF Carries
  <2>2. CASE /\ m[k] = With(rows[k], absent)
             /\ \A j \in 1..Len(c) : c[j].trade_candidate_id # rows[k].trade_candidate_id
    <3>1. Says(log, Q, m[k].trade_candidate_id) = {}
      BY <2>1, <2>2 DEF Tells
    <3>2. column \in DOMAIN m[k] /\ m[k][column] = Missing
      BY <2>2 DEF With
    <3> QED BY <3>1, <3>2 DEF Told
  <2>3. CASE \E j \in 1..Len(c) : /\ m[k] = With(rows[k], c[j])
                                /\ c[j].trade_candidate_id = rows[k].trade_candidate_id
    <3>1. PICK j \in 1..Len(c) : /\ m[k] = With(rows[k], c[j])
                                 /\ c[j].trade_candidate_id = rows[k].trade_candidate_id
      BY <2>3
    <3>2. column \in DOMAIN c[j]
      BY DEF Context
    <3>3. column \in DOMAIN m[k] /\ m[k][column] = c[j][column]
      BY <3>1, <3>2 DEF With
    <3>4. c[j][column] = Told(log, Q, c[j].trade_candidate_id, source)
      BY DEF Tells
    <3>5. c[j].trade_candidate_id = m[k].trade_candidate_id
      BY <2>1, <3>1
    <3> QED BY <3>3, <3>4, <3>5
  <2> QED BY <1>1, <2>1, <2>2, <2>3
<1> QED
  BY <1>3 DEF Gives, m

\* The first records of each candidate, of a type and of a status.
LEMMA FirstsOfType ==
    ASSUME NEW V, NEW log \in Seq(V), NEW type
    PROVE  Firsts(FirstPerCandidate(Records(log, type)), log, OfType(log, type))
<1> DEFINE r == Records(log, type)
           Q == OfType(log, type)
<1>1. r \in Seq(V) /\ \E b : InOrder(b, r, log, Q)
  BY RecordsInOrder
<1>2. Q \in SUBSET Nat
  <2>1. DOMAIN log = 1..Len(log)
    BY LenProperties
  <2> QED BY <2>1 DEF OfType
<1> HIDE DEF r, Q
<1>3. PICK b : InOrder(b, r, log, Q)
  BY <1>1
<1>4. Firsts(FirstPerCandidate(r), log, Q)
  BY ONLY <1>1, <1>2, <1>3, FirstsOfLog
<1> QED
  BY <1>4 DEF r, Q

\* Of a type and a status.
LEMMA FirstsOfStatus ==
    ASSUME NEW V, NEW log \in Seq(V), NEW type, NEW status
    PROVE  Firsts(FirstPerCandidate(Concluded(log, type, status)),
                  log, OfStatus(log, type, status))
<1> DEFINE r == Concluded(log, type, status)
           Q == OfStatus(log, type, status)
<1>1. r \in Seq(V) /\ \E b : InOrder(b, r, log, Q)
  BY StatusInOrder
<1>2. Q \in SUBSET Nat
  <2>1. DOMAIN log = 1..Len(log)
    BY LenProperties
  <2> QED BY <2>1 DEF OfStatus
<1> HIDE DEF r, Q
<1>3. PICK b : InOrder(b, r, log, Q)
  BY <1>1
<1>4. Firsts(FirstPerCandidate(r), log, Q)
  BY ONLY <1>1, <1>2, <1>3, FirstsOfLog
<1> QED
  BY <1>4 DEF r, Q

\* Every context of the report has a candidate once.
LEMMA ContextsOfLog ==
    ASSUME NEW V, NEW log \in Seq(V)
    PROVE  /\ Context(CandidateContext(log), {"entry_atr", "entry_spread_points", "risk_reward_ratio"})
           /\ Context(ClosedContext(log), {"point_value", "exit_spread_points"})
           /\ Context(TimeStopContext(log), {"time_stop_reason_code"})
           /\ Context(RangeExitContext(log), {"range_exit_reason_code"})
           /\ Context(TrendReversalContext(log), {"trend_reversal_reason_code", "trend_reversal_trend_direction"})
           /\ Context(EarlyAdverseExitContext(log), {"early_adverse_exit_reason_code"})
<1>1. Context(CandidateContext(log), {"entry_atr", "entry_spread_points", "risk_reward_ratio"})
  <2> DEFINE first == FirstPerCandidate(Records(log, "CANDIDATE"))
  <2>1. Firsts(first, log, OfType(log, "CANDIDATE"))
    BY FirstsOfType
  <2>2. ColumnsOf(CandidateContext(log), first, {"entry_atr", "entry_spread_points", "risk_reward_ratio"})
    <3> HIDE DEF first
    <3>1. ASSUME NEW k \in DOMAIN first
          PROVE  /\ CandidateContext(log)[k].trade_candidate_id = first[k].trade_candidate_id
                 /\ DOMAIN CandidateContext(log)[k] = {"entry_atr", "entry_spread_points", "risk_reward_ratio"} \cup {"trade_candidate_id"}
      BY DEF CandidateContext, Columns, With, first
    <3> QED BY <3>1 DEF ColumnsOf, CandidateContext, Columns, first
  <2> HIDE DEF first
  <2> QED BY ONLY <2>1, <2>2, ContextOfFirsts
<1>2. Context(ClosedContext(log), {"point_value", "exit_spread_points"})
  <2> DEFINE first == FirstPerCandidate(Records(log, "TRADE_CLOSED"))
  <2>1. Firsts(first, log, OfType(log, "TRADE_CLOSED"))
    BY FirstsOfType
  <2>2. ColumnsOf(ClosedContext(log), first, {"point_value", "exit_spread_points"})
    <3> HIDE DEF first
    <3>1. ASSUME NEW k \in DOMAIN first
          PROVE  /\ ClosedContext(log)[k].trade_candidate_id = first[k].trade_candidate_id
                 /\ DOMAIN ClosedContext(log)[k] = {"point_value", "exit_spread_points"} \cup {"trade_candidate_id"}
      BY DEF ClosedContext, Columns, With, first
    <3> QED BY <3>1 DEF ColumnsOf, ClosedContext, Columns, first
  <2> HIDE DEF first
  <2> QED BY ONLY <2>1, <2>2, ContextOfFirsts
<1>3. Context(TimeStopContext(log), {"time_stop_reason_code"})
  <2> DEFINE first == FirstPerCandidate(Records(log, "TIME_STOP_EXIT"))
  <2>1. Firsts(first, log, OfType(log, "TIME_STOP_EXIT"))
    BY FirstsOfType
  <2>2. ColumnsOf(TimeStopContext(log), first, {"time_stop_reason_code"})
    <3> HIDE DEF first
    <3>1. ASSUME NEW k \in DOMAIN first
          PROVE  /\ TimeStopContext(log)[k].trade_candidate_id = first[k].trade_candidate_id
                 /\ DOMAIN TimeStopContext(log)[k] = {"time_stop_reason_code"} \cup {"trade_candidate_id"}
      BY DEF TimeStopContext, Columns, With, first
    <3> QED BY <3>1 DEF ColumnsOf, TimeStopContext, Columns, first
  <2> HIDE DEF first
  <2> QED BY ONLY <2>1, <2>2, ContextOfFirsts
<1>4. Context(RangeExitContext(log), {"range_exit_reason_code"})
  <2> DEFINE first == FirstPerCandidate(Records(log, "RANGE_EXIT"))
  <2>1. Firsts(first, log, OfType(log, "RANGE_EXIT"))
    BY FirstsOfType
  <2>2. ColumnsOf(RangeExitContext(log), first, {"range_exit_reason_code"})
    <3> HIDE DEF first
    <3>1. ASSUME NEW k \in DOMAIN first
          PROVE  /\ RangeExitContext(log)[k].trade_candidate_id = first[k].trade_candidate_id
                 /\ DOMAIN RangeExitContext(log)[k] = {"range_exit_reason_code"} \cup {"trade_candidate_id"}
      BY DEF RangeExitContext, Columns, With, first
    <3> QED BY <3>1 DEF ColumnsOf, RangeExitContext, Columns, first
  <2> HIDE DEF first
  <2> QED BY ONLY <2>1, <2>2, ContextOfFirsts
<1>5. Context(TrendReversalContext(log), {"trend_reversal_reason_code", "trend_reversal_trend_direction"})
  <2> DEFINE first == FirstPerCandidate(Records(log, "TREND_REVERSAL_EXIT"))
  <2>1. Firsts(first, log, OfType(log, "TREND_REVERSAL_EXIT"))
    BY FirstsOfType
  <2>2. ColumnsOf(TrendReversalContext(log), first, {"trend_reversal_reason_code", "trend_reversal_trend_direction"})
    <3> HIDE DEF first
    <3>1. ASSUME NEW k \in DOMAIN first
          PROVE  /\ TrendReversalContext(log)[k].trade_candidate_id = first[k].trade_candidate_id
                 /\ DOMAIN TrendReversalContext(log)[k] = {"trend_reversal_reason_code", "trend_reversal_trend_direction"} \cup {"trade_candidate_id"}
      BY DEF TrendReversalContext, Columns, With, first
    <3> QED BY <3>1 DEF ColumnsOf, TrendReversalContext, Columns, first
  <2> HIDE DEF first
  <2> QED BY ONLY <2>1, <2>2, ContextOfFirsts
<1>6. Context(EarlyAdverseExitContext(log), {"early_adverse_exit_reason_code"})
  <2> DEFINE first == FirstPerCandidate(Records(log, "EARLY_ADVERSE_EXIT"))
  <2>1. Firsts(first, log, OfType(log, "EARLY_ADVERSE_EXIT"))
    BY FirstsOfType
  <2>2. ColumnsOf(EarlyAdverseExitContext(log), first, {"early_adverse_exit_reason_code"})
    <3> HIDE DEF first
    <3>1. ASSUME NEW k \in DOMAIN first
          PROVE  /\ EarlyAdverseExitContext(log)[k].trade_candidate_id = first[k].trade_candidate_id
                 /\ DOMAIN EarlyAdverseExitContext(log)[k] = {"early_adverse_exit_reason_code"} \cup {"trade_candidate_id"}
      BY DEF EarlyAdverseExitContext, Columns, With, first
    <3> QED BY <3>1 DEF ColumnsOf, EarlyAdverseExitContext, Columns, first
  <2> HIDE DEF first
  <2> QED BY ONLY <2>1, <2>2, ContextOfFirsts
<1> QED
  BY <1>1, <1>2, <1>3, <1>4, <1>5, <1>6

\* The first approval.
LEMMA RiskContextTells ==
    ASSUME NEW V, NEW log \in Seq(V)
    PROVE  /\ Context(RiskContext(log), {"risk_budget"})
           /\ Tells(RiskContext(log), log, OfStatus(log, "RISK_DECISION", "APPROVED"), "risk_budget", "risk_budget")
<1> DEFINE first == FirstPerCandidate(Concluded(log, "RISK_DECISION", "APPROVED"))
           Q == OfStatus(log, "RISK_DECISION", "APPROVED")
           c == RiskContext(log)
<1>1. Firsts(first, log, Q)
  BY FirstsOfStatus
<1>2. Q \subseteq 1..Len(log) /\ Len(log) \in Nat
  <2>1. DOMAIN log = 1..Len(log) /\ Len(log) \in Nat
    BY LenProperties
  <2> QED BY <2>1 DEF OfStatus
<1> HIDE DEF first, Q
<1>3. \A k \in DOMAIN first : /\ c[k].trade_candidate_id = first[k].trade_candidate_id
                             /\ DOMAIN c[k] = {"risk_budget"} \cup {"trade_candidate_id"}
                             /\ c[k]["risk_budget"] = Number(first[k]["risk_budget"])
  BY DEF RiskContext, Columns, With, first
<1>4. c = [k \in DOMAIN first |-> c[k]]
  BY DEF RiskContext, Columns, first
<1> HIDE DEF c
<1>5. ColumnsOf(c, first, {"risk_budget"})
  BY <1>3, <1>4 DEF ColumnsOf
<1>6. Context(c, {"risk_budget"})
  BY ONLY <1>1, <1>5, ContextOfFirsts
<1>7. Tells(c, log, Q, "risk_budget", "risk_budget")
  BY <1>1, <1>2, <1>3, <1>5, FirstsTell
<1> QED
  BY <1>6, <1>7 DEF c, Q

\* The first analytics record.
LEMMA AnalyticsContextTells ==
    ASSUME NEW V, NEW log \in Seq(V)
    PROVE  /\ Context(AnalyticsContext(log), {"mfe"})
           /\ Tells(AnalyticsContext(log), log, OfType(log, "TRADE_ANALYTICS"), "mfe", "mfe")
<1> DEFINE first == FirstPerCandidate(Records(log, "TRADE_ANALYTICS"))
           Q == OfType(log, "TRADE_ANALYTICS")
           c == AnalyticsContext(log)
<1>1. Firsts(first, log, Q)
  BY FirstsOfType
<1>2. Q \subseteq 1..Len(log) /\ Len(log) \in Nat
  <2>1. DOMAIN log = 1..Len(log) /\ Len(log) \in Nat
    BY LenProperties
  <2> QED BY <2>1 DEF OfType
<1> HIDE DEF first, Q
<1>3. \A k \in DOMAIN first : /\ c[k].trade_candidate_id = first[k].trade_candidate_id
                             /\ DOMAIN c[k] = {"mfe"} \cup {"trade_candidate_id"}
                             /\ c[k]["mfe"] = Number(first[k]["mfe"])
  BY DEF AnalyticsContext, Columns, With, first
<1>4. c = [k \in DOMAIN first |-> c[k]]
  BY DEF AnalyticsContext, Columns, first
<1> HIDE DEF c
<1>5. ColumnsOf(c, first, {"mfe"})
  BY <1>3, <1>4 DEF ColumnsOf
<1>6. Context(c, {"mfe"})
  BY ONLY <1>1, <1>5, ContextOfFirsts
<1>7. Tells(c, log, Q, "mfe", "mfe")
  BY <1>1, <1>2, <1>3, <1>5, FirstsTell
<1> QED
  BY <1>6, <1>7 DEF c, Q

\* The first order that was accepted.
LEMMA OrderSubmissionContextTells ==
    ASSUME NEW V, NEW log \in Seq(V)
    PROVE  /\ Context(OrderSubmissionContext(log), {"entry_slippage_points"})
           /\ Tells(OrderSubmissionContext(log), log, OfStatus(log, "ORDER_SUBMISSION", "ACCEPTED"), "entry_slippage_points", "slippage_points")
<1> DEFINE first == FirstPerCandidate(Concluded(log, "ORDER_SUBMISSION", "ACCEPTED"))
           Q == OfStatus(log, "ORDER_SUBMISSION", "ACCEPTED")
           c == OrderSubmissionContext(log)
<1>1. Firsts(first, log, Q)
  BY FirstsOfStatus
<1>2. Q \subseteq 1..Len(log) /\ Len(log) \in Nat
  <2>1. DOMAIN log = 1..Len(log) /\ Len(log) \in Nat
    BY LenProperties
  <2> QED BY <2>1 DEF OfStatus
<1> HIDE DEF first, Q
<1>3. \A k \in DOMAIN first : /\ c[k].trade_candidate_id = first[k].trade_candidate_id
                             /\ DOMAIN c[k] = {"entry_slippage_points"} \cup {"trade_candidate_id"}
                             /\ c[k]["entry_slippage_points"] = Number(first[k]["slippage_points"])
  BY DEF OrderSubmissionContext, Columns, With, first
<1>4. c = [k \in DOMAIN first |-> c[k]]
  BY DEF OrderSubmissionContext, Columns, first
<1> HIDE DEF c
<1>5. ColumnsOf(c, first, {"entry_slippage_points"})
  BY <1>3, <1>4 DEF ColumnsOf
<1>6. Context(c, {"entry_slippage_points"})
  BY ONLY <1>1, <1>5, ContextOfFirsts
<1>7. Tells(c, log, Q, "entry_slippage_points", "slippage_points")
  BY <1>1, <1>2, <1>3, <1>5, FirstsTell
<1> QED
  BY <1>6, <1>7 DEF c, Q

\* Rows that have these columns at least.
HaveColumns(rows, names) ==
    /\ rows \in Seq(ToSet(rows))
    /\ \A k \in 1..Len(rows) : names \subseteq DOMAIN rows[k]

TradeColumns ==
    {"trade_id", "trade_candidate_id", "strategy", "direction", "open_time", "close_time",
     "net_pnl", "commission", "swap"}

\* Carried columns are there.
LEMMA CarriedColumns ==
    ASSUME NEW m, NEW rows, NEW names, Carries(m, rows, names)
    PROVE  HaveColumns(m, names)
BY DEF Carries, HaveColumns

\* One join of several.
LEMMA JoinStep ==
    ASSUME NEW rows, NEW names, HaveColumns(rows, names), "trade_candidate_id" \in names,
           NEW c, NEW cols, Context(c, cols), names \cap cols = {},
           NEW absent, DOMAIN absent = cols
    PROVE  Carries(Merge(rows, c, absent), rows, names)
BY MergeCarries DEF HaveColumns

\* The trades that are joined have the columns of a trade.
LEMMA TradesHaveColumns ==
    ASSUME NEW V, NEW log \in Seq(V)
    PROVE  HaveColumns(NormalizedTrades(AuditTrades(log)), TradeColumns)
<1> DEFINE raw == AuditTrades(log)
           trades == NormalizedTrades(raw)
<1>1. raw \in Seq(ToSet(raw))
  BY TradesOfLog
<1>2. \A k \in DOMAIN raw : TradeColumns \subseteq DOMAIN raw[k]
  BY DEF AuditTrades, TradeColumns
<1> HIDE DEF raw
<1>3. trades \in Seq(ToSet(raw))
  BY <1>1, SortedRows
<1> HIDE DEF trades
<1>4. trades \in Seq(ToSet(trades)) /\ \A k \in 1..Len(trades) : trades[k] \in ToSet(raw)
  BY <1>3, ToSetOfSeq, ElementOfSeq
<1>5. \A x \in ToSet(raw) : \E k \in DOMAIN raw : x = raw[k]
  BY <1>1, ToSetOfSeq
<1>6. \A k \in 1..Len(trades) : TradeColumns \subseteq DOMAIN trades[k]
  <2>1. SUFFICES ASSUME NEW k \in 1..Len(trades)
                 PROVE  TradeColumns \subseteq DOMAIN trades[k]
    OBVIOUS
  <2>2. PICK j \in DOMAIN raw : trades[k] = raw[j]
    BY <1>4, <1>5
  <2> QED BY <1>2, <2>2
<1> QED
  BY <1>4, <1>6 DEF HaveColumns, trades, raw

\* A trade is in the joined rows once, with what the first records say.
LEMMA JoinedOfLog ==
    ASSUME NEW V, NEW log \in Seq(V)
    PROVE  /\ Carries(JoinedRows(log), NormalizedTrades(AuditTrades(log)), TradeColumns)
           /\ Gives(JoinedRows(log), log, OfStatus(log, "RISK_DECISION", "APPROVED"),
                    "risk_budget", "risk_budget")
           /\ Gives(JoinedRows(log), log, OfType(log, "TRADE_ANALYTICS"), "mfe", "mfe")
<1> DEFINE trades == NormalizedTrades(AuditTrades(log))
           candidate == Merge(trades, CandidateContext(log), [entry_atr |-> Missing, entry_spread_points |-> Missing, risk_reward_ratio |-> Missing])
           risk == Merge(candidate, RiskContext(log), [risk_budget |-> Missing])
           analytics == Merge(risk, AnalyticsContext(log), [mfe |-> Missing])
           closed == Merge(analytics, ClosedContext(log), [point_value |-> Missing, exit_spread_points |-> Missing])
           timeStop == Merge(closed, TimeStopContext(log), [time_stop_reason_code |-> Missing])
           rangeExit == Merge(timeStop, RangeExitContext(log), [range_exit_reason_code |-> Missing])
           reversal == Merge(rangeExit, TrendReversalContext(log), [trend_reversal_reason_code |-> Missing, trend_reversal_trend_direction |-> Missing])
           rows == Merge(reversal, EarlyAdverseExitContext(log), [early_adverse_exit_reason_code |-> Missing])
           N0 == TradeColumns
           N1 == TradeColumns \cup {"risk_budget"}
           N2 == TradeColumns \cup {"risk_budget", "mfe"}
           approved == OfStatus(log, "RISK_DECISION", "APPROVED")
           analyzed == OfType(log, "TRADE_ANALYTICS")
<1>1. JoinedRows(log) = rows
  BY DEF JoinedRows
<1>2. HaveColumns(trades, N0)
  BY TradesHaveColumns
<1>3. /\ Context(CandidateContext(log), {"entry_atr", "entry_spread_points", "risk_reward_ratio"})
      /\ Context(RiskContext(log), {"risk_budget"})
      /\ Context(AnalyticsContext(log), {"mfe"})
      /\ Context(ClosedContext(log), {"point_value", "exit_spread_points"})
      /\ Context(TimeStopContext(log), {"time_stop_reason_code"})
      /\ Context(RangeExitContext(log), {"range_exit_reason_code"})
      /\ Context(TrendReversalContext(log), {"trend_reversal_reason_code", "trend_reversal_trend_direction"})
      /\ Context(EarlyAdverseExitContext(log), {"early_adverse_exit_reason_code"})
  BY ContextsOfLog, RiskContextTells, AnalyticsContextTells
<1>4. /\ Tells(RiskContext(log), log, approved, "risk_budget", "risk_budget")
      /\ Tells(AnalyticsContext(log), log, analyzed, "mfe", "mfe")
  BY RiskContextTells, AnalyticsContextTells
<1>5. /\ "trade_candidate_id" \in N0 /\ "trade_candidate_id" \in N1 /\ "trade_candidate_id" \in N2
      /\ N0 \subseteq N1 /\ N1 \subseteq N2 /\ N0 \subseteq N2
      /\ "risk_budget" \in N1 /\ "risk_budget" \in N2 /\ "mfe" \in N2
  BY DEF TradeColumns
<1> HIDE DEF approved, analyzed

<1>6. Carries(candidate, trades, N0)
  <2>1. N0 \cap {"entry_atr", "entry_spread_points", "risk_reward_ratio"} = {} /\ DOMAIN [entry_atr |-> Missing, entry_spread_points |-> Missing, risk_reward_ratio |-> Missing] = {"entry_atr", "entry_spread_points", "risk_reward_ratio"}
    BY DEF TradeColumns
  <2> HIDE DEF N0, trades
  <2> QED BY <1>3, <1>5, <1>2, <2>1, JoinStep
<1>7. HaveColumns(candidate, N0)
  BY <1>6, CarriedColumns
<1>8. Carries(risk, candidate, N0)
  <2>1. N0 \cap {"risk_budget"} = {} /\ DOMAIN [risk_budget |-> Missing] = {"risk_budget"}
    BY DEF TradeColumns
  <2> HIDE DEF N0, candidate
  <2> QED BY <1>3, <1>5, <1>7, <2>1, JoinStep
<1>9. Gives(risk, log, approved, "risk_budget", "risk_budget")
  <2>1. N0 \cap {"risk_budget"} = {} /\ DOMAIN [risk_budget |-> Missing] = {"risk_budget"} /\ [risk_budget |-> Missing].risk_budget = Missing
    BY DEF TradeColumns
  <2> HIDE DEF N0, candidate
  <2> QED BY <1>3, <1>4, <1>5, <1>7, <2>1, MergeGives DEF HaveColumns
<1>10. HaveColumns(risk, N1)
  <2> HIDE DEF risk
  <2> QED BY <1>8, <1>9 DEF Carries, Gives, HaveColumns
<1>11. Carries(risk, trades, N0)
  <2> HIDE DEF N0, N1, N2, risk, candidate, trades
  <2> QED BY <1>5, <1>6, <1>8, CarriesOn
<1>12. Carries(analytics, risk, N1)
  <2>1. N1 \cap {"mfe"} = {} /\ DOMAIN [mfe |-> Missing] = {"mfe"}
    BY DEF TradeColumns
  <2> HIDE DEF N1, risk
  <2> QED BY <1>3, <1>5, <1>10, <2>1, JoinStep
<1>13. Gives(analytics, log, analyzed, "mfe", "mfe")
  <2>1. N1 \cap {"mfe"} = {} /\ DOMAIN [mfe |-> Missing] = {"mfe"} /\ [mfe |-> Missing].mfe = Missing
    BY DEF TradeColumns
  <2> HIDE DEF N1, risk
  <2> QED BY <1>3, <1>4, <1>5, <1>10, <2>1, MergeGives DEF HaveColumns
<1>14. HaveColumns(analytics, N2)
  <2> HIDE DEF analytics
  <2> QED BY <1>12, <1>13 DEF Carries, Gives, HaveColumns
<1>15. Carries(analytics, trades, N0)
  <2> HIDE DEF N0, N1, N2, analytics, risk, trades
  <2> QED BY <1>5, <1>11, <1>12, CarriesOn
<1>16. Gives(analytics, log, approved, "risk_budget", "risk_budget")
  <2> HIDE DEF N1, N2, analytics, risk
  <2> QED BY <1>5, <1>12, <1>9, GivesOn
<1>17. Carries(closed, analytics, N2)
  <2>1. N2 \cap {"point_value", "exit_spread_points"} = {} /\ DOMAIN [point_value |-> Missing, exit_spread_points |-> Missing] = {"point_value", "exit_spread_points"}
    BY DEF TradeColumns
  <2> HIDE DEF N2, analytics
  <2> QED BY <1>3, <1>5, <1>14, <2>1, JoinStep
<1>18. HaveColumns(closed, N2)
  BY <1>17, CarriedColumns
<1>19. Carries(closed, trades, N0)
  <2> HIDE DEF N0, N1, N2, closed, analytics, trades
  <2> QED BY <1>5, <1>15, <1>17, CarriesOn
<1>20. Gives(closed, log, approved, "risk_budget", "risk_budget")
  <2> HIDE DEF N1, N2, closed, analytics
  <2> QED BY <1>5, <1>17, <1>16, GivesOn
<1>21. Gives(closed, log, analyzed, "mfe", "mfe")
  <2> HIDE DEF N1, N2, closed, analytics
  <2> QED BY <1>5, <1>17, <1>13, GivesOn
<1>22. Carries(timeStop, closed, N2)
  <2>1. N2 \cap {"time_stop_reason_code"} = {} /\ DOMAIN [time_stop_reason_code |-> Missing] = {"time_stop_reason_code"}
    BY DEF TradeColumns
  <2> HIDE DEF N2, closed
  <2> QED BY <1>3, <1>5, <1>18, <2>1, JoinStep
<1>23. HaveColumns(timeStop, N2)
  BY <1>22, CarriedColumns
<1>24. Carries(timeStop, trades, N0)
  <2> HIDE DEF N0, N1, N2, timeStop, closed, trades
  <2> QED BY <1>5, <1>19, <1>22, CarriesOn
<1>25. Gives(timeStop, log, approved, "risk_budget", "risk_budget")
  <2> HIDE DEF N1, N2, timeStop, closed
  <2> QED BY <1>5, <1>22, <1>20, GivesOn
<1>26. Gives(timeStop, log, analyzed, "mfe", "mfe")
  <2> HIDE DEF N1, N2, timeStop, closed
  <2> QED BY <1>5, <1>22, <1>21, GivesOn
<1>27. Carries(rangeExit, timeStop, N2)
  <2>1. N2 \cap {"range_exit_reason_code"} = {} /\ DOMAIN [range_exit_reason_code |-> Missing] = {"range_exit_reason_code"}
    BY DEF TradeColumns
  <2> HIDE DEF N2, timeStop
  <2> QED BY <1>3, <1>5, <1>23, <2>1, JoinStep
<1>28. HaveColumns(rangeExit, N2)
  BY <1>27, CarriedColumns
<1>29. Carries(rangeExit, trades, N0)
  <2> HIDE DEF N0, N1, N2, rangeExit, timeStop, trades
  <2> QED BY <1>5, <1>24, <1>27, CarriesOn
<1>30. Gives(rangeExit, log, approved, "risk_budget", "risk_budget")
  <2> HIDE DEF N1, N2, rangeExit, timeStop
  <2> QED BY <1>5, <1>27, <1>25, GivesOn
<1>31. Gives(rangeExit, log, analyzed, "mfe", "mfe")
  <2> HIDE DEF N1, N2, rangeExit, timeStop
  <2> QED BY <1>5, <1>27, <1>26, GivesOn
<1>32. Carries(reversal, rangeExit, N2)
  <2>1. N2 \cap {"trend_reversal_reason_code", "trend_reversal_trend_direction"} = {} /\ DOMAIN [trend_reversal_reason_code |-> Missing, trend_reversal_trend_direction |-> Missing] = {"trend_reversal_reason_code", "trend_reversal_trend_direction"}
    BY DEF TradeColumns
  <2> HIDE DEF N2, rangeExit
  <2> QED BY <1>3, <1>5, <1>28, <2>1, JoinStep
<1>33. HaveColumns(reversal, N2)
  BY <1>32, CarriedColumns
<1>34. Carries(reversal, trades, N0)
  <2> HIDE DEF N0, N1, N2, reversal, rangeExit, trades
  <2> QED BY <1>5, <1>29, <1>32, CarriesOn
<1>35. Gives(reversal, log, approved, "risk_budget", "risk_budget")
  <2> HIDE DEF N1, N2, reversal, rangeExit
  <2> QED BY <1>5, <1>32, <1>30, GivesOn
<1>36. Gives(reversal, log, analyzed, "mfe", "mfe")
  <2> HIDE DEF N1, N2, reversal, rangeExit
  <2> QED BY <1>5, <1>32, <1>31, GivesOn
<1>37. Carries(rows, reversal, N2)
  <2>1. N2 \cap {"early_adverse_exit_reason_code"} = {} /\ DOMAIN [early_adverse_exit_reason_code |-> Missing] = {"early_adverse_exit_reason_code"}
    BY DEF TradeColumns
  <2> HIDE DEF N2, reversal
  <2> QED BY <1>3, <1>5, <1>33, <2>1, JoinStep
<1>38. HaveColumns(rows, N2)
  BY <1>37, CarriedColumns
<1>39. Carries(rows, trades, N0)
  <2> HIDE DEF N0, N1, N2, rows, reversal, trades
  <2> QED BY <1>5, <1>34, <1>37, CarriesOn
<1>40. Gives(rows, log, approved, "risk_budget", "risk_budget")
  <2> HIDE DEF N1, N2, rows, reversal
  <2> QED BY <1>5, <1>37, <1>35, GivesOn
<1>41. Gives(rows, log, analyzed, "mfe", "mfe")
  <2> HIDE DEF N1, N2, rows, reversal
  <2> QED BY <1>5, <1>37, <1>36, GivesOn
<1> HIDE DEF rows, trades
<1> QED
  BY <1>1, <1>39, <1>40, <1>41 DEF approved, analyzed, trades

\* Columns that are added to each row leave the others alone.
LEMMA AddedColumns ==
    ASSUME NEW rows, NEW names, HaveColumns(rows, names), NEW m, NEW added,
           m = [k \in DOMAIN rows |-> With(rows[k], added[k])],
           \A k \in DOMAIN rows : names \cap DOMAIN added[k] = {}
    PROVE  Carries(m, rows, names)
<1>1. rows \in Seq(ToSet(rows)) /\ DOMAIN rows = 1..Len(rows) /\ Len(rows) \in Nat
  BY LenProperties DEF HaveColumns
<1>2. m \in Seq({m[k] : k \in 1..Len(rows)}) /\ Len(m) = Len(rows)
  <2>1. m = [k \in 1..Len(rows) |-> m[k]]
    BY <1>1
  <2>2. m \in [1..Len(rows) -> {m[k] : k \in 1..Len(rows)}]
    BY <2>1
  <2> QED BY <1>1, <2>2
<1>3. m \in Seq(ToSet(m))
  BY <1>2, ToSetOfSeq
<1>4. ASSUME NEW k \in 1..Len(m), NEW name \in names
      PROVE  name \in DOMAIN m[k] /\ m[k][name] = rows[k][name]
  <2>1. k \in DOMAIN rows /\ m[k] = With(rows[k], added[k])
    BY <1>1, <1>2
  <2>2. name \in DOMAIN rows[k] /\ name \notin DOMAIN added[k]
    BY <1>1, <2>1 DEF HaveColumns
  <2> QED BY <2>1, <2>2 DEF With
<1> QED
  BY <1>2, <1>3, <1>4 DEF Carries

DerivedNames ==
    {"atr_band", "mfe_band", "hold_time_band", "r_multiple", "mfe_r", "session",
     "close_session", "reached_unrealized_profit_before_loss", "reached_tp_equivalent_r"}

\* The derived columns come on top.
LEMMA BandedCarries ==
    ASSUME NEW rows, NEW names, HaveColumns(rows, names), names \cap DerivedNames = {},
           NEW atr, NEW mfe, NEW hold
    PROVE  /\ Carries(Banded(rows, atr, mfe, hold), rows, names)
           /\ \A k \in DOMAIN rows :
                 Banded(rows, atr, mfe, hold)[k].reached_unrealized_profit_before_loss
                    = (rows[k].mfe # Missing /\ rows[k].mfe > 0 /\ rows[k].net_pnl < 0)
<1> DEFINE derived(k) == DerivedColumns(rows[k], RMultiple(rows[k].mfe, rows[k].risk_budget))
           bands(k) == [atr_band |-> atr[k], mfe_band |-> mfe[k], hold_time_band |-> hold[k]]
           added == [k \in DOMAIN rows |-> With(bands(k), derived(k))]
           m == Banded(rows, atr, mfe, hold)
<1>1. m = [k \in DOMAIN rows |-> With(rows[k], With(bands(k), derived(k)))]
  BY DEF Banded
<1>2. \A k \in DOMAIN rows : added[k] = With(bands(k), derived(k))
  OBVIOUS
<1>3. \A k : DOMAIN derived(k) = {"r_multiple", "mfe_r", "session", "close_session",
                                  "reached_unrealized_profit_before_loss",
                                  "reached_tp_equivalent_r"}
  BY DEF DerivedColumns
<1>4. \A k : DOMAIN bands(k) = {"atr_band", "mfe_band", "hold_time_band"}
  OBVIOUS
<1>5. \A k : derived(k).reached_unrealized_profit_before_loss
                = (rows[k].mfe # Missing /\ rows[k].mfe > 0 /\ rows[k].net_pnl < 0)
  BY DEF DerivedColumns
<1> HIDE DEF derived, bands, m
<1>6. \A k \in DOMAIN rows : DOMAIN added[k] = DerivedNames
  <2>1. \A k : DOMAIN With(bands(k), derived(k)) = DOMAIN bands(k) \cup DOMAIN derived(k)
    BY DEF With
  <2> QED BY <1>2, <1>3, <1>4, <2>1 DEF DerivedNames
<1>7. m = [k \in DOMAIN rows |-> With(rows[k], added[k])]
  BY <1>1, <1>2
<1>8. Carries(m, rows, names)
  <2> HIDE DEF added
  <2> QED BY <1>6, <1>7, AddedColumns
<1>9. ASSUME NEW k \in DOMAIN rows
      PROVE  m[k].reached_unrealized_profit_before_loss
                = (rows[k].mfe # Missing /\ rows[k].mfe > 0 /\ rows[k].net_pnl < 0)
  <2> DEFINE name == "reached_unrealized_profit_before_loss"
  <2>1. m[k] = With(rows[k], added[k]) /\ added[k] = With(bands(k), derived(k))
    BY <1>2, <1>7
  <2>2. name \in DOMAIN derived(k)
    BY <1>3
  <2> HIDE DEF name, added
  <2>3. added[k][name] = derived(k)[name] /\ name \in DOMAIN added[k]
    BY <2>1, <2>2 DEF With
  <2>4. m[k][name] = added[k][name]
    BY <2>1, <2>3 DEF With
  <2> QED BY <1>5, <2>3, <2>4 DEF name
<1> QED
  BY <1>8, <1>9 DEF m

\* The rows of the context report.
LEMMA ContextRows ==
    ASSUME NEW V, NEW log \in Seq(V)
    PROVE  LET rows == BuildTradeContext(log)
           IN  /\ Carries(rows, NormalizedTrades(AuditTrades(log)), TradeColumns)
               /\ HaveColumns(rows, TradeColumns)
               /\ Gives(rows, log, OfStatus(log, "RISK_DECISION", "APPROVED"),
                        "risk_budget", "risk_budget")
               /\ Gives(rows, log, OfType(log, "TRADE_ANALYTICS"), "mfe", "mfe")
               /\ \A k \in 1..Len(rows) :
                     rows[k].reached_unrealized_profit_before_loss
                        = (rows[k].mfe # Missing /\ rows[k].mfe > 0 /\ rows[k].net_pnl < 0)
<1> DEFINE trades == NormalizedTrades(AuditTrades(log))
           joined == JoinedRows(log)
           rows == BuildTradeContext(log)
           names == TradeColumns \cup {"risk_budget", "mfe"}
           approved == OfStatus(log, "RISK_DECISION", "APPROVED")
           analyzed == OfType(log, "TRADE_ANALYTICS")
<1>1. /\ Carries(joined, trades, TradeColumns)
      /\ Gives(joined, log, approved, "risk_budget", "risk_budget")
      /\ Gives(joined, log, analyzed, "mfe", "mfe")
  BY JoinedOfLog
<1>2. \E atr, mfe, hold : rows = Banded(joined, atr, mfe, hold)
  BY DEF BuildTradeContext, WithDerived
<1>3. /\ TradeColumns \subseteq names /\ "trade_candidate_id" \in names
      /\ "risk_budget" \in names /\ "mfe" \in names /\ "net_pnl" \in names
      /\ names \cap DerivedNames = {}
  BY DEF TradeColumns, DerivedNames
<1> HIDE DEF trades, joined, rows, approved, analyzed
<1>4. HaveColumns(joined, names)
  BY <1>1 DEF HaveColumns, Carries, Gives
<1> HIDE DEF names
<1>5. PICK atr, mfe, hold : rows = Banded(joined, atr, mfe, hold)
  BY <1>2
<1>6. /\ Carries(rows, joined, names)
      /\ \A k \in DOMAIN joined :
            rows[k].reached_unrealized_profit_before_loss
               = (joined[k].mfe # Missing /\ joined[k].mfe > 0 /\ joined[k].net_pnl < 0)
  BY <1>3, <1>4, <1>5, BandedCarries
<1>7. Carries(rows, trades, TradeColumns)
  BY <1>1, <1>3, <1>6, CarriesOn
<1>8. HaveColumns(rows, TradeColumns)
  BY <1>7, CarriedColumns
<1>9. Gives(rows, log, approved, "risk_budget", "risk_budget")
  BY <1>1, <1>3, <1>6, GivesOn
<1>10. Gives(rows, log, analyzed, "mfe", "mfe")
  BY <1>1, <1>3, <1>6, GivesOn
<1>11. \A k \in 1..Len(rows) :
          rows[k].reached_unrealized_profit_before_loss
             = (rows[k].mfe # Missing /\ rows[k].mfe > 0 /\ rows[k].net_pnl < 0)
  <2>1. DOMAIN joined = 1..Len(joined) /\ Len(rows) = Len(joined)
    BY <1>1, <1>6, LenProperties DEF Carries
  <2>2. \A k \in 1..Len(rows) : /\ rows[k]["mfe"] = joined[k]["mfe"]
                               /\ rows[k]["net_pnl"] = joined[k]["net_pnl"]
    BY <1>3, <1>6 DEF Carries
  <2> QED BY <1>6, <2>1, <2>2
<1> QED
  BY <1>7, <1>8, <1>9, <1>10, <1>11 DEF trades, rows, approved, analyzed

\* The rows of the cost report.
LEMMA CostRows ==
    ASSUME NEW V, NEW log \in Seq(V)
    PROVE  LET rows == BuildCostContext(log)
           IN  /\ Carries(rows, NormalizedTrades(AuditTrades(log)), TradeColumns)
               /\ Gives(rows, log, OfStatus(log, "ORDER_SUBMISSION", "ACCEPTED"),
                        "entry_slippage_points", "slippage_points")
<1> DEFINE trades == NormalizedTrades(AuditTrades(log))
           context == BuildTradeContext(log)
           merged == Merge(context, OrderSubmissionContext(log),
                           [entry_slippage_points |-> Missing])
           costed == WithCosts(merged)
           rows == BuildCostContext(log)
           names == TradeColumns \cup {"entry_slippage_points"}
           accepted == OfStatus(log, "ORDER_SUBMISSION", "ACCEPTED")
           added == [k \in DOMAIN merged |->
                        CostColumns(merged[k], IF OrZero(merged[k].point_value) > 0
                                               THEN merged[k].point_value ELSE 0)]
           tier == CostTierBand(Column(costed, "total_cost"))
           tiered == [k \in DOMAIN costed |-> [cost_tier |-> tier[k]]]
<1>1. Carries(context, trades, TradeColumns) /\ HaveColumns(context, TradeColumns)
  BY ContextRows
<1>2. /\ Context(OrderSubmissionContext(log), {"entry_slippage_points"})
      /\ Tells(OrderSubmissionContext(log), log, accepted, "entry_slippage_points",
               "slippage_points")
  BY OrderSubmissionContextTells
<1>3. /\ TradeColumns \subseteq names /\ "trade_candidate_id" \in TradeColumns
      /\ "trade_candidate_id" \in names
      /\ "entry_slippage_points" \in names /\ "cost_tier" \notin names
      /\ TradeColumns \cap {"entry_slippage_points"} = {}
      /\ names \cap {"cost_data_available", "total_spread_cost", "entry_slippage_cost",
                     "total_cost", "pnl_before_cost"} = {}
      /\ DOMAIN [entry_slippage_points |-> Missing] = {"entry_slippage_points"}
  BY DEF TradeColumns
<1>4. rows = WithTiers(costed, tier)
  BY DEF BuildCostContext, Tiered
<1>5. costed = [k \in DOMAIN merged |-> With(merged[k], added[k])]
  BY DEF WithCosts
<1>6. rows = [k \in DOMAIN costed |-> With(costed[k], tiered[k])]
  <2> HIDE DEF costed, tier, rows
  <2> QED BY <1>4 DEF WithTiers
<1>7. \A k \in DOMAIN merged :
         DOMAIN added[k] = {"cost_data_available", "total_spread_cost", "entry_slippage_cost",
                            "total_cost", "pnl_before_cost"}
  <2> HIDE DEF merged
  <2> QED BY DEF CostColumns
<1>8. \A k \in DOMAIN costed : DOMAIN tiered[k] = {"cost_tier"}
  <2> HIDE DEF costed, tier
  <2> QED OBVIOUS
<1> HIDE DEF trades, context, costed, rows, names, accepted, added, tier, tiered
<1>9. Carries(merged, context, TradeColumns)
  BY <1>1, <1>2, <1>3, JoinStep
<1>10. Gives(merged, log, accepted, "entry_slippage_points", "slippage_points")
  BY <1>1, <1>2, <1>3, MergeGives DEF HaveColumns
<1> HIDE DEF merged
<1>11. HaveColumns(merged, names)
  BY <1>9, <1>10 DEF HaveColumns, Carries, Gives, names
<1>12. Carries(costed, merged, names)
  BY <1>3, <1>5, <1>7, <1>11, AddedColumns
<1>13. HaveColumns(costed, names)
  BY <1>12, CarriedColumns
<1>14. Carries(rows, costed, names)
  BY <1>3, <1>6, <1>8, <1>13, AddedColumns
<1>15. Carries(rows, trades, TradeColumns)
  <2>1. Carries(merged, trades, TradeColumns)
    BY <1>1, <1>9, CarriesOn
  <2>2. Carries(costed, trades, TradeColumns)
    BY <1>3, <1>12, <2>1, CarriesOn
  <2> QED BY <1>3, <1>14, <2>2, CarriesOn
<1>16. Gives(rows, log, accepted, "entry_slippage_points", "slippage_points")
  <2>1. Gives(costed, log, accepted, "entry_slippage_points", "slippage_points")
    BY <1>3, <1>10, <1>12, GivesOn
  <2> QED BY <1>3, <1>14, <2>1, GivesOn
<1> QED
  BY <1>15, <1>16 DEF trades, rows, accepted

\* The rows of a report on the context or the costs of the trades.
LEMMA RowsOfLog ==
    ASSUME LogInv
    PROVE  /\ input \in Seq(ToSet(input))
           /\ Joined => /\ output = ContextSummaries(BuildTradeContext(input))
                        /\ output.rows = BuildTradeContext(input)
                        /\ ValidTrades(AuditTrades(input))
           /\ Costed => output.rows = BuildCostContext(input)
<1>1. CASE Joined
  <2>1. output = ContextReport(input) /\ ~ output.refused
    BY <1>1 DEF LogInv, Joined, ReportOn
  <2>2. Loads(input)
    BY <2>1 DEF ContextReport, Refused
  <2>3. output = ContextSummaries(BuildTradeContext(input))
    BY <2>1, <2>2 DEF ContextReport
  <2>4. output.rows = BuildTradeContext(input)
    BY <2>3 DEF ContextSummaries
  <2>5. ValidTrades(AuditTrades(input))
    BY <2>2 DEF Loads
  <2> QED BY <1>1, <2>5, <2>3, <2>4 DEF LogInv, Joined, Costed
<1>2. CASE Costed
  <2>1. output = CostReport(input) /\ ~ output.refused
    BY <1>2 DEF LogInv, Costed, ReportOn
  <2>2. Loads(input)
    BY <2>1 DEF CostReport, Refused
  <2>3. output = CostSummaries(BuildCostContext(input))
    BY <2>1, <2>2 DEF CostReport
  <2>4. ~ CostReportRefused(BuildCostContext(input))
    BY <2>1, <2>3 DEF CostSummaries, Refused
  <2>5. output.rows = BuildCostContext(input)
    BY <2>3, <2>4 DEF CostSummaries
  <2> QED BY <1>2, <2>5 DEF LogInv, Joined, Costed
<1> QED
  BY <1>1, <1>2 DEF LogInv

\* Every trade is one row, and says what the first record says.
LEMMA RowsAreJoined ==
    ASSUME LogInv
    PROVE  RowsAreTheTrades
<1> DEFINE trades == NormalizedTrades(AuditTrades(input))
<1>0. input \in Seq(ToSet(input))
  BY RowsOfLog
<1>1. trades \in Seq(ToSet(AuditTrades(input))) /\ Len(trades) = Len(Records(input, "TRADE_CLOSED"))
  <2>1. /\ AuditTrades(input) \in Seq(ToSet(AuditTrades(input)))
        /\ Len(AuditTrades(input)) = Len(Records(input, "TRADE_CLOSED"))
    BY <1>0, TradesOfLog
  <2> QED BY <2>1, SortedRows
<1>2. DOMAIN trades = 1..Len(trades)
  <2> HIDE DEF trades
  <2> QED BY <1>1, LenProperties
<1> HIDE DEF trades
<1>3. ASSUME Joined
      PROVE  /\ [k \in DOMAIN output.rows |-> output.rows[k].trade_id]
                   = [k \in DOMAIN trades |-> trades[k].trade_id]
             /\ \A k \in DOMAIN output.rows :
                   /\ FirstSays(output.rows[k], "RISK_DECISION", "APPROVED", "risk_budget",
                                output.rows[k].risk_budget)
                   /\ FirstSays(output.rows[k], "TRADE_ANALYTICS", "any", "mfe",
                                output.rows[k].mfe)
  <2> DEFINE rows == output.rows
  <2>1. rows = BuildTradeContext(input)
    BY <1>3, RowsOfLog
  <2> HIDE DEF rows
  <2>2. /\ Carries(rows, trades, TradeColumns)
        /\ Gives(rows, input, OfStatus(input, "RISK_DECISION", "APPROVED"),
                 "risk_budget", "risk_budget")
        /\ Gives(rows, input, OfType(input, "TRADE_ANALYTICS"), "mfe", "mfe")
    BY <1>0, <2>1, ContextRows DEF trades
  <2>3. DOMAIN rows = 1..Len(rows) /\ Len(rows) = Len(trades)
    BY <2>2, LenProperties DEF Carries
  <2>4. [k \in DOMAIN rows |-> rows[k].trade_id] = [k \in DOMAIN trades |-> trades[k].trade_id]
    <3>1. \A k \in 1..Len(rows) : rows[k].trade_id = trades[k].trade_id
      BY <2>2 DEF Carries, TradeColumns
    <3> QED BY <1>2, <2>3, <3>1
  <2>5. \A k \in DOMAIN rows :
           FirstSays(rows[k], "RISK_DECISION", "APPROVED", "risk_budget", rows[k].risk_budget)
    <3>1. Gives(rows, input, OfStatus(input, "RISK_DECISION", "APPROVED"),
                "risk_budget", "risk_budget")
      BY <2>2
    <3>2. SUFFICES ASSUME NEW k \in 1..Len(rows)
                   PROVE  FirstSays(rows[k], "RISK_DECISION", "APPROVED", "risk_budget",
                                    rows[k].risk_budget)
      BY <2>3
    <3> DEFINE id == rows[k].trade_candidate_id
               says == Says(input, OfStatus(input, "RISK_DECISION", "APPROVED"), id)
    <3>3. rows[k].risk_budget
             = IF says = {} THEN Missing ELSE Number(input[Min(says)]["risk_budget"])
      BY <3>1 DEF Gives, Told
    <3>4. says = {n \in DOMAIN input :
                    /\ input[n].event_type = "RISK_DECISION"
                    /\ input[n].trade_candidate_id = id
                    /\ "APPROVED" = "any" \/ input[n].status = "APPROVED"}
      BY DEF Says, OfStatus
    <3> HIDE DEF says
    <3> QED BY ONLY <3>3, <3>4 DEF FirstSays, id
  <2>6. \A k \in DOMAIN rows :
           FirstSays(rows[k], "TRADE_ANALYTICS", "any", "mfe", rows[k].mfe)
    <3>1. Gives(rows, input, OfType(input, "TRADE_ANALYTICS"), "mfe", "mfe")
      BY <2>2
    <3> QED BY ONLY <2>3, <3>1, ZenonT(30) DEF Gives, FirstSays, Told, Says, OfType
  <2> QED BY <2>4, <2>5, <2>6 DEF rows
<1>4. ASSUME Costed
      PROVE  /\ Len(output.rows) = Len(Records(input, "TRADE_CLOSED"))
             /\ \A k \in DOMAIN output.rows :
                   FirstSays(output.rows[k], "ORDER_SUBMISSION", "ACCEPTED",
                             "slippage_points", output.rows[k].entry_slippage_points)
  <2> DEFINE rows == output.rows
  <2>1. rows = BuildCostContext(input)
    BY <1>4, RowsOfLog
  <2> HIDE DEF rows
  <2>2. /\ Carries(rows, trades, TradeColumns)
        /\ Gives(rows, input, OfStatus(input, "ORDER_SUBMISSION", "ACCEPTED"),
                 "entry_slippage_points", "slippage_points")
    BY <1>0, <2>1, CostRows DEF trades
  <2>3. DOMAIN rows = 1..Len(rows) /\ Len(rows) = Len(trades)
    BY <2>2, LenProperties DEF Carries
  <2>4. \A k \in DOMAIN rows :
           FirstSays(rows[k], "ORDER_SUBMISSION", "ACCEPTED", "slippage_points",
                     rows[k].entry_slippage_points)
    BY <2>2, <2>3, ZenonT(30) DEF Gives, FirstSays, Told, Says, OfStatus
  <2> QED BY <1>1, <2>3, <2>4 DEF rows
<1> QED
  BY <1>3, <1>4 DEF RowsAreTheTrades, trades

\* However many records of a candidate the log has, every closed trade is one row, and
\* the first record that may speak for it does (trade_breakdown.py, cost_sensitivity.py).
THEOREM RowsAlwaysTheTrades == Spec => []RowsAreTheTrades
BY ReportsAreOfTheLog, RowsAreJoined, PTL

\* As many elements as positions.
LEMMA InOrderLength ==
    ASSUME NEW b, NEW r, NEW s, NEW l \in Nat, NEW K, K \subseteq 1..l, InOrder(b, r, s, K)
    PROVE  Len(r) = Cardinality(K)
<1>1. /\ Len(r) \in Nat /\ b \in [1..Len(r) -> K]
      /\ \A k \in K : \E i \in 1..Len(r) : b[i] = k
      /\ \A i, j \in 1..Len(r) : i < j => b[i] < b[j]
  BY DEF InOrder
<1>2. IsFiniteSet(1..Len(r)) /\ Cardinality(1..Len(r)) = Len(r)
  <2>1. /\ IsFiniteSet(1..Len(r))
        /\ Cardinality(1..Len(r)) = IF 1 > Len(r) THEN 0 ELSE Len(r) - 1 + 1
    BY <1>1, FS_Interval, SMTT(30)
  <2> QED BY <1>1, <2>1
<1>3. \A i, j \in 1..Len(r) : b[i] = b[j] => i = j
  <2>1. SUFFICES ASSUME NEW i \in 1..Len(r), NEW j \in 1..Len(r), b[i] = b[j], i # j
                 PROVE  FALSE
    OBVIOUS
  <2>2. b[i] < b[j] \/ b[j] < b[i]
    BY <1>1, <2>1
  <2>3. b[i] \in Int /\ b[j] \in Int
    <3>1. PICK x \in K, y \in K : x = b[i] /\ y = b[j]
      BY <1>1
    <3>2. x \in Int /\ y \in Int
      OBVIOUS
    <3> QED BY <3>1, <3>2
  <2> QED BY <2>1, <2>2, <2>3
<1>4. Cardinality(K) = Cardinality(1..Len(r))
  BY ONLY <1>1, <1>2, <1>3, OneToOne
<1> QED
  BY <1>2, <1>4

\* What of some elements in their order is also in A.
Chosen(S, s, l, K, r, b, A, L, M) ==
    /\ l \in Nat /\ K \subseteq 1..l /\ r \in Seq(S) /\ InOrder(b, r, s, K)
    /\ L = {i \in DOMAIN r : r[i] \in A}
    /\ M = {n \in K : s[n] \in A}

\* A choice among chosen elements keeps the order.
LEMMA InOrderOf ==
    ASSUME NEW S, NEW s, NEW l, NEW K, NEW r, NEW b, NEW A, NEW L, NEW M,
           Chosen(S, s, l, K, r, b, A, L, M)
    PROVE  Sublist(r, L) \in Seq(S) /\ \E d : InOrder(d, Sublist(r, L), s, M)
<1>0. /\ l \in Nat /\ K \subseteq 1..l /\ r \in Seq(S) /\ InOrder(b, r, s, K)
      /\ L = {i \in DOMAIN r : r[i] \in A}
      /\ M = {n \in K : s[n] \in A}
  BY DEF Chosen
<1>1. DOMAIN r = 1..Len(r) /\ Len(r) \in Nat
  BY <1>0, LenProperties
<1>2. /\ L \in SUBSET Nat /\ L \subseteq 1..Len(r) /\ L \cap (1..Len(r)) = L
      /\ \A i : i \in L <=> i \in 1..Len(r) /\ r[i] \in A
  BY <1>0, <1>1
<1>3. \A n : n \in M <=> n \in K /\ s[n] \in A
  BY <1>0
<1>4. /\ \A i \in 1..Len(r) : b[i] \in K /\ r[i] = s[b[i]]
      /\ \A n \in K : \E i \in 1..Len(r) : b[i] = n
  BY <1>0 DEF InOrder
<1>5. (\A i \in L : b[i] \in M) /\ (\A m \in M : \E i \in L : b[i] = m)
  BY <1>2, <1>3, <1>4
<1>6. Sublist(r, L) \in Seq(S) /\ \E c : InOrder(c, Sublist(r, L), r, L)
  <2>1. Sublist(r, L) \in Seq(S) /\ \E c : InOrder(c, Sublist(r, L), r, L \cap (1..Len(r)))
    BY <1>0, SublistPicks, SublistInOrder
  <2> QED BY <1>2, <2>1
<1>7. PICK c : InOrder(c, Sublist(r, L), r, L)
  BY <1>6
<1>8. K \in SUBSET Nat
  BY <1>0
<1>9. Within(b, c, Sublist(r, L), r, s, K, L, M)
  BY <1>0, <1>2, <1>5, <1>7, <1>8 DEF Within
<1>10. \E d : InOrder(d, Sublist(r, L), s, M)
  BY ONLY <1>9, InOrderWithin
<1> QED
  BY <1>6, <1>10

\* Rows of whole numbers, and of trades that say whether they reversed.
Counted(rows) ==
    /\ rows \in Seq(ToSet(rows))
    /\ \A x \in ToSet(rows) :
          /\ x.net_pnl \in Int /\ x.mfe \in Int \cup {Missing}
          /\ x.reached_unrealized_profit_before_loss
                = (x.mfe # Missing /\ x.mfe > 0 /\ x.net_pnl < 0)

\* The rows that both summaries count, by their positions.
LEMMA CountedReversals ==
    ASSUME NEW rows, Counted(rows)
    PROVE  /\ ReversalFromProfitSummary(rows).reached_unrealized_profit
                 = Cardinality({n \in DOMAIN rows : /\ rows[n].mfe # Missing /\ rows[n].mfe > 0
                                                    /\ rows[n].net_pnl < 0})
           /\ GivebackSummary(rows).fully_reversed
                 = Cardinality({n \in DOMAIN rows : /\ rows[n].mfe # Missing /\ rows[n].mfe > 0
                                                    /\ rows[n].net_pnl <= 0})
<1> DEFINE S == ToSet(rows)
           Lost == {x \in S : x.net_pnl < 0}
           Told1 == {x \in S : x.mfe # Missing}
           Ahead == {x \in S : x.mfe > 0}
           Profit == {x \in S : x.mfe # Missing /\ x.mfe > 0}
           Back == {x \in S : x.mfe - x.net_pnl >= x.mfe}
<1>1. rows \in Seq(S) /\ DOMAIN rows = 1..Len(rows) /\ Len(rows) \in Nat
  BY LenProperties DEF Counted
<1>2. \A n \in 1..Len(rows) : rows[n] \in S
  BY <1>1, ElementOfSeq
<1> DEFINE losses == Those(rows, LAMBDA row : row.net_pnl < 0)
           withMfe == Those(losses, LAMBDA row : row.mfe # Missing)
           reached == Those(withMfe, LAMBDA row : row.mfe > 0)
           withProfit == Those(rows, LAMBDA row : row.mfe # Missing /\ row.mfe > 0)
           fully == Those(withProfit, LAMBDA row : row.mfe - row.net_pnl >= row.mfe)
<1>3. /\ ReversalFromProfitSummary(rows).reached_unrealized_profit = Len(reached)
      /\ GivebackSummary(rows).fully_reversed = Len(fully)
  BY DEF ReversalFromProfitSummary, GivebackSummary
<1>4. /\ losses = Sublist(rows, {i \in DOMAIN rows : rows[i].net_pnl < 0})
      /\ withMfe = Sublist(losses, {i \in DOMAIN losses : losses[i].mfe # Missing})
      /\ reached = Sublist(withMfe, {i \in DOMAIN withMfe : withMfe[i].mfe > 0})
      /\ withProfit = Sublist(rows, {i \in DOMAIN rows : rows[i].mfe # Missing /\ rows[i].mfe > 0})
      /\ fully = Sublist(withProfit, {i \in DOMAIN withProfit :
                            withProfit[i].mfe - withProfit[i].net_pnl >= withProfit[i].mfe})
  BY DEF Those
<1> HIDE DEF losses, withMfe, reached, withProfit, fully, S
<1> DEFINE K0 == 1..Len(rows)
           K1 == {n \in K0 : rows[n] \in Lost}
           K2 == {n \in K1 : rows[n] \in Told1}
           K3 == {n \in K2 : rows[n] \in Ahead}
           L1 == {n \in K0 : rows[n] \in Profit}
           L2 == {n \in L1 : rows[n] \in Back}
<1>5. \E b : InOrder(b, rows, rows, K0)
  <2> DEFINE b == [n \in 1..Len(rows) |-> n]
  <2>1. InOrder(b, rows, rows, K0)
    BY <1>1 DEF InOrder
  <2> QED BY <2>1
<1>6. K0 \subseteq 1..Len(rows) /\ K1 \subseteq 1..Len(rows) /\ K2 \subseteq 1..Len(rows)
      /\ K3 \subseteq 1..Len(rows) /\ L1 \subseteq 1..Len(rows) /\ L2 \subseteq 1..Len(rows)
  OBVIOUS
<1>7. ASSUME NEW r \in Seq(S)
      PROVE  DOMAIN r = 1..Len(r) /\ \A i \in DOMAIN r : r[i] \in S
  BY LenProperties, ElementOfSeq
<1>8. losses \in Seq(S) /\ \E b : InOrder(b, losses, rows, K1)
  <2> DEFINE I == {i \in DOMAIN rows : rows[i] \in Lost}
  <2>1. losses = Sublist(rows, I)
    <3>1. I = {i \in DOMAIN rows : rows[i].net_pnl < 0}
      BY <1>1, <1>7
    <3> QED BY <1>4, <3>1
  <2>2. PICK b : InOrder(b, rows, rows, K0)
    BY <1>5
  <2> HIDE DEF Lost
  <2>3. Chosen(S, rows, Len(rows), K0, rows, b, Lost, I, K1)
    BY <1>1, <1>6, <2>2 DEF Chosen
  <2>4. Sublist(rows, I) \in Seq(S) /\ \E d : InOrder(d, Sublist(rows, I), rows, K1)
    BY ONLY <2>3, InOrderOf
  <2> QED BY <2>1, <2>4
<1>9. withMfe \in Seq(S) /\ \E b : InOrder(b, withMfe, rows, K2)
  <2> DEFINE I == {i \in DOMAIN losses : losses[i] \in Told1}
  <2>1. withMfe = Sublist(losses, I)
    <3>1. I = {i \in DOMAIN losses : losses[i].mfe # Missing}
      BY <1>7, <1>8
    <3> QED BY <1>4, <3>1
  <2>2. PICK b : InOrder(b, losses, rows, K1)
    BY <1>8
  <2> HIDE DEF Lost, Told1, K1
  <2>3. Chosen(S, rows, Len(rows), K1, losses, b, Told1, I, K2)
    BY <1>1, <1>6, <1>8, <2>2 DEF Chosen
  <2>4. Sublist(losses, I) \in Seq(S) /\ \E d : InOrder(d, Sublist(losses, I), rows, K2)
    BY ONLY <2>3, InOrderOf
  <2> QED BY <2>1, <2>4
<1>10. reached \in Seq(S) /\ \E b : InOrder(b, reached, rows, K3)
  <2> DEFINE I == {i \in DOMAIN withMfe : withMfe[i] \in Ahead}
  <2>1. reached = Sublist(withMfe, I)
    <3>1. I = {i \in DOMAIN withMfe : withMfe[i].mfe > 0}
      BY <1>7, <1>9
    <3> QED BY <1>4, <3>1
  <2>2. PICK b : InOrder(b, withMfe, rows, K2)
    BY <1>9
  <2> HIDE DEF Ahead, K2
  <2>3. Chosen(S, rows, Len(rows), K2, withMfe, b, Ahead, I, K3)
    BY <1>1, <1>6, <1>9, <2>2 DEF Chosen
  <2>4. Sublist(withMfe, I) \in Seq(S) /\ \E d : InOrder(d, Sublist(withMfe, I), rows, K3)
    BY ONLY <2>3, InOrderOf
  <2> QED BY <2>1, <2>4
<1>11. withProfit \in Seq(S) /\ \E b : InOrder(b, withProfit, rows, L1)
  <2> DEFINE I == {i \in DOMAIN rows : rows[i] \in Profit}
  <2>1. withProfit = Sublist(rows, I)
    <3>1. I = {i \in DOMAIN rows : rows[i].mfe # Missing /\ rows[i].mfe > 0}
      BY <1>1, <1>7
    <3> QED BY <1>4, <3>1
  <2>2. PICK b : InOrder(b, rows, rows, K0)
    BY <1>5
  <2> HIDE DEF Profit
  <2>3. Chosen(S, rows, Len(rows), K0, rows, b, Profit, I, L1)
    BY <1>1, <1>6, <2>2 DEF Chosen
  <2>4. Sublist(rows, I) \in Seq(S) /\ \E d : InOrder(d, Sublist(rows, I), rows, L1)
    BY ONLY <2>3, InOrderOf
  <2> QED BY <2>1, <2>4
<1>12. fully \in Seq(S) /\ \E b : InOrder(b, fully, rows, L2)
  <2> DEFINE I == {i \in DOMAIN withProfit : withProfit[i] \in Back}
  <2>1. fully = Sublist(withProfit, I)
    <3>1. I = {i \in DOMAIN withProfit :
                  withProfit[i].mfe - withProfit[i].net_pnl >= withProfit[i].mfe}
      BY <1>7, <1>11
    <3> QED BY <1>4, <3>1
  <2>2. PICK b : InOrder(b, withProfit, rows, L1)
    BY <1>11
  <2> HIDE DEF Back, L1
  <2>3. Chosen(S, rows, Len(rows), L1, withProfit, b, Back, I, L2)
    BY <1>1, <1>6, <1>11, <2>2 DEF Chosen
  <2>4. Sublist(withProfit, I) \in Seq(S) /\ \E d : InOrder(d, Sublist(withProfit, I), rows, L2)
    BY ONLY <2>3, InOrderOf
  <2> QED BY <2>1, <2>4
<1>13. Len(reached) = Cardinality(K3) /\ Len(fully) = Cardinality(L2)
  <2> HIDE DEF K3, L2
  <2> QED BY <1>1, <1>6, <1>10, <1>12, InOrderLength
<1>14. K3 = {n \in DOMAIN rows : /\ rows[n].mfe # Missing /\ rows[n].mfe > 0
                                /\ rows[n].net_pnl < 0}
  BY <1>1, <1>2
<1>15. L2 = {n \in DOMAIN rows : /\ rows[n].mfe # Missing /\ rows[n].mfe > 0
                                /\ rows[n].net_pnl <= 0}
  <2>1. ASSUME NEW n \in 1..Len(rows)
        PROVE  n \in L2 <=> /\ rows[n].mfe # Missing /\ rows[n].mfe > 0
                            /\ rows[n].net_pnl <= 0
    <3>1. rows[n] \in S /\ rows[n].net_pnl \in Int /\ rows[n].mfe \in Int \cup {Missing}
      BY <1>2 DEF Counted, S
    <3>2. n \in L2 <=> /\ rows[n].mfe # Missing /\ rows[n].mfe > 0
                       /\ rows[n].mfe - rows[n].net_pnl >= rows[n].mfe
      BY <3>1
    <3> HIDE DEF L2
    <3>3. CASE rows[n].mfe = Missing
      BY <3>2, <3>3
    <3>4. CASE rows[n].mfe \in Int
      <4>1. PICK x \in Int, y \in Int : x = rows[n].mfe /\ y = rows[n].net_pnl
        BY <3>1, <3>4
      <4>2. x - y >= x <=> y <= 0
        OBVIOUS
      <4> QED BY <3>2, <4>1, <4>2
    <3> QED BY <3>1, <3>3, <3>4
  <2>2. L2 \subseteq 1..Len(rows)
    OBVIOUS
  <2> HIDE DEF L2
  <2> QED BY <1>1, <2>1, <2>2
<1> QED
  BY <1>3, <1>13, <1>14, <1>15

\* The rows of the context report are of whole numbers.
LEMMA ContextIsCounted ==
    ASSUME LogInv, Joined
    PROVE  /\ output.rows = BuildTradeContext(input)
           /\ Counted(output.rows)
<1> DEFINE rows == output.rows
           raw == AuditTrades(input)
           trades == NormalizedTrades(raw)
<1>1. /\ input \in Seq(ToSet(input)) /\ rows = BuildTradeContext(input) /\ ValidTrades(raw)
  BY RowsOfLog
<1>2. /\ Carries(rows, trades, TradeColumns)
      /\ Gives(rows, input, OfType(input, "TRADE_ANALYTICS"), "mfe", "mfe")
      /\ \A k \in 1..Len(rows) :
            rows[k].reached_unrealized_profit_before_loss
               = (rows[k].mfe # Missing /\ rows[k].mfe > 0 /\ rows[k].net_pnl < 0)
  <2> HIDE DEF rows
  <2> QED BY <1>1, ContextRows
<1>3. raw \in Seq(ToSet(raw)) /\ \A x \in ToSet(raw) : x.net_pnl \in Int
  <2>1. raw \in Seq(ToSet(raw))
    BY <1>1, TradesOfLog
  <2> HIDE DEF raw
  <2> QED BY <1>1, <2>1, ValidIsSound DEF SoundTrades
<1> HIDE DEF raw
<1>4. trades \in Seq(ToSet(raw))
  BY <1>3, SortedRows
<1> HIDE DEF rows, trades
<1>5. \A k \in 1..Len(trades) : trades[k].net_pnl \in Int
  BY <1>3, <1>4, ElementOfSeq
<1>6. rows \in Seq(ToSet(rows)) /\ Len(rows) = Len(trades)
      /\ \A k \in 1..Len(rows) : rows[k].net_pnl = trades[k].net_pnl
  BY <1>2 DEF Carries, TradeColumns
<1>7. \A k \in 1..Len(rows) : rows[k].net_pnl \in Int
  BY <1>5, <1>6
<1>8. \A k \in 1..Len(rows) : rows[k].mfe \in Int \cup {Missing}
  BY <1>2 DEF Gives, Told, Number
<1>9. ToSet(rows) = {rows[k] : k \in 1..Len(rows)}
  BY <1>6, ToSetOfSeq
<1>10. Counted(rows)
  BY <1>2, <1>6, <1>7, <1>8, <1>9 DEF Counted
<1> QED
  BY <1>1, <1>10 DEF rows

\* Losses after a profit and break-evens after a profit are all reversals.
LEMMA ReversalsCounted ==
    ASSUME LogInv
    PROVE  ReversalsAgree
<1> SUFFICES ASSUME Joined
             PROVE  ReversalsAgree
  BY DEF ReversalsAgree
<1> DEFINE rows == output.rows
           Reached(row) == row.reached_unrealized_profit_before_loss
           Even(row) == row.net_pnl = 0 /\ row.mfe # Missing /\ row.mfe > 0
           K == {n \in DOMAIN rows : Reached(rows[n])}
           L == {n \in DOMAIN rows : Even(rows[n])}
           B == {n \in DOMAIN rows : /\ rows[n].mfe # Missing /\ rows[n].mfe > 0
                                     /\ rows[n].net_pnl <= 0}
<1>1. Counted(rows)
  BY ContextIsCounted
<1>2. /\ output.reversal = ReversalFromProfitSummary(rows)
      /\ output.giveback = GivebackSummary(rows)
  <2>1. output = ContextSummaries(BuildTradeContext(input)) /\ rows = BuildTradeContext(input)
    BY RowsOfLog
  <2> QED BY <2>1 DEF ContextSummaries
<1> HIDE DEF rows
<1>3. rows \in Seq(ToSet(rows)) /\ DOMAIN rows = 1..Len(rows) /\ Len(rows) \in Nat
      /\ \A n \in 1..Len(rows) : rows[n] \in ToSet(rows)
  <2>1. rows \in Seq(ToSet(rows))
    BY <1>1 DEF Counted
  <2> QED BY <2>1, LenProperties, ElementOfSeq
<1>4. \A n \in 1..Len(rows) :
         /\ rows[n].net_pnl \in Int /\ rows[n].mfe \in Int \cup {Missing}
         /\ Reached(rows[n])
               = (rows[n].mfe # Missing /\ rows[n].mfe > 0 /\ rows[n].net_pnl < 0)
  BY <1>1, <1>3 DEF Counted
<1>5. /\ output.reversal.reached_unrealized_profit = Cardinality(K)
      /\ output.giveback.fully_reversed = Cardinality(B)
  <2>1. K = {n \in DOMAIN rows : /\ rows[n].mfe # Missing /\ rows[n].mfe > 0
                                /\ rows[n].net_pnl < 0}
    BY <1>3, <1>4
  <2> QED BY <1>1, <1>2, <2>1, CountedReversals
<1>6. /\ Len(Those(rows, LAMBDA row : row.reached_unrealized_profit_before_loss)) = Cardinality(K)
      /\ Len(Those(rows, LAMBDA row : /\ row.net_pnl = 0
                                      /\ row.mfe # Missing
                                      /\ row.mfe > 0)) = Cardinality(L)
  <2>1. /\ Those(rows, LAMBDA row : row.reached_unrealized_profit_before_loss) = Sublist(rows, K)
        /\ Those(rows, LAMBDA row : /\ row.net_pnl = 0
                                    /\ row.mfe # Missing
                                    /\ row.mfe > 0) = Sublist(rows, L)
    BY DEF Those
  <2>2. K \cap (1..Len(rows)) = K /\ L \cap (1..Len(rows)) = L
    BY <1>3
  <2> HIDE DEF K, L
  <2>3. /\ Len(Sublist(rows, K)) = Cardinality(K \cap (1..Len(rows)))
        /\ Len(Sublist(rows, L)) = Cardinality(L \cap (1..Len(rows)))
    BY <1>3, SublistLength
  <2> QED BY <2>1, <2>2, <2>3
<1>7. Cardinality(B) = Cardinality(K) + Cardinality(L)
  <2>1. K \subseteq 1..Len(rows) /\ L \subseteq 1..Len(rows)
    BY <1>3
  <2>2. ASSUME NEW n \in 1..Len(rows)
        PROVE  /\ ~ (n \in K /\ n \in L)
               /\ n \in B <=> n \in K \/ n \in L
    <3>1. PICK y \in Int : y = rows[n].net_pnl
      BY <1>4
    <3>2. /\ n \in K <=> rows[n].mfe # Missing /\ rows[n].mfe > 0 /\ y < 0
          /\ n \in L <=> rows[n].mfe # Missing /\ rows[n].mfe > 0 /\ y = 0
          /\ n \in B <=> rows[n].mfe # Missing /\ rows[n].mfe > 0 /\ y <= 0
      BY <1>3, <1>4, <3>1
    <3> HIDE DEF K, L, B
    <3> QED BY <3>1, <3>2
  <2>3. B \subseteq 1..Len(rows)
    BY <1>3
  <2> HIDE DEF K, L, B
  <2>4. B = K \cup L /\ K \cap L = {}
    BY <2>1, <2>2, <2>3
  <2>5. Cardinality(K \cup L) = Cardinality(K) + Cardinality(L)
    BY ONLY <1>3, <2>1, <2>4, Apart, ZenonT(30)
  <2> QED BY <2>4, <2>5
<1> QED
  BY <1>5, <1>6, <1>7 DEF ReversalsAgree, rows

\* The two summaries of reversals agree on every log (reversal_from_profit_summary and
\* mfe_giveback_summary of trade_breakdown.py).
THEOREM ReversalsAlwaysAgree == Spec => []ReversalsAgree
BY ReportsAreOfTheLog, ReversalsCounted, PTL

-----------------------------------------------------------------------------
(* Breakdowns that add up.                                                 *)

Kinds(K, D, key, size) ==
    /\ \A n \in K : key[n] \in D
    /\ size \in [D -> Int]
    /\ \A g \in D : size[g] = Cardinality({n \in K : key[n] = g})

\* The sizes of the kinds of a set of positions add up.
LEMMA KindsAddUp ==
    ASSUME NEW l \in Nat, NEW K, K \subseteq 1..l, NEW D, IsFiniteSet(D), NEW key, NEW size,
           Kinds(K, D, key, size)
    PROVE  Total(size) = Cardinality(K)
<1> DEFINE Of(A) == {n \in K : key[n] \in A}
           H == [A \in SUBSET D |-> Cardinality(Of(A))]
<1>1. \A A \in SUBSET D : H[A] = Cardinality(Of(A))
  OBVIOUS
<1>2. \A A : Of(A) \subseteq 1..l
  OBVIOUS
<1>3. H = [A \in SUBSET D |-> H[A]]
  OBVIOUS
<1>4. Of({}) = {} /\ Of(D) = K
  BY DEF Kinds
<1>5. \A A \in SUBSET D : \A x \in A :
         Of(A) = {n \in K : key[n] = x} \cup Of(A \ {x})
         /\ {n \in K : key[n] = x} \cap Of(A \ {x}) = {}
         /\ {n \in K : key[n] = x} \subseteq 1..l
  OBVIOUS
<1> HIDE DEF H, Of
<1>6. \A A \in SUBSET D : H[A] \in Int
  BY <1>1, <1>2, PositionsFinite
<1>7. H[{}] = 0
  BY <1>1, <1>4, FS_EmptySet
<1>8. ASSUME NEW A \in SUBSET D, NEW x \in A
      PROVE  H[A] = size[x] + H[A \ {x}]
  <2> DEFINE X == {n \in K : key[n] = x}
             Y == Of(A \ {x})
  <2>1. Of(A) = X \cup Y /\ X \cap Y = {} /\ X \subseteq 1..l
    BY <1>5
  <2>2. H[A] = Cardinality(Of(A)) /\ H[A \ {x}] = Cardinality(Y)
    BY <1>1
  <2>3. size[x] = Cardinality(X)
    BY DEF Kinds
  <2>4. Y \subseteq 1..l
    BY <1>2
  <2> HIDE DEF X, Y
  <2>5. Cardinality(X \cup Y) = Cardinality(X) + Cardinality(Y)
    BY ONLY l \in Nat, <2>1, <2>4, Apart, ZenonT(30)
  <2> QED BY <2>1, <2>2, <2>3, <2>5
<1>9. Adds(H, size, D)
  <2>1. H \in [SUBSET D -> Int]
    BY <1>3, <1>6
  <2> QED BY <1>7, <1>8, <2>1 DEF Adds
<1>10. size \in [D -> Int]
  BY DEF Kinds
<1>11. Total(size) = H[D]
  BY ONLY IsFiniteSet(D), <1>9, <1>10, TotalAdds
<1> QED
  BY <1>1, <1>4, <1>11

\* The positions whose row has a value in this column.
Having(rows, name) == {n \in 1..Len(rows) : rows[n][name] # Missing}

\* A breakdown counts every row whose column has a value.
LEMMA BreakdownCounts ==
    ASSUME NEW rows, rows \in Seq(ToSet(rows)), NEW name
    PROVE  Counts(BreakdownBy(rows, name)) = Cardinality(Having(rows, name))
<1> DEFINE groups == BreakdownBy(rows, name)
           D == ToSet(Column(rows, name)) \ {Missing}
           K == Having(rows, name)
           key == [n \in 1..Len(rows) |-> rows[n][name]]
           size == [g \in DOMAIN groups |-> groups[g].number_of_trades]
           part(g) == {n \in DOMAIN rows : rows[n][name] = g}
<1>1. DOMAIN rows = 1..Len(rows) /\ Len(rows) \in Nat
  BY LenProperties
<1>2. DOMAIN groups = D /\ \A g \in D : groups[g] = AggregateTradeGroup(Sublist(rows, part(g)))
  BY DEF BreakdownBy, Those
<1>3. \A n \in 1..Len(rows) : key[n] = rows[n][name]
  OBVIOUS
<1>4. D = {key[n] : n \in 1..Len(rows)} \ {Missing}
  BY <1>1 DEF ToSet, Column
<1>5. IsFiniteSet(D)
  <2>1. IsFiniteSet(1..Len(rows))
    BY <1>1, FS_Interval
  <2> HIDE DEF key, D
  <2>2. IsFiniteSet({key[n] : n \in 1..Len(rows)})
    BY <2>1, FiniteImage
  <2> QED BY <1>4, <2>2, FS_Difference
<1>6. K \subseteq 1..Len(rows) /\ \A n \in K : key[n] \in D
  <2> HIDE DEF key, D
  <2> QED BY <1>3, <1>4 DEF Having
<1>7. ASSUME NEW g \in D
      PROVE  size[g] = Cardinality({n \in K : key[n] = g}) /\ size[g] \in Int
  <2>1. size[g] = groups[g].number_of_trades
    BY <1>2
  <2>2. groups[g].number_of_trades = Len(Sublist(rows, part(g)))
    BY <1>2, GroupOfTrades
  <2>3. part(g) \cap (1..Len(rows)) = {n \in K : key[n] = g}
    <3>1. g # Missing
      OBVIOUS
    <3> HIDE DEF key
    <3> QED BY <1>1, <1>3, <3>1 DEF Having
  <2> HIDE DEF size, part, key, K
  <2>4. Len(Sublist(rows, part(g))) = Cardinality(part(g) \cap (1..Len(rows)))
    BY SublistLength
  <2>5. Len(Sublist(rows, part(g))) \in Nat
    BY SublistPicks, LenProperties
  <2>6. size[g] = Len(Sublist(rows, part(g)))
    BY ONLY <2>1, <2>2
  <2>7. Len(Sublist(rows, part(g))) = Cardinality({n \in K : key[n] = g})
    BY ONLY <2>3, <2>4
  <2> QED BY ONLY <2>5, <2>6, <2>7
<1>8. size = [g \in D |-> size[g]]
  BY <1>2
<1> HIDE DEF size, D, key, K
<1>9. Kinds(K, D, key, size)
  <2>1. size \in [D -> Int]
    BY <1>7, <1>8
  <2> QED BY <1>6, <1>7, <2>1 DEF Kinds
<1>10. Total(size) = Cardinality(K)
  BY ONLY <1>1, <1>5, <1>6, <1>9, KindsAddUp
<1> QED
  BY <1>10 DEF Counts, size, K

\* The rows that have a value in this column.
LEMMA TriggeredRows ==
    ASSUME NEW rows, rows \in Seq(ToSet(rows)), NEW name
    PROVE  /\ Len(Triggered(rows, name)) = Cardinality(Having(rows, name))
           /\ Triggered(rows, name) \in Seq(ToSet(Triggered(rows, name)))
           /\ \A i \in 1..Len(Triggered(rows, name)) : \E n \in 1..Len(rows) :
                 /\ Triggered(rows, name)[i] = rows[n]
                 /\ rows[n][name] # Missing
<1> DEFINE P == {n \in DOMAIN rows : rows[n][name] # Missing}
           r == Triggered(rows, name)
<1>1. DOMAIN rows = 1..Len(rows) /\ Len(rows) \in Nat
  BY LenProperties
<1>2. r = Sublist(rows, P)
  BY DEF Triggered, Those
<1>3. P \cap (1..Len(rows)) = Having(rows, name)
  BY <1>1 DEF Having
<1>4. \A n \in Having(rows, name) : n \in 1..Len(rows) /\ rows[n][name] # Missing
  BY DEF Having
<1> HIDE DEF P, r
<1>5. Len(r) = Cardinality(Having(rows, name))
  BY <1>2, <1>3, SublistLength
<1>6. r \in Seq(ToSet(rows)) /\ \E b : Picks(b, r, rows, Having(rows, name))
  BY <1>2, <1>3, SublistPicks
<1>7. r \in Seq(ToSet(r))
  BY <1>6, ToSetOfSeq
<1>8. ASSUME NEW i \in 1..Len(r)
      PROVE  \E n \in 1..Len(rows) : r[i] = rows[n] /\ rows[n][name] # Missing
  <2>1. PICK b : Picks(b, r, rows, Having(rows, name))
    BY <1>6
  <2>2. r[i] = rows[b[i]] /\ b[i] \in Having(rows, name)
    BY <2>1 DEF Picks
  <2> QED BY <1>4, <2>2
<1> QED
  BY <1>5, <1>7, <1>8 DEF r

\* Where every row has a value, the breakdown counts them all.
LEMMA AllCounted ==
    ASSUME NEW rows, rows \in Seq(ToSet(rows)), NEW name,
           \A n \in 1..Len(rows) : rows[n][name] # Missing
    PROVE  Counts(BreakdownBy(rows, name)) = AggregateTradeGroup(rows).number_of_trades
<1>1. Len(rows) \in Nat
  BY LenProperties
<1>2. Having(rows, name) = 1..Len(rows)
  BY DEF Having
<1>3. Cardinality(1..Len(rows)) = Len(rows)
  <2>1. 1 \in Int /\ Len(rows) \in Int
    BY <1>1
  <2>2. Cardinality(1..Len(rows)) = IF 1 > Len(rows) THEN 0 ELSE Len(rows) - 1 + 1
    BY <2>1, FS_Interval
  <2> QED BY <1>1, <2>2
<1> QED
  BY <1>2, <1>3, BreakdownCounts, GroupOfTrades

\* Bands have finitely many edges, and an interval is a number.
LEMMA IntervalsAreNumbers ==
    ASSUME NEW values, NEW x
    PROVE  Interval(x, Edges(values)) \in Int
<1> DEFINE edge == [q \in 0..3 |-> Quantile(values, q)]
           E == Edges(values)
           below == {e \in E \ {Min(E)} : e < 3 * x}
<1>1. E = {edge[q] : q \in 0..3}
  BY DEF Edges
<1>2. IsFiniteSet(0..3)
  <2>1. 0 \in Int /\ 3 \in Int
    OBVIOUS
  <2> QED BY ONLY <2>1, FS_Interval
<1> HIDE DEF edge, E
<1>3. IsFiniteSet(E)
  BY <1>1, <1>2, FiniteImage
<1>4. IsFiniteSet(below)
  BY <1>3, FS_Subset
<1> HIDE DEF below
<1>5. Cardinality(below) \in Nat
  BY <1>4, FS_CardinalityType
<1>6. Interval(x, E) = 1 + Cardinality(below)
  BY DEF Interval, below
<1> QED
  BY <1>5, <1>6 DEF E

Bands(bands, values) ==
    \/ \A k \in 1..Len(values) : bands[k] = Missing
    \/ \A k \in 1..Len(values) : bands[k] = Missing <=> values[k] = Missing

\* Of the rows that have a value all are in a band, or none is.
LEMMA BandsOfValues ==
    ASSUME NEW values, values \in Seq(ToSet(values))
    PROVE  /\ Bands(QuantileBand(values), values)
           /\ Len(Present(values)) = Cardinality({k \in 1..Len(values) : values[k] # Missing})
<1> DEFINE few == Cardinality(ToSet(Present(values))) < 2
           P == {k \in DOMAIN values : values[k] # Missing}
<1>1. DOMAIN values = 1..Len(values)
  BY LenProperties
<1>2. \A k \in 1..Len(values) :
         QuantileBand(values)[k] = IF values[k] = Missing \/ few THEN Missing
                                   ELSE Interval(values[k], Edges(Present(values)))
  BY <1>1 DEF QuantileBand
<1>3. \A k \in 1..Len(values) : Interval(values[k], Edges(Present(values))) # Missing
  BY IntervalsAreNumbers, TradeReportsAssumption
<1>4. Present(values) = Sublist(values, P)
  BY DEF Present, Those
<1>5. P \cap (1..Len(values)) = {k \in 1..Len(values) : values[k] # Missing}
  BY <1>1
<1> HIDE DEF few, P
<1>6. Len(Present(values)) = Cardinality({k \in 1..Len(values) : values[k] # Missing})
  BY <1>4, <1>5, SublistLength
<1> QED
  BY <1>2, <1>3, <1>6 DEF Bands

\* The bands of the context are those of the columns.
LEMMA BandedBands ==
    ASSUME NEW rows, NEW atr, NEW mfe, NEW hold, NEW k \in DOMAIN rows
    PROVE  /\ Banded(rows, atr, mfe, hold)[k].atr_band = atr[k]
           /\ Banded(rows, atr, mfe, hold)[k].mfe_band = mfe[k]
<1> DEFINE derived == DerivedColumns(rows[k], RMultiple(rows[k].mfe, rows[k].risk_budget))
           bands == [atr_band |-> atr[k], mfe_band |-> mfe[k], hold_time_band |-> hold[k]]
           added == With(bands, derived)
           row == Banded(rows, atr, mfe, hold)[k]
<1>1. row = With(rows[k], added)
  BY DEF Banded
<1>2. DOMAIN derived = {"r_multiple", "mfe_r", "session", "close_session",
                        "reached_unrealized_profit_before_loss", "reached_tp_equivalent_r"}
  BY DEF DerivedColumns
<1>3. /\ DOMAIN bands = {"atr_band", "mfe_band", "hold_time_band"}
      /\ bands.atr_band = atr[k] /\ bands.mfe_band = mfe[k]
  OBVIOUS
<1> HIDE DEF derived, bands, row
<1>4. ASSUME NEW name \in DOMAIN bands
      PROVE  name \in DOMAIN added /\ (name \notin DOMAIN derived => added[name] = bands[name])
  BY DEF With
<1> HIDE DEF added
<1>5. ASSUME NEW name \in DOMAIN added
      PROVE  row[name] = added[name]
  BY <1>1 DEF With
<1>6. row["atr_band"] = bands["atr_band"] /\ row["mfe_band"] = bands["mfe_band"]
  BY <1>2, <1>3, <1>4, <1>5
<1> QED
  BY <1>3, <1>6 DEF row

Numeric(rows, names) ==
    \A k \in 1..Len(rows) : \A name \in names : rows[k][name] \in Int \cup {Missing}

\* The rows of trades, with columns of numbers on top.
Priced(rows, names) == HaveColumns(rows, TradeColumns \cup names) /\ Numeric(rows, names)

\* A join leaves the numbers that a row has.
LEMMA PricedOn ==
    ASSUME NEW rows, NEW names, Priced(rows, names), NEW m, NEW more,
           names \subseteq more, Carries(m, rows, TradeColumns \cup more)
    PROVE  Priced(m, names)
<1>1. \A k \in 1..Len(m) : \A name \in TradeColumns \cup names :
         name \in DOMAIN m[k] /\ m[k][name] = rows[k][name]
  BY DEF Carries
<1>2. m \in Seq(ToSet(m)) /\ Len(m) = Len(rows)
  BY DEF Carries
<1>3. \A k \in 1..Len(rows) : \A name \in names : rows[k][name] \in Int \cup {Missing}
  BY DEF Priced, Numeric
<1>4. HaveColumns(m, TradeColumns \cup names)
  BY <1>1, <1>2 DEF HaveColumns
<1>5. Numeric(m, names)
  BY <1>1, <1>2, <1>3 DEF Numeric
<1> QED
  BY <1>4, <1>5 DEF Priced

\* A join with other columns, too.
LEMMA JoinKeepsPriced ==
    ASSUME NEW rows, NEW names, Priced(rows, names), NEW c, NEW cols, Context(c, cols),
           (TradeColumns \cup names) \cap cols = {}, NEW absent, DOMAIN absent = cols
    PROVE  Priced(Merge(rows, c, absent), names)
<1>1. HaveColumns(rows, TradeColumns \cup names) /\ "trade_candidate_id" \in TradeColumns \cup names
  BY DEF Priced, TradeColumns
<1>2. Carries(Merge(rows, c, absent), rows, TradeColumns \cup names)
  BY <1>1, JoinStep
<1> QED
  BY <1>2, PricedOn

\* And adds those that the context has.
LEMMA JoinAddsNumbers ==
    ASSUME NEW rows, NEW names, Priced(rows, names), NEW c, NEW cols, Context(c, cols),
           (TradeColumns \cup names) \cap cols = {}, NEW absent, DOMAIN absent = cols,
           NEW more, more \subseteq cols, Numeric(c, more),
           \A name \in more : absent[name] = Missing
    PROVE  Priced(Merge(rows, c, absent), names \cup more)
<1> DEFINE m == Merge(rows, c, absent)
<1>1. Priced(m, names)
  BY JoinKeepsPriced
<1>2. rows \in Seq(ToSet(rows))
  BY DEF Priced, HaveColumns
<1>3. \A k \in 1..Len(rows) :
         m[k] = With(rows[k], absent) \/ \E j \in 1..Len(c) : m[k] = With(rows[k], c[j])
  BY <1>2, MergeRows
<1>4. Len(m) = Len(rows)
  BY <1>2, MergeRows
<1>5. \A j \in 1..Len(c) : cols \subseteq DOMAIN c[j]
  BY DEF Context
<1> HIDE DEF m
<1>6. ASSUME NEW k \in 1..Len(m), NEW name \in more
      PROVE  name \in DOMAIN m[k] /\ m[k][name] \in Int \cup {Missing}
  <2>1. CASE m[k] = With(rows[k], absent)
    BY <2>1 DEF With
  <2>2. ASSUME NEW j \in 1..Len(c), m[k] = With(rows[k], c[j])
        PROVE  name \in DOMAIN m[k] /\ m[k][name] \in Int \cup {Missing}
    <3>1. name \in DOMAIN c[j] /\ c[j][name] \in Int \cup {Missing}
      BY <1>5 DEF Numeric
    <3>2. name \in DOMAIN m[k] /\ m[k][name] = c[j][name]
      BY <2>2, <3>1 DEF With
    <3> QED BY <3>1, <3>2
  <2> QED BY <1>3, <1>4, <2>1, <2>2
<1>7. \A k \in 1..Len(m) : \A name \in names \cup more : m[k][name] \in Int \cup {Missing}
  BY <1>1, <1>6 DEF Priced, Numeric
<1>8. \A k \in 1..Len(m) : TradeColumns \cup (names \cup more) \subseteq DOMAIN m[k]
  BY <1>1, <1>6 DEF Priced, HaveColumns
<1>9. m \in Seq(ToSet(m))
  BY <1>1 DEF Priced, HaveColumns
<1> QED
  BY <1>7, <1>8, <1>9 DEF Priced, HaveColumns, Numeric, m

\* Two sequences with the same positions.
LEMMA SameLength ==
    ASSUME NEW c, NEW f, DOMAIN c = 1..Len(c), Len(c) \in Nat, DOMAIN f = 1..Len(f), Len(f) \in Nat,
           DOMAIN c = DOMAIN f
    PROVE  Len(c) = Len(f)
<1>1. PICK m \in Nat, n \in Nat : m = Len(c) /\ n = Len(f) /\ 1..m = 1..n
  OBVIOUS
<1>2. m = n
  BY ONLY <1>1
<1> QED
  BY <1>1, <1>2

PriceColumns ==
    {"entry_atr", "entry_spread_points", "mfe", "point_value", "exit_spread_points"}

\* What the contexts say in numbers.
LEMMA NumericContexts ==
    ASSUME NEW V, NEW log \in Seq(V)
    PROVE  /\ Numeric(CandidateContext(log), {"entry_atr", "entry_spread_points"})
           /\ Numeric(AnalyticsContext(log), {"mfe"})
           /\ Numeric(ClosedContext(log), {"point_value", "exit_spread_points"})
           /\ Numeric(OrderSubmissionContext(log), {"entry_slippage_points"})
<1>1. ASSUME NEW type
      PROVE  /\ DOMAIN FirstPerCandidate(Records(log, type))
                  = 1..Len(FirstPerCandidate(Records(log, type)))
             /\ Len(FirstPerCandidate(Records(log, type))) \in Nat
  BY FirstsOfType DEF Firsts
<1>2. /\ DOMAIN FirstPerCandidate(Concluded(log, "ORDER_SUBMISSION", "ACCEPTED"))
           = 1..Len(FirstPerCandidate(Concluded(log, "ORDER_SUBMISSION", "ACCEPTED")))
      /\ Len(FirstPerCandidate(Concluded(log, "ORDER_SUBMISSION", "ACCEPTED"))) \in Nat
  BY FirstsOfStatus DEF Firsts
<1>3. \A x : Number(x) \in Int \cup {Missing}
  BY DEF Number
<1>4. Numeric(CandidateContext(log), {"entry_atr", "entry_spread_points"})
  <2> DEFINE f == FirstPerCandidate(Records(log, "CANDIDATE"))
             c == CandidateContext(log)
  <2>1. \A k \in DOMAIN f : /\ c[k]["entry_atr"] = Number(f[k].atr)
                           /\ c[k]["entry_spread_points"] = Number(f[k].spread_points)
    <3> HIDE DEF f
    <3> QED BY DEF CandidateContext, Columns, With, f
  <2>2. DOMAIN c = DOMAIN f /\ c = [k \in DOMAIN f |-> c[k]]
    <3> HIDE DEF f
    <3> QED BY DEF CandidateContext, Columns, f
  <2>3. Len(c) = Len(f)
    <3>1. Context(c, {"entry_atr", "entry_spread_points", "risk_reward_ratio"})
      BY ContextsOfLog
    <3>2. DOMAIN c = 1..Len(c) /\ Len(c) \in Nat
      <4> HIDE DEF c
      <4> QED BY <3>1, LenProperties DEF Context
    <3> HIDE DEF c, f
    <3>3. DOMAIN f = 1..Len(f) /\ Len(f) \in Nat
      BY <1>1 DEF f
    <3> QED BY ONLY <2>2, <3>2, <3>3, SameLength
  <2>4. DOMAIN f = 1..Len(f)
    BY <1>1
  <2> HIDE DEF c, f
  <2> QED BY <1>3, <2>1, <2>3, <2>4 DEF Numeric, c
<1>5. Numeric(AnalyticsContext(log), {"mfe"})
  <2> DEFINE f == FirstPerCandidate(Records(log, "TRADE_ANALYTICS"))
             c == AnalyticsContext(log)
  <2>1. \A k \in DOMAIN f : c[k]["mfe"] = Number(f[k].mfe)
    <3> HIDE DEF f
    <3> QED BY DEF AnalyticsContext, Columns, With, f
  <2>2. DOMAIN c = DOMAIN f
    <3> HIDE DEF f
    <3> QED BY DEF AnalyticsContext, Columns, f
  <2>3. Len(c) = Len(f)
    <3>1. Context(c, {"mfe"})
      BY AnalyticsContextTells
    <3>2. DOMAIN c = 1..Len(c) /\ Len(c) \in Nat
      <4> HIDE DEF c
      <4> QED BY <3>1, LenProperties DEF Context
    <3> HIDE DEF c, f
    <3>3. DOMAIN f = 1..Len(f) /\ Len(f) \in Nat
      BY <1>1 DEF f
    <3> QED BY ONLY <2>2, <3>2, <3>3, SameLength
  <2>4. DOMAIN f = 1..Len(f)
    BY <1>1
  <2> HIDE DEF c, f
  <2> QED BY <1>3, <2>1, <2>3, <2>4 DEF Numeric, c
<1>6. Numeric(ClosedContext(log), {"point_value", "exit_spread_points"})
  <2> DEFINE f == FirstPerCandidate(Records(log, "TRADE_CLOSED"))
             c == ClosedContext(log)
  <2>1. \A k \in DOMAIN f : /\ c[k]["point_value"] = Number(f[k].point_value)
                           /\ c[k]["exit_spread_points"] = Number(f[k].exit_spread_points)
    <3> HIDE DEF f
    <3> QED BY DEF ClosedContext, Columns, With, f
  <2>2. DOMAIN c = DOMAIN f
    <3> HIDE DEF f
    <3> QED BY DEF ClosedContext, Columns, f
  <2>3. Len(c) = Len(f)
    <3>1. Context(c, {"point_value", "exit_spread_points"})
      BY ContextsOfLog
    <3>2. DOMAIN c = 1..Len(c) /\ Len(c) \in Nat
      <4> HIDE DEF c
      <4> QED BY <3>1, LenProperties DEF Context
    <3> HIDE DEF c, f
    <3>3. DOMAIN f = 1..Len(f) /\ Len(f) \in Nat
      BY <1>1 DEF f
    <3> QED BY ONLY <2>2, <3>2, <3>3, SameLength
  <2>4. DOMAIN f = 1..Len(f)
    BY <1>1
  <2> HIDE DEF c, f
  <2> QED BY <1>3, <2>1, <2>3, <2>4 DEF Numeric, c
<1>7. Numeric(OrderSubmissionContext(log), {"entry_slippage_points"})
  <2> DEFINE f == FirstPerCandidate(Concluded(log, "ORDER_SUBMISSION", "ACCEPTED"))
             c == OrderSubmissionContext(log)
  <2>1. \A k \in DOMAIN f : c[k]["entry_slippage_points"] = Number(f[k].slippage_points)
    <3> HIDE DEF f
    <3> QED BY DEF OrderSubmissionContext, Columns, With, f
  <2>2. DOMAIN c = DOMAIN f
    <3> HIDE DEF f
    <3> QED BY DEF OrderSubmissionContext, Columns, f
  <2>3. Len(c) = Len(f)
    <3>1. Context(c, {"entry_slippage_points"})
      BY OrderSubmissionContextTells
    <3>2. DOMAIN c = 1..Len(c) /\ Len(c) \in Nat
      <4> HIDE DEF c
      <4> QED BY <3>1, LenProperties DEF Context
    <3> HIDE DEF c, f
    <3>3. DOMAIN f = 1..Len(f) /\ Len(f) \in Nat
      BY <1>2 DEF f
    <3> QED BY ONLY <2>2, <3>2, <3>3, SameLength
  <2>4. DOMAIN f = 1..Len(f)
    BY <1>2
  <2> HIDE DEF c, f
  <2> QED BY <1>3, <2>1, <2>3, <2>4 DEF Numeric, c
<1> QED
  BY <1>4, <1>5, <1>6, <1>7

\* The joined rows have the numbers of all contexts.
LEMMA JoinedArePriced ==
    ASSUME NEW V, NEW log \in Seq(V)
    PROVE  Priced(JoinedRows(log), PriceColumns)
<1> DEFINE trades == NormalizedTrades(AuditTrades(log))
           candidate == Merge(trades, CandidateContext(log), [entry_atr |-> Missing, entry_spread_points |-> Missing, risk_reward_ratio |-> Missing])
           risk == Merge(candidate, RiskContext(log), [risk_budget |-> Missing])
           analytics == Merge(risk, AnalyticsContext(log), [mfe |-> Missing])
           closed == Merge(analytics, ClosedContext(log), [point_value |-> Missing, exit_spread_points |-> Missing])
           timeStop == Merge(closed, TimeStopContext(log), [time_stop_reason_code |-> Missing])
           rangeExit == Merge(timeStop, RangeExitContext(log), [range_exit_reason_code |-> Missing])
           reversal == Merge(rangeExit, TrendReversalContext(log), [trend_reversal_reason_code |-> Missing, trend_reversal_trend_direction |-> Missing])
           rows == Merge(reversal, EarlyAdverseExitContext(log), [early_adverse_exit_reason_code |-> Missing])
           quoted == {"entry_atr", "entry_spread_points"}
           excursion == {"entry_atr", "entry_spread_points", "mfe"}
<1>1. JoinedRows(log) = rows
  BY DEF JoinedRows
<1>2. HaveColumns(trades, TradeColumns)
  BY TradesHaveColumns
<1>3. /\ Context(CandidateContext(log), {"entry_atr", "entry_spread_points", "risk_reward_ratio"})
      /\ Context(RiskContext(log), {"risk_budget"})
      /\ Context(AnalyticsContext(log), {"mfe"})
      /\ Context(ClosedContext(log), {"point_value", "exit_spread_points"})
      /\ Context(TimeStopContext(log), {"time_stop_reason_code"})
      /\ Context(RangeExitContext(log), {"range_exit_reason_code"})
      /\ Context(TrendReversalContext(log), {"trend_reversal_reason_code", "trend_reversal_trend_direction"})
      /\ Context(EarlyAdverseExitContext(log), {"early_adverse_exit_reason_code"})
  BY ContextsOfLog, RiskContextTells, AnalyticsContextTells
<1>4. /\ Numeric(CandidateContext(log), quoted)
      /\ Numeric(AnalyticsContext(log), {"mfe"})
      /\ Numeric(ClosedContext(log), {"point_value", "exit_spread_points"})
  BY NumericContexts
<1>5. Priced(trades, {})
  <2> HIDE DEF trades
  <2>1. TradeColumns \cup {} = TradeColumns
    OBVIOUS
  <2> QED BY <1>2, <2>1 DEF Priced, Numeric
<1>6. Priced(candidate, quoted)
  <2>1. /\ (TradeColumns \cup {}) \cap {"entry_atr", "entry_spread_points", "risk_reward_ratio"} = {}
        /\ DOMAIN [entry_atr |-> Missing, entry_spread_points |-> Missing, risk_reward_ratio |-> Missing] = {"entry_atr", "entry_spread_points", "risk_reward_ratio"}
        /\ quoted \subseteq {"entry_atr", "entry_spread_points", "risk_reward_ratio"}
        /\ \A name \in quoted : [entry_atr |-> Missing, entry_spread_points |-> Missing, risk_reward_ratio |-> Missing][name] = Missing
        /\ {} \cup quoted = quoted
    BY DEF TradeColumns
  <2> HIDE DEF trades, quoted
  <2>2. Priced(candidate, {} \cup quoted)
    BY <1>3, <1>4, <1>5, <2>1, JoinAddsNumbers
  <2> QED BY <2>1, <2>2
<1>7. Priced(risk, quoted)
  <2>1. (TradeColumns \cup quoted) \cap {"risk_budget"} = {} /\ DOMAIN [risk_budget |-> Missing] = {"risk_budget"}
    BY DEF TradeColumns
  <2> HIDE DEF candidate, quoted
  <2> QED BY <1>3, <1>6, <2>1, JoinKeepsPriced
<1>8. Priced(analytics, excursion)
  <2>1. /\ (TradeColumns \cup quoted) \cap {"mfe"} = {} /\ DOMAIN [mfe |-> Missing] = {"mfe"}
        /\ \A name \in {"mfe"} : [mfe |-> Missing][name] = Missing
        /\ quoted \cup {"mfe"} = excursion
    BY DEF TradeColumns
  <2> HIDE DEF risk, quoted, excursion
  <2>2. Priced(analytics, quoted \cup {"mfe"})
    BY <1>3, <1>4, <1>7, <2>1, JoinAddsNumbers
  <2> QED BY <2>1, <2>2
<1>9. Priced(closed, PriceColumns)
  <2>1. /\ (TradeColumns \cup excursion) \cap {"point_value", "exit_spread_points"} = {}
        /\ DOMAIN [point_value |-> Missing, exit_spread_points |-> Missing] = {"point_value", "exit_spread_points"}
        /\ \A name \in {"point_value", "exit_spread_points"} : [point_value |-> Missing, exit_spread_points |-> Missing][name] = Missing
        /\ excursion \cup {"point_value", "exit_spread_points"} = PriceColumns
    BY DEF TradeColumns, PriceColumns
  <2> HIDE DEF analytics, excursion
  <2>2. Priced(closed, excursion \cup {"point_value", "exit_spread_points"})
    BY <1>3, <1>4, <1>8, <2>1, JoinAddsNumbers
  <2> QED BY <2>1, <2>2
<1>10. Priced(timeStop, PriceColumns)
  <2>1. (TradeColumns \cup PriceColumns) \cap {"time_stop_reason_code"} = {} /\ DOMAIN [time_stop_reason_code |-> Missing] = {"time_stop_reason_code"}
    BY DEF TradeColumns, PriceColumns
  <2> HIDE DEF closed
  <2> QED BY <1>3, <1>9, <2>1, JoinKeepsPriced
<1>11. Priced(rangeExit, PriceColumns)
  <2>1. (TradeColumns \cup PriceColumns) \cap {"range_exit_reason_code"} = {} /\ DOMAIN [range_exit_reason_code |-> Missing] = {"range_exit_reason_code"}
    BY DEF TradeColumns, PriceColumns
  <2> HIDE DEF timeStop
  <2> QED BY <1>3, <1>10, <2>1, JoinKeepsPriced
<1>12. Priced(reversal, PriceColumns)
  <2>1. (TradeColumns \cup PriceColumns) \cap {"trend_reversal_reason_code", "trend_reversal_trend_direction"} = {} /\ DOMAIN [trend_reversal_reason_code |-> Missing, trend_reversal_trend_direction |-> Missing] = {"trend_reversal_reason_code", "trend_reversal_trend_direction"}
    BY DEF TradeColumns, PriceColumns
  <2> HIDE DEF rangeExit
  <2> QED BY <1>3, <1>11, <2>1, JoinKeepsPriced
<1>13. Priced(rows, PriceColumns)
  <2>1. (TradeColumns \cup PriceColumns) \cap {"early_adverse_exit_reason_code"} = {} /\ DOMAIN [early_adverse_exit_reason_code |-> Missing] = {"early_adverse_exit_reason_code"}
    BY DEF TradeColumns, PriceColumns
  <2> HIDE DEF reversal
  <2> QED BY <1>3, <1>12, <2>1, JoinKeepsPriced
<1> HIDE DEF rows
<1> QED
  BY <1>1, <1>13

\* The rows of the context report have them too, and bands of two columns.
LEMMA ContextIsPriced ==
    ASSUME NEW V, NEW log \in Seq(V)
    PROVE  LET rows == BuildTradeContext(log)
           IN  /\ Priced(rows, PriceColumns)
               /\ Column(rows, "mfe") \in Seq(ToSet(Column(rows, "mfe")))
               /\ Column(rows, "entry_atr") \in Seq(ToSet(Column(rows, "entry_atr")))
               /\ Len(Column(rows, "mfe")) = Len(rows) /\ Len(Column(rows, "entry_atr")) = Len(rows)
               /\ \A k \in 1..Len(rows) :
                     /\ rows[k].mfe_band = QuantileBand(Column(rows, "mfe"))[k]
                     /\ rows[k].atr_band = QuantileBand(Column(rows, "entry_atr"))[k]
<1> DEFINE joined == JoinedRows(log)
           atr == QuantileBand(Column(joined, "entry_atr"))
           mfe == QuantileBand(Column(joined, "mfe"))
           hold == QuantileBand([k \in DOMAIN joined |-> joined[k].close_time - joined[k].open_time])
           rows == BuildTradeContext(log)
           names == TradeColumns \cup PriceColumns
<1>1. Priced(joined, PriceColumns)
  BY JoinedArePriced
<1>2. rows = Banded(joined, atr, mfe, hold)
  BY DEF BuildTradeContext, WithDerived
<1>3. names \cap DerivedNames = {} /\ "mfe" \in names /\ "entry_atr" \in names
  BY DEF TradeColumns, PriceColumns, DerivedNames
<1>4. HaveColumns(joined, names)
  BY <1>1 DEF Priced
<1> HIDE DEF joined, rows, names, hold
<1>5. Carries(rows, joined, names)
  BY <1>2, <1>3, <1>4, BandedCarries
<1>6. Priced(rows, PriceColumns)
  BY <1>1, <1>5, PricedOn DEF names
<1>7. /\ DOMAIN joined = 1..Len(joined) /\ DOMAIN rows = 1..Len(rows)
      /\ Len(rows) = Len(joined) /\ Len(rows) \in Nat
  <2>1. joined \in Seq(ToSet(joined)) /\ rows \in Seq(ToSet(rows)) /\ Len(rows) = Len(joined)
    BY <1>4, <1>5 DEF HaveColumns, Carries
  <2> QED BY <2>1, LenProperties
<1>8. ASSUME NEW name \in names
      PROVE  /\ Column(rows, name) = Column(joined, name)
             /\ Len(Column(rows, name)) = Len(rows)
             /\ Column(rows, name) \in Seq(ToSet(Column(rows, name)))
  <2>1. \A k \in 1..Len(rows) : rows[k][name] = joined[k][name]
    BY <1>5 DEF Carries
  <2>2. Column(rows, name) = [k \in 1..Len(rows) |-> rows[k][name]]
    BY <1>7 DEF Column
  <2>3. Column(joined, name) = [k \in 1..Len(rows) |-> joined[k][name]]
    BY <1>7 DEF Column
  <2>4. Column(rows, name) \in Seq({rows[k][name] : k \in 1..Len(rows)}) /\ Len(Column(rows, name)) = Len(rows)
    BY <1>7, <2>2
  <2> QED BY <2>1, <2>2, <2>3, <2>4, ToSetOfSeq
<1>9. \A k \in 1..Len(rows) : rows[k].mfe_band = mfe[k] /\ rows[k].atr_band = atr[k]
  <2> HIDE DEF mfe, atr
  <2> QED BY <1>2, <1>7, BandedBands
<1>10. /\ mfe = QuantileBand(Column(rows, "mfe")) /\ atr = QuantileBand(Column(rows, "entry_atr"))
  BY <1>3, <1>8
<1> HIDE DEF mfe, atr
<1> QED
  BY <1>3, <1>6, <1>8, <1>9, <1>10 DEF rows

\* A breakdown by a band counts every row with a value, or none.
LEMMA BandCounts ==
    ASSUME NEW rows, rows \in Seq(ToSet(rows)), NEW of, NEW name,
           Column(rows, of) \in Seq(ToSet(Column(rows, of))), Len(Column(rows, of)) = Len(rows),
           \A k \in 1..Len(rows) : rows[k][name] = QuantileBand(Column(rows, of))[k]
    PROVE  Counts(BreakdownBy(rows, name)) \in {0, Len(Present(Column(rows, of)))}
<1> DEFINE values == Column(rows, of)
<1>1. Counts(BreakdownBy(rows, name)) = Cardinality(Having(rows, name))
  BY BreakdownCounts
<1>2. \A k \in 1..Len(rows) : rows[k][name] = QuantileBand(values)[k]
  OBVIOUS
<1> HIDE DEF values
<1>3. /\ Bands(QuantileBand(values), values)
      /\ Len(Present(values)) = Cardinality({k \in 1..Len(values) : values[k] # Missing})
      /\ Len(values) = Len(rows)
  BY BandsOfValues DEF values
<1>4. \/ Having(rows, name) = {}
      \/ Having(rows, name) = {k \in 1..Len(values) : values[k] # Missing}
  BY <1>2, <1>3 DEF Having, Bands
<1> QED
  BY <1>1, <1>3, <1>4, FS_EmptySet DEF values

CostNames == {"cost_data_available", "total_spread_cost", "entry_slippage_cost", "total_cost",
              "pnl_before_cost"}

\* The costs of a row are numbers, and add up.
LEMMA CostsOfRow ==
    ASSUME NEW row, NEW point \in Int,
           row.entry_spread_points \in Int \cup {Missing},
           row.exit_spread_points \in Int \cup {Missing},
           row.entry_slippage_points \in Int \cup {Missing},
           row.commission \in Int, row.swap \in Int
    PROVE  LET c == CostColumns(row, point)
           IN  /\ DOMAIN c = CostNames
               /\ c.total_spread_cost \in Int /\ c.entry_slippage_cost \in Int
               /\ c.total_cost \in Int
               /\ c.total_cost = c.total_spread_cost + c.entry_slippage_cost
                                    - row.commission - row.swap
<1> DEFINE spread == (OrZero(row.entry_spread_points) + OrZero(row.exit_spread_points)) * point
           slippage == OrZero(row.entry_slippage_points) * point
           c == CostColumns(row, point)
<1>1. \A x \in Int \cup {Missing} : OrZero(x) \in Int
  BY DEF OrZero
<1>2. \A x \in Int : x * point \in Int
  OBVIOUS
<1>3. spread \in Int
  <2>1. OrZero(row.entry_spread_points) \in Int /\ OrZero(row.exit_spread_points) \in Int
    BY <1>1
  <2>2. OrZero(row.entry_spread_points) + OrZero(row.exit_spread_points) \in Int
    BY ONLY <2>1
  <2> QED BY ONLY <1>2, <2>2
<1>4. slippage \in Int
  BY <1>1, <1>2
<1>5. /\ DOMAIN c = CostNames
      /\ c.total_spread_cost = spread /\ c.entry_slippage_cost = slippage
      /\ c.total_cost = spread + slippage - row.commission - row.swap
  <2> HIDE DEF spread, slippage
  <2> QED BY DEF CostColumns, CostNames, spread, slippage
<1>6. spread + slippage - row.commission - row.swap \in Int
  <2> HIDE DEF spread, slippage
  <2> QED BY <1>3, <1>4
<1> HIDE DEF spread, slippage, c
<1> QED
  BY <1>3, <1>4, <1>5, <1>6 DEF c

Balanced(rows) ==
    /\ rows \in Seq(ToSet(rows))
    /\ \A k \in 1..Len(rows) :
          /\ rows[k].total_spread_cost \in Int /\ rows[k].entry_slippage_cost \in Int
          /\ rows[k].commission \in Int /\ rows[k].swap \in Int /\ rows[k].total_cost \in Int
          /\ rows[k].total_cost = rows[k].total_spread_cost + rows[k].entry_slippage_cost
                                     - rows[k].commission - rows[k].swap
    /\ \/ \A k \in 1..Len(rows) : rows[k].cost_tier = Missing
       \/ \A k \in 1..Len(rows) : rows[k].cost_tier # Missing
    /\ \A k \in 1..Len(rows) :
          rows[k].cost_tier = CostTierBand(Column(rows, "total_cost"))[k]

\* The trades behind the rows have what performance.py requires.
LEMMA TradesAreValid ==
    ASSUME NEW V, NEW log \in Seq(V), ValidTrades(AuditTrades(log)),
           NEW rows, Carries(rows, NormalizedTrades(AuditTrades(log)), TradeColumns)
    PROVE  \A k \in 1..Len(rows) : /\ rows[k].commission \in Int /\ rows[k].swap \in Int
                                   /\ rows[k].direction # Missing
<1> DEFINE raw == AuditTrades(log)
           trades == NormalizedTrades(raw)
<1>1. raw \in Seq(ToSet(raw))
  BY TradesOfLog
<1> HIDE DEF raw
<1>2. DOMAIN raw = 1..Len(raw) /\ ToSet(raw) = {raw[k] : k \in 1..Len(raw)}
  BY <1>1, ToSetOfSeq
<1>3. \A x \in ToSet(raw) : x.commission \in Int /\ x.swap \in Int /\ x.direction # Missing
  <2>1. ValidTrades(raw)
    BY DEF raw
  <2> QED BY <1>2, <2>1 DEF ValidTrades
<1>4. trades \in Seq(ToSet(raw))
  BY <1>1, SortedRows
<1>5. Carries(rows, trades, TradeColumns)
  BY DEF raw
<1> HIDE DEF trades
<1>6. \A k \in 1..Len(rows) : /\ rows[k]["commission"] = trades[k]["commission"]
                              /\ rows[k]["swap"] = trades[k]["swap"]
                              /\ rows[k]["direction"] = trades[k]["direction"]
  BY <1>5 DEF Carries, TradeColumns
<1>7. Len(rows) = Len(trades)
  BY <1>5 DEF Carries
<1>8. \A k \in 1..Len(rows) : trades[k] \in ToSet(raw)
  BY <1>4, <1>7, ElementOfSeq
<1> QED
  BY <1>3, <1>6, <1>8

\* The rows of the cost report are balanced.
LEMMA CostsAreBalanced ==
    ASSUME NEW V, NEW log \in Seq(V), ValidTrades(AuditTrades(log))
    PROVE  Balanced(BuildCostContext(log))
<1> DEFINE trades == NormalizedTrades(AuditTrades(log))
           context == BuildTradeContext(log)
           merged == Merge(context, OrderSubmissionContext(log),
                           [entry_slippage_points |-> Missing])
           costed == WithCosts(merged)
           costs == Column(costed, "total_cost")
           rows == BuildCostContext(log)
           point(k) == IF OrZero(merged[k].point_value) > 0 THEN merged[k].point_value ELSE 0
           added == [k \in DOMAIN merged |-> CostColumns(merged[k], point(k))]
           tier == CostTierBand(costs)
           names == PriceColumns \cup {"entry_slippage_points"}
           few == Cardinality(ToSet(costs)) < 3 \/ Cardinality(Edges(costs)) < 4
<1>1. Carries(context, trades, TradeColumns) /\ HaveColumns(context, TradeColumns)
  BY ContextRows
<1>2. Priced(context, PriceColumns)
  BY ContextIsPriced
<1>3. /\ Context(OrderSubmissionContext(log), {"entry_slippage_points"})
      /\ Numeric(OrderSubmissionContext(log), {"entry_slippage_points"})
  BY OrderSubmissionContextTells, NumericContexts
<1>4. costed = [k \in DOMAIN merged |-> With(merged[k], added[k])]
  BY DEF WithCosts
<1>5. rows = WithTiers(costed, tier)
  BY DEF BuildCostContext, Tiered
<1>6. tier = [k \in DOMAIN costs |-> IF few THEN Missing ELSE Interval(costs[k], Edges(costs))]
  BY DEF CostTierBand
<1>7. \A k \in DOMAIN merged : added[k] = CostColumns(merged[k], point(k))
  OBVIOUS
<1>8. Priced(merged, names)
  <2>1. /\ (TradeColumns \cup PriceColumns) \cap {"entry_slippage_points"} = {}
        /\ DOMAIN [entry_slippage_points |-> Missing] = {"entry_slippage_points"}
        /\ \A name \in {"entry_slippage_points"} : [entry_slippage_points |-> Missing][name] = Missing
    BY DEF TradeColumns, PriceColumns
  <2> HIDE DEF context
  <2> QED BY <1>2, <1>3, <2>1, JoinAddsNumbers
<1>9. Carries(merged, trades, TradeColumns)
  <2>1. /\ TradeColumns \cap {"entry_slippage_points"} = {} /\ "trade_candidate_id" \in TradeColumns
        /\ DOMAIN [entry_slippage_points |-> Missing] = {"entry_slippage_points"}
    BY DEF TradeColumns
  <2> HIDE DEF context, trades
  <2>2. Carries(merged, context, TradeColumns)
    BY <1>1, <1>3, <2>1, JoinStep
  <2> HIDE DEF merged
  <2> QED BY <1>1, <2>2, CarriesOn
<1> HIDE DEF merged
<1>10. \A k \in 1..Len(merged) : merged[k].commission \in Int /\ merged[k].swap \in Int
  BY <1>9, TradesAreValid
<1> HIDE DEF trades, context, costed, rows, added, tier, few, costs
<1>11. DOMAIN merged = 1..Len(merged) /\ Len(merged) \in Nat
  BY <1>8, LenProperties DEF Priced, HaveColumns
<1>12. ASSUME NEW k \in 1..Len(merged)
       PROVE  /\ DOMAIN added[k] = CostNames
              /\ added[k].total_spread_cost \in Int /\ added[k].entry_slippage_cost \in Int
              /\ added[k].total_cost \in Int
              /\ added[k].total_cost = added[k].total_spread_cost + added[k].entry_slippage_cost
                                          - merged[k].commission - merged[k].swap
  <2>1. /\ merged[k]["entry_spread_points"] \in Int \cup {Missing}
        /\ merged[k]["exit_spread_points"] \in Int \cup {Missing}
        /\ merged[k]["entry_slippage_points"] \in Int \cup {Missing}
        /\ merged[k]["point_value"] \in Int \cup {Missing}
    BY <1>8 DEF Priced, Numeric, PriceColumns
  <2>2. point(k) \in Int
    BY <2>1 DEF OrZero
  <2> HIDE DEF point
  <2>3. added[k] = CostColumns(merged[k], point(k))
    BY <1>7, <1>11
  <2>4. merged[k].commission \in Int /\ merged[k].swap \in Int
    BY <1>10
  <2>5. /\ DOMAIN CostColumns(merged[k], point(k)) = CostNames
        /\ CostColumns(merged[k], point(k)).total_spread_cost \in Int
        /\ CostColumns(merged[k], point(k)).entry_slippage_cost \in Int
        /\ CostColumns(merged[k], point(k)).total_cost \in Int
        /\ CostColumns(merged[k], point(k)).total_cost
             = CostColumns(merged[k], point(k)).total_spread_cost
                  + CostColumns(merged[k], point(k)).entry_slippage_cost
                  - merged[k].commission - merged[k].swap
    BY ONLY <2>1, <2>2, <2>4, CostsOfRow
  <2> QED BY ONLY <2>3, <2>5
<1>13. /\ DOMAIN costed = 1..Len(merged) /\ DOMAIN costs = 1..Len(merged)
       /\ DOMAIN rows = 1..Len(merged)
  BY <1>4, <1>5, <1>11 DEF WithTiers, costs, Column
<1>14. rows \in Seq(ToSet(rows)) /\ Len(rows) = Len(merged)
  <2>1. rows = [k \in 1..Len(merged) |-> rows[k]]
    BY <1>5, <1>11, <1>13 DEF WithTiers
  <2>2. rows \in Seq({rows[k] : k \in 1..Len(merged)}) /\ Len(rows) = Len(merged)
    BY <1>11, <2>1
  <2> QED BY <2>2, ToSetOfSeq
<1>15. ASSUME NEW k \in 1..Len(merged)
       PROVE  /\ \A name \in DOMAIN added[k] : name # "cost_tier" => rows[k][name] = added[k][name]
              /\ \A name \in DOMAIN merged[k] :
                    name \notin CostNames \cup {"cost_tier"} => rows[k][name] = merged[k][name]
              /\ rows[k]["cost_tier"] = tier[k]
              /\ \A name \in DOMAIN added[k] : costed[k][name] = added[k][name]
  <2> DEFINE tiered == [cost_tier |-> tier[k]]
  <2>1. costed[k] = With(merged[k], added[k]) /\ rows[k] = With(costed[k], tiered)
    BY <1>4, <1>5, <1>11, <1>13 DEF WithTiers
  <2>2. DOMAIN tiered = {"cost_tier"} /\ tiered["cost_tier"] = tier[k]
    OBVIOUS
  <2> HIDE DEF tiered
  <2>3. /\ DOMAIN costed[k] = DOMAIN merged[k] \cup DOMAIN added[k]
        /\ \A name \in DOMAIN added[k] : costed[k][name] = added[k][name]
        /\ \A name \in DOMAIN merged[k] : name \notin DOMAIN added[k] => costed[k][name] = merged[k][name]
    BY <2>1 DEF With
  <2>4. /\ rows[k]["cost_tier"] = tiered["cost_tier"]
        /\ \A name \in DOMAIN costed[k] : name # "cost_tier" => rows[k][name] = costed[k][name]
    BY <2>1, <2>2 DEF With
  <2>5. DOMAIN added[k] = CostNames
    BY <1>12
  <2> QED BY <2>2, <2>3, <2>4, <2>5
<1>16. ASSUME NEW k \in 1..Len(merged)
       PROVE  /\ rows[k]["total_spread_cost"] = added[k]["total_spread_cost"]
              /\ rows[k]["entry_slippage_cost"] = added[k]["entry_slippage_cost"]
              /\ rows[k]["total_cost"] = added[k]["total_cost"]
              /\ rows[k]["commission"] = merged[k]["commission"]
              /\ rows[k]["swap"] = merged[k]["swap"]
  <2>1. DOMAIN added[k] = CostNames
    BY <1>12
  <2>2. "commission" \in DOMAIN merged[k] /\ "swap" \in DOMAIN merged[k]
    BY <1>8 DEF Priced, HaveColumns, TradeColumns
  <2> QED BY <1>15, <2>1, <2>2 DEF CostNames
<1>17. \/ \A k \in 1..Len(rows) : rows[k].cost_tier = Missing
       \/ \A k \in 1..Len(rows) : rows[k].cost_tier # Missing
  <2>1. \A x : Interval(x, Edges(costs)) # Missing
    BY IntervalsAreNumbers, TradeReportsAssumption
  <2>2. \A k \in 1..Len(rows) : rows[k]["cost_tier"] = tier[k] /\ k \in DOMAIN costs
    BY <1>13, <1>14, <1>15
  <2> QED BY <1>6, <2>1, <2>2
<1>18. \A k \in 1..Len(rows) :
          /\ rows[k].total_spread_cost \in Int /\ rows[k].entry_slippage_cost \in Int
          /\ rows[k].commission \in Int /\ rows[k].swap \in Int /\ rows[k].total_cost \in Int
          /\ rows[k].total_cost = rows[k].total_spread_cost + rows[k].entry_slippage_cost
                                     - rows[k].commission - rows[k].swap
  BY <1>10, <1>12, <1>14, <1>16
<1>19. \A k \in 1..Len(rows) : rows[k].cost_tier = CostTierBand(Column(rows, "total_cost"))[k]
  <2>1. \A k \in 1..Len(merged) : rows[k]["total_cost"] = costed[k]["total_cost"]
    <3>1. \A k \in 1..Len(merged) : "total_cost" \in DOMAIN added[k]
      BY <1>12 DEF CostNames
    <3> QED BY <1>15, <1>16, <3>1
  <2>2. Column(rows, "total_cost") = costs
    BY <1>13, <2>1 DEF costs, Column
  <2> QED BY <1>14, <1>15, <2>2 DEF tier
<1> QED
  BY <1>14, <1>17, <1>18, <1>19 DEF Balanced, rows

\* The values of a column, as NetPnl reads them.
Amounts(rows, name) == [k \in DOMAIN rows |-> [net_pnl |-> rows[k][name]]]

\* Which is a sequence like the rows.
LEMMA AmountsOf ==
    ASSUME NEW rows, rows \in Seq(ToSet(rows)), NEW name
    PROVE  /\ CostSum(rows, name) = NetPnl(Amounts(rows, name))
           /\ Amounts(rows, name) \in Seq(ToSet(Amounts(rows, name)))
           /\ Len(Amounts(rows, name)) = Len(rows) /\ Len(rows) \in Nat
           /\ \A k \in 1..Len(rows) : Amounts(rows, name)[k] = [net_pnl |-> rows[k][name]]
           /\ (\A k \in 1..Len(rows) : rows[k][name] \in Int) =>
                 \A x \in ToSet(Amounts(rows, name)) : x.net_pnl \in Int
<1> DEFINE s == Amounts(rows, name)
<1>1. DOMAIN rows = 1..Len(rows) /\ Len(rows) \in Nat
  BY LenProperties
<1>2. s = [k \in 1..Len(rows) |-> s[k]] /\ \A k \in 1..Len(rows) : s[k] = [net_pnl |-> rows[k][name]]
  BY <1>1 DEF Amounts
<1>3. CostSum(rows, name) = NetPnl(s)
  BY DEF CostSum, Amounts
<1> HIDE DEF s
<1> DEFINE X == {s[k] : k \in 1..Len(rows)}
<1>4. s \in Seq(X) /\ Len(s) = Len(rows)
  BY <1>1, <1>2
<1> HIDE DEF X
<1>5. s \in Seq(ToSet(s)) /\ ToSet(s) = {s[k] : k \in 1..Len(s)}
  BY ONLY <1>4, ToSetOfSeq
<1>6. \A x \in ToSet(s) : \E k \in 1..Len(rows) : x = [net_pnl |-> rows[k][name]]
  BY <1>2, <1>4, <1>5
<1>7. (\A k \in 1..Len(rows) : rows[k][name] \in Int) => \A x \in ToSet(s) : x.net_pnl \in Int
  BY ONLY <1>6
<1> QED
  BY <1>1, <1>2, <1>3, <1>4, <1>5, <1>7 DEF s

\* The sums of the parts of a cost are its sum.
LEMMA CostsBalance ==
    ASSUME NEW rows, Balanced(rows)
    PROVE  CostSum(rows, "total_cost")
             = CostSum(rows, "total_spread_cost") + CostSum(rows, "entry_slippage_cost")
                  - CostSum(rows, "commission") - CostSum(rows, "swap")
<1> DEFINE names == {"total_cost", "total_spread_cost", "entry_slippage_cost", "commission", "swap"}
           l == Len(rows)
<1>1. rows \in Seq(ToSet(rows)) /\ l \in Nat
  BY LenProperties DEF Balanced
<1>2. \A k \in 1..l : \A name \in names : rows[k][name] \in Int
  BY DEF Balanced
<1>3. ASSUME NEW name \in names
      PROVE  \E f : /\ CostSum(rows, name) = f[l]
                    /\ f[0] = 0
                    /\ \A n \in 1..l : f[n] = f[n - 1] + rows[n][name]
                    /\ \A n \in 0..l : f[n] \in Int
  <2> DEFINE s == Amounts(rows, name)
  <2>1. /\ CostSum(rows, name) = NetPnl(s) /\ s \in Seq(ToSet(s))
        /\ Len(s) = l /\ \A k \in 1..l : s[k] = [net_pnl |-> rows[k][name]]
        /\ \A x \in ToSet(s) : x.net_pnl \in Int
    BY <1>1, <1>2, AmountsOf
  <2> HIDE DEF s, names, l
  <2>2. PICK f : SumsUp(f, s) /\ NetPnl(s) = f[Len(s)]
    BY <2>1, NetPnlSumsUp
  <2>3. \A n \in 1..l : s[n].net_pnl = rows[n][name]
    <3>1. \A n \in 1..l : s[n] = [net_pnl |-> rows[n][name]]
      BY <2>1
    <3>2. \A x : [net_pnl |-> x].net_pnl = x
      OBVIOUS
    <3> QED BY ONLY <3>1, <3>2, ZenonT(30)
  <2> WITNESS f
  <2> QED BY <2>1, <2>2, <2>3 DEF SumsUp
<1> HIDE DEF names, l
<1>4. PICK t : /\ CostSum(rows, "total_cost") = t[l]
               /\ t[0] = 0
               /\ \A n \in 1..l : t[n] = t[n - 1] + rows[n]["total_cost"]
               /\ \A n \in 0..l : t[n] \in Int
  BY <1>3 DEF names
<1>5. PICK s : /\ CostSum(rows, "total_spread_cost") = s[l]
               /\ s[0] = 0
               /\ \A n \in 1..l : s[n] = s[n - 1] + rows[n]["total_spread_cost"]
               /\ \A n \in 0..l : s[n] \in Int
  BY <1>3 DEF names
<1>6. PICK e : /\ CostSum(rows, "entry_slippage_cost") = e[l]
               /\ e[0] = 0
               /\ \A n \in 1..l : e[n] = e[n - 1] + rows[n]["entry_slippage_cost"]
               /\ \A n \in 0..l : e[n] \in Int
  BY <1>3 DEF names
<1>7. PICK c : /\ CostSum(rows, "commission") = c[l]
               /\ c[0] = 0
               /\ \A n \in 1..l : c[n] = c[n - 1] + rows[n]["commission"]
               /\ \A n \in 0..l : c[n] \in Int
  BY <1>3 DEF names
<1>8. PICK w : /\ CostSum(rows, "swap") = w[l]
               /\ w[0] = 0
               /\ \A n \in 1..l : w[n] = w[n - 1] + rows[n]["swap"]
               /\ \A n \in 0..l : w[n] \in Int
  BY <1>3 DEF names
<1>9. \A k \in 1..l :
         /\ rows[k]["total_spread_cost"] \in Int /\ rows[k]["entry_slippage_cost"] \in Int
         /\ rows[k]["commission"] \in Int /\ rows[k]["swap"] \in Int
         /\ rows[k]["total_cost"] = rows[k]["total_spread_cost"] + rows[k]["entry_slippage_cost"]
                                       - rows[k]["commission"] - rows[k]["swap"]
  BY DEF Balanced, l
<1> DEFINE T == {m \in Nat : m <= l => t[m] = s[m] + e[m] - c[m] - w[m]}
<1>10. 0 \in T
  BY <1>4, <1>5, <1>6, <1>7, <1>8
<1>11. ASSUME NEW m \in Nat, m \in T
       PROVE  m + 1 \in T
  <2>1. SUFFICES ASSUME m + 1 <= l
                 PROVE  t[m + 1] = s[m + 1] + e[m + 1] - c[m + 1] - w[m + 1]
    OBVIOUS
  <2>2. m + 1 \in 1..l /\ (m + 1) - 1 = m /\ m \in 0..l /\ m <= l
    BY <1>1, <2>1
  <2>3. t[m] = s[m] + e[m] - c[m] - w[m]
    BY <1>11, <2>2
  <2>4. /\ s[m] \in Int /\ e[m] \in Int /\ c[m] \in Int /\ w[m] \in Int
    BY <1>5, <1>6, <1>7, <1>8, <2>2
  <2>5. /\ t[m + 1] = t[m] + rows[m + 1]["total_cost"]
        /\ s[m + 1] = s[m] + rows[m + 1]["total_spread_cost"]
        /\ e[m + 1] = e[m] + rows[m + 1]["entry_slippage_cost"]
        /\ c[m + 1] = c[m] + rows[m + 1]["commission"]
        /\ w[m + 1] = w[m] + rows[m + 1]["swap"]
    BY <1>4, <1>5, <1>6, <1>7, <1>8, <2>2
  <2>6. /\ rows[m + 1]["total_spread_cost"] \in Int /\ rows[m + 1]["entry_slippage_cost"] \in Int
        /\ rows[m + 1]["commission"] \in Int /\ rows[m + 1]["swap"] \in Int
        /\ rows[m + 1]["total_cost"]
             = rows[m + 1]["total_spread_cost"] + rows[m + 1]["entry_slippage_cost"]
                  - rows[m + 1]["commission"] - rows[m + 1]["swap"]
    BY <1>9, <2>2
  <2> QED BY ONLY <2>3, <2>4, <2>5, <2>6
<1>12. Nat \subseteq T
  <2> HIDE DEF T
  <2> QED BY <1>10, <1>11, SetInduction
<1>13. t[l] = s[l] + e[l] - c[l] - w[l]
  BY <1>1, <1>12 DEF l
<1> QED
  BY <1>4, <1>5, <1>6, <1>7, <1>8, <1>13

\* The sum of a column over some of the rows.
LEMMA CostSumOfSublist ==
    ASSUME NEW rows, rows \in Seq(ToSet(rows)), NEW P, NEW name
    PROVE  CostSum(Sublist(rows, P), name) = NetPnl(Sublist(Amounts(rows, name), P))
<1> DEFINE s == Amounts(rows, name)
           S == ToSet(rows) \cup ToSet(s)
           r == Sublist(rows, P)
           q == Sublist(s, P)
<1>1. /\ s \in Seq(ToSet(s)) /\ Len(s) = Len(rows)
      /\ \A k \in 1..Len(rows) : s[k] = [net_pnl |-> rows[k][name]]
  BY AmountsOf
<1>2. rows \in Seq(S) /\ s \in Seq(S)
  BY <1>1
<1> HIDE DEF S, s
<1>3. /\ Len(q) = Len(r) /\ Len(r) \in Nat
      /\ \A i \in 1..Len(r) : \E n \in P \cap (1..Len(rows)) : r[i] = rows[n] /\ q[i] = s[n]
  BY <1>1, <1>2, SublistsAlike
<1>4. r \in Seq(S) /\ q \in Seq(S)
  BY <1>2, SublistPicks
<1> HIDE DEF r, q
<1>5. \A i \in 1..Len(r) : q[i] = [net_pnl |-> r[i][name]]
  BY <1>1, <1>3
<1>6. r \in Seq(ToSet(r))
  BY <1>4, ToSetOfSeq
<1>7. DOMAIN q = 1..Len(q) /\ q = [i \in 1..Len(q) |-> q[i]] /\ DOMAIN r = 1..Len(r)
  BY <1>4, LenProperties
<1>8. Amounts(r, name) = [i \in 1..Len(r) |-> [net_pnl |-> r[i][name]]]
  BY <1>7 DEF Amounts
<1>9. Amounts(r, name) = q
  BY <1>3, <1>5, <1>7, <1>8
<1>10. CostSum(r, name) = NetPnl(Amounts(r, name))
  BY <1>6, AmountsOf
<1> QED
  BY <1>9, <1>10 DEF r, q, s

\* The costs of the tiers add up, where there are tiers.
LEMMA TiersAddUp ==
    ASSUME NEW rows, Balanced(rows), DOMAIN TierBreakdown(rows) # {}
    PROVE  LET tiers == TierBreakdown(rows)
           IN  CostSum(rows, "total_cost") = Total([t \in DOMAIN tiers |-> tiers[t].total_cost])
<1> DEFINE tiers == TierBreakdown(rows)
           D == DOMAIN tiers
           key == [n \in 1..Len(rows) |-> rows[n].cost_tier]
           s == Amounts(rows, "total_cost")
           Of == [g \in D |-> {n \in 1..Len(rows) : key[n] = g}]
           profit == [g \in D |-> tiers[g].total_cost]
           size == [g \in D |-> Len(Sublist(s, Of[g]))]
           S == ToSet(s)
<1>1. rows \in Seq(ToSet(rows)) /\ DOMAIN rows = 1..Len(rows) /\ Len(rows) \in Nat
  BY LenProperties DEF Balanced
<1>2. \A k \in 1..Len(rows) : rows[k]["total_cost"] \in Int
  BY DEF Balanced
<1>3. /\ CostSum(rows, "total_cost") = NetPnl(s) /\ s \in Seq(S) /\ Len(s) = Len(rows)
      /\ \A x \in S : x.net_pnl \in Int
  BY <1>1, <1>2, AmountsOf
<1>4. /\ D = {key[n] : n \in 1..Len(rows)} \ {Missing}
      /\ \A g \in D : tiers[g].total_cost
                        = CostSum(Sublist(rows, {n \in 1..Len(rows) : rows[n].cost_tier = g}), "total_cost")
  BY <1>1 DEF TierBreakdown, Those, ToSet, Column
<1>5. \A n \in 1..Len(rows) : key[n] = rows[n].cost_tier
  OBVIOUS
<1>6. \A n \in 1..Len(rows) : key[n] \in D
  <2>1. D # {}
    OBVIOUS
  <2>2. \/ \A n \in 1..Len(rows) : rows[n].cost_tier = Missing
        \/ \A n \in 1..Len(rows) : rows[n].cost_tier # Missing
    BY DEF Balanced
  <2> HIDE DEF key, tiers
  <2> QED BY <1>4, <1>5, <2>1, <2>2
<1>7. IsFiniteSet(D)
  <2>1. IsFiniteSet(1..Len(rows))
    BY <1>1, FS_Interval
  <2> HIDE DEF key, tiers
  <2>2. IsFiniteSet({key[n] : n \in 1..Len(rows)})
    BY <2>1, FiniteImage
  <2>3. IsFiniteSet({key[n] : n \in 1..Len(rows)} \ {Missing})
    BY ONLY <2>2, FS_Difference
  <2> QED BY <1>4, <2>3
<1>8. \A g \in D : /\ Of[g] = {n \in 1..Len(s) : key[n] = g}
                   /\ profit[g] = tiers[g].total_cost /\ size[g] = Len(Sublist(s, Of[g]))
  BY <1>3
<1>9. profit = [g \in D |-> profit[g]] /\ size = [g \in D |-> size[g]]
  OBVIOUS
<1> HIDE DEF tiers, S, s, profit, size, key, Of
<1>10. ASSUME NEW g \in D
       PROVE  profit[g] = NetPnl(Sublist(s, Of[g])) /\ profit[g] \in Int /\ size[g] \in Int
  <2>1. Of[g] = {n \in 1..Len(rows) : rows[n].cost_tier = g}
    <3>1. Of[g] = {n \in 1..Len(rows) : key[n] = g}
      BY <1>3, <1>8
    <3> QED BY ONLY <1>5, <3>1
  <2>2. profit[g] = CostSum(Sublist(rows, Of[g]), "total_cost")
    BY <1>4, <1>8, <2>1
  <2>3. profit[g] = NetPnl(Sublist(s, Of[g]))
    BY <1>1, <2>2, CostSumOfSublist DEF s
  <2>4. NetPnl(Sublist(s, Of[g])) \in Int
    <3>1. Of[g] \cap {} = {}
      OBVIOUS
    <3> QED BY ONLY <1>3, <3>1, NetPnlApart
  <2>5. Len(Sublist(s, Of[g])) \in Int
    BY <1>3, SublistPicks, LenProperties
  <2> QED BY <1>8, <2>3, <2>4, <2>5
<1>11. profit \in [D -> Int] /\ size \in [D -> Int]
  BY <1>9, <1>10
<1>12. Grouped(s, D, key, Of, profit, size)
  BY <1>3, <1>6, <1>8, <1>10, <1>11 DEF Grouped
<1>13. Total(profit) = NetPnl(s)
  BY ONLY <1>3, <1>7, <1>12, GroupsAddUp
<1> QED
  BY <1>3, <1>13 DEF profit, tiers

\* As many as there are positions.
LEMMA PositionsCount ==
    ASSUME NEW l \in Nat
    PROVE  Cardinality(1..l) = l
<1>1. 1 \in Int /\ l \in Int
  OBVIOUS
<1>2. Cardinality(1..l) = IF 1 > l THEN 0 ELSE l - 1 + 1
  BY ONLY <1>1, FS_Interval
<1> QED
  BY <1>2

\* Every rejected bar is in exactly one stage of the funnel.
LEMMA FunnelAddsUp ==
    ASSUME NEW V, NEW log \in Seq(V)
    PROVE  LET funnel == EntryPipelineFunnelSummary(log)
           IN  funnel.total_bars_evaluated
                 = funnel.reached_final_candidate + Total(funnel.rejected_by_stage)
<1> DEFINE evaluations == Records(log, "ENTRY_PIPELINE")
           P == {n \in DOMAIN evaluations : evaluations[n].final_status # "CANDIDATE"}
           rejected == Sublist(evaluations, P)
           K == 1..Len(rejected)
           key == [n \in K |-> RejectedAt(rejected[n])]
           part(stage) == {n \in DOMAIN rejected : RejectedAt(rejected[n]) = stage}
           size == [stage \in Stages |-> Len(Sublist(rejected, part(stage)))]
           funnel == EntryPipelineFunnelSummary(log)
<1>1. evaluations \in Seq(V) /\ Len(evaluations) \in Nat
  BY RecordsInOrder, LenProperties
<1>2. rejected \in Seq(V)
  <2> HIDE DEF evaluations, P
  <2> QED BY <1>1, SublistPicks
<1>3. /\ funnel.total_bars_evaluated = Len(evaluations)
      /\ funnel.reached_final_candidate = Len(evaluations) - Len(rejected)
      /\ funnel.rejected_by_stage = size
  BY DEF EntryPipelineFunnelSummary, Those
<1> HIDE DEF evaluations, P, rejected, funnel
<1>4. Len(rejected) \in Nat /\ DOMAIN rejected = K
  BY <1>2, LenProperties
<1>5. \A n \in K : key[n] = RejectedAt(rejected[n])
  OBVIOUS
<1>6. \A r : RejectedAt(r) \in Stages
  BY DEF RejectedAt, ReasonStage, Stages
<1>7. size = [stage \in Stages |-> size[stage]] /\ \A stage \in Stages : size[stage] = Len(Sublist(rejected, part(stage)))
  OBVIOUS
<1>8. \A stage : part(stage) \cap K = {n \in K : key[n] = stage}
  BY <1>4, <1>5
<1> HIDE DEF key, size, part
<1>9. ASSUME NEW stage \in Stages
      PROVE  size[stage] = Cardinality({n \in K : key[n] = stage}) /\ size[stage] \in Int
  <2>1. Len(Sublist(rejected, part(stage))) = Cardinality(part(stage) \cap (1..Len(rejected)))
    BY <1>2, SublistLength
  <2>2. Len(Sublist(rejected, part(stage))) \in Nat
    BY <1>2, SublistPicks, LenProperties
  <2>3. size[stage] = Len(Sublist(rejected, part(stage)))
    BY <1>7
  <2>4. part(stage) \cap (1..Len(rejected)) = {n \in K : key[n] = stage}
    BY <1>8
  <2>5. Len(Sublist(rejected, part(stage))) = Cardinality({n \in K : key[n] = stage})
    BY ONLY <2>1, <2>4
  <2> QED BY ONLY <2>2, <2>3, <2>5
<1>10. Kinds(K, Stages, key, size)
  <2>1. size \in [Stages -> Int]
    BY <1>7, <1>9
  <2>2. \A n \in K : key[n] \in Stages
    BY <1>5, <1>6
  <2>3. \A stage \in Stages : size[stage] = Cardinality({n \in K : key[n] = stage})
    BY <1>9
  <2> HIDE DEF K
  <2> QED BY <2>1, <2>2, <2>3 DEF Kinds
<1>11. IsFiniteSet(Stages)
  <2>1. \A S, x : IsFiniteSet(S) => IsFiniteSet(S \cup {x})
    BY FS_AddElement
  <2>2. IsFiniteSet({})
    BY FS_EmptySet
  <2> DEFINE two == ({} \cup {"market_regime"}) \cup {"htf_bias"}
             four == (two \cup {"setup_or_trigger"}) \cup {"other"}
             five == four \cup {"trend_strength_or_momentum_filter"}
  <2>3. IsFiniteSet(two)
    BY ONLY <2>1, <2>2
  <2> HIDE DEF two
  <2>4. IsFiniteSet(four)
    BY ONLY <2>1, <2>3
  <2> HIDE DEF four
  <2>5. IsFiniteSet(five)
    BY ONLY <2>1, <2>4
  <2>6. five = Stages
    BY DEF Stages, four, two
  <2> HIDE DEF five
  <2> QED BY <2>5, <2>6
<1>12. Total(size) = Cardinality(K)
  <2>1. K \subseteq 1..Len(rejected)
    OBVIOUS
  <2> HIDE DEF K
  <2> QED BY ONLY <1>4, <1>10, <1>11, <2>1, KindsAddUp
<1>13. Cardinality(K) = Len(rejected)
  BY <1>4, PositionsCount
<1> QED
  BY <1>1, <1>3, <1>4, <1>12, <1>13 DEF funnel

\* What the context report breaks down adds up.
LEMMA ContextAddsUp ==
    ASSUME LogInv, Joined
    PROVE  /\ \A name \in {"session", "close_session", "mfe_band", "hold_time_band"} :
                 Counts(output.by[name]) =
                    Len(Those(output.rows, LAMBDA row : row[name] # Missing))
           /\ \A name \in {"mfe_band", "atr_band"} :
                 LET of == IF name = "mfe_band" THEN "mfe" ELSE "entry_atr"
                     values == Present(Column(output.rows, of))
                 IN  Counts(output.by[name]) \in {0, Len(values)}
           /\ Counts(output.range_exit.by_reason_code) =
                 output.range_exit.total.number_of_trades
           /\ Counts(output.early_adverse_exit.by_direction) =
                 output.early_adverse_exit.total.number_of_trades
<1> DEFINE rows == output.rows
<1>1. /\ input \in Seq(ToSet(input)) /\ output = ContextSummaries(rows)
      /\ rows = BuildTradeContext(input) /\ ValidTrades(AuditTrades(input))
  BY RowsOfLog
<1>2. /\ output.by = [name \in {"session", "close_session", "atr_band", "mfe_band", "hold_time_band"} |->
                         BreakdownBy(rows, name)]
      /\ output.range_exit = RangeExitSummary(rows)
      /\ output.early_adverse_exit = EarlyAdverseExitSummary(rows)
  <2> HIDE DEF rows
  <2> QED BY <1>1 DEF ContextSummaries
<1> HIDE DEF rows
<1>3. /\ Priced(rows, PriceColumns)
      /\ Column(rows, "mfe") \in Seq(ToSet(Column(rows, "mfe")))
      /\ Column(rows, "entry_atr") \in Seq(ToSet(Column(rows, "entry_atr")))
      /\ Len(Column(rows, "mfe")) = Len(rows) /\ Len(Column(rows, "entry_atr")) = Len(rows)
      /\ \A k \in 1..Len(rows) :
            /\ rows[k].mfe_band = QuantileBand(Column(rows, "mfe"))[k]
            /\ rows[k].atr_band = QuantileBand(Column(rows, "entry_atr"))[k]
  BY <1>1, ContextIsPriced
<1>4. rows \in Seq(ToSet(rows))
  BY <1>3 DEF Priced, HaveColumns
<1>5. Carries(rows, NormalizedTrades(AuditTrades(input)), TradeColumns)
  BY <1>1, ContextRows
<1>6. \A k \in 1..Len(rows) : rows[k]["direction"] # Missing
  BY <1>1, <1>5, TradesAreValid
<1>7. ASSUME NEW name \in {"session", "close_session", "mfe_band", "hold_time_band"}
      PROVE  Counts(output.by[name]) = Len(Those(rows, LAMBDA row : row[name] # Missing))
  <2>1. output.by[name] = BreakdownBy(rows, name)
    BY <1>2
  <2>2. Counts(BreakdownBy(rows, name)) = Cardinality(Having(rows, name))
    BY <1>4, BreakdownCounts
  <2>3. Len(Triggered(rows, name)) = Cardinality(Having(rows, name))
    BY <1>4, TriggeredRows
  <2>4. Triggered(rows, name) = Those(rows, LAMBDA row : row[name] # Missing)
    BY DEF Triggered
  <2> QED BY <2>1, <2>2, <2>3, <2>4
<1>8. /\ Counts(output.by["mfe_band"]) \in {0, Len(Present(Column(rows, "mfe")))}
      /\ Counts(output.by["atr_band"]) \in {0, Len(Present(Column(rows, "entry_atr")))}
  <2>1. /\ output.by["mfe_band"] = BreakdownBy(rows, "mfe_band")
        /\ output.by["atr_band"] = BreakdownBy(rows, "atr_band")
    BY <1>2
  <2>2. \A k \in 1..Len(rows) : rows[k]["mfe_band"] = QuantileBand(Column(rows, "mfe"))[k]
    BY <1>3
  <2>3. \A k \in 1..Len(rows) : rows[k]["atr_band"] = QuantileBand(Column(rows, "entry_atr"))[k]
    BY <1>3
  <2>4. Counts(BreakdownBy(rows, "mfe_band")) \in {0, Len(Present(Column(rows, "mfe")))}
    BY <1>3, <1>4, <2>2, BandCounts
  <2>5. Counts(BreakdownBy(rows, "atr_band")) \in {0, Len(Present(Column(rows, "entry_atr")))}
    BY <1>3, <1>4, <2>3, BandCounts
  <2> QED BY <2>1, <2>4, <2>5
<1>9. \A name \in {"mfe_band", "atr_band"} :
         LET of == IF name = "mfe_band" THEN "mfe" ELSE "entry_atr"
             values == Present(Column(rows, of))
         IN  Counts(output.by[name]) \in {0, Len(values)}
  BY <1>8
<1>10. ASSUME NEW name
       PROVE  LET r == Triggered(rows, name)
              IN  /\ r \in Seq(ToSet(r))
                  /\ \A i \in 1..Len(r) : /\ r[i][name] # Missing
                                          /\ r[i]["direction"] # Missing
  <2>1. /\ Triggered(rows, name) \in Seq(ToSet(Triggered(rows, name)))
        /\ \A i \in 1..Len(Triggered(rows, name)) : \E n \in 1..Len(rows) :
              /\ Triggered(rows, name)[i] = rows[n]
              /\ rows[n][name] # Missing
    BY <1>4, TriggeredRows
  <2> QED BY <1>6, <2>1
<1>11. Counts(output.range_exit.by_reason_code) = output.range_exit.total.number_of_trades
  <2> DEFINE r == Triggered(rows, "range_exit_reason_code")
  <2>1. /\ output.range_exit.by_reason_code = BreakdownBy(r, "range_exit_reason_code")
        /\ output.range_exit.total = AggregateTradeGroup(r)
    BY <1>2 DEF RangeExitSummary
  <2>2. r \in Seq(ToSet(r)) /\ \A i \in 1..Len(r) : r[i]["range_exit_reason_code"] # Missing
    BY <1>10
  <2> HIDE DEF r
  <2>3. Counts(BreakdownBy(r, "range_exit_reason_code")) = AggregateTradeGroup(r).number_of_trades
    BY <2>2, AllCounted
  <2> QED BY <2>1, <2>3
<1>12. Counts(output.early_adverse_exit.by_direction) = output.early_adverse_exit.total.number_of_trades
  <2> DEFINE r == Triggered(rows, "early_adverse_exit_reason_code")
  <2>1. /\ output.early_adverse_exit.by_direction = BreakdownBy(r, "direction")
        /\ output.early_adverse_exit.total = AggregateTradeGroup(r)
    BY <1>2 DEF EarlyAdverseExitSummary
  <2>2. r \in Seq(ToSet(r)) /\ \A i \in 1..Len(r) : r[i]["direction"] # Missing
    BY <1>10
  <2> HIDE DEF r
  <2>3. Counts(BreakdownBy(r, "direction")) = AggregateTradeGroup(r).number_of_trades
    BY <2>2, AllCounted
  <2> QED BY <2>1, <2>3
<1> QED
  BY <1>7, <1>9, <1>11, <1>12 DEF rows

\* And so do the costs.
LEMMA CostsAddUp ==
    ASSUME LogInv, Costed
    PROVE  LET costs == output.summary
               tiers == output.tiers
           IN  /\ costs.total_cost = costs.total_spread_cost + costs.total_slippage_cost
                                       - costs.total_commission - costs.total_swap
               /\ DOMAIN tiers # {} =>
                    costs.total_cost = Total([t \in DOMAIN tiers |-> tiers[t].total_cost])
<1> DEFINE rows == BuildCostContext(input)
<1>1. input \in Seq(ToSet(input))
  BY RowsOfLog
<1>2. output = CostReport(input) /\ ~ output.refused
  BY DEF LogInv, Costed, ReportOn
<1>3. Loads(input)
  BY <1>2 DEF CostReport, Refused
<1>4. output = CostSummaries(rows) /\ ValidTrades(AuditTrades(input))
  BY <1>2, <1>3 DEF CostReport, Loads
<1> HIDE DEF rows
<1>5. ~ CostReportRefused(rows)
  BY <1>2, <1>4 DEF CostSummaries, Refused
<1>6. output.summary = CostSummary(rows) /\ output.tiers = TierBreakdown(rows)
  BY <1>4, <1>5 DEF CostSummaries
<1>7. /\ output.summary.total_cost = CostSum(rows, "total_cost")
      /\ output.summary.total_spread_cost = CostSum(rows, "total_spread_cost")
      /\ output.summary.total_slippage_cost = CostSum(rows, "entry_slippage_cost")
      /\ output.summary.total_commission = CostSum(rows, "commission")
      /\ output.summary.total_swap = CostSum(rows, "swap")
  BY <1>6 DEF CostSummary
<1>8. Balanced(rows)
  BY <1>1, <1>4, CostsAreBalanced DEF rows
<1>9. CostSum(rows, "total_cost")
        = CostSum(rows, "total_spread_cost") + CostSum(rows, "entry_slippage_cost")
             - CostSum(rows, "commission") - CostSum(rows, "swap")
  BY <1>8, CostsBalance
<1>10. DOMAIN TierBreakdown(rows) # {} =>
          CostSum(rows, "total_cost")
            = Total([t \in DOMAIN TierBreakdown(rows) |-> TierBreakdown(rows)[t].total_cost])
  BY <1>8, TiersAddUp
<1> QED
  BY <1>6, <1>7, <1>9, <1>10

\* All three reports.
LEMMA AddingUpBreakdowns ==
    ASSUME LogInv
    PROVE  BreakdownsAddUp
<1>1. ASSUME Piped
      PROVE  LET funnel == output.funnel
             IN  funnel.total_bars_evaluated =
                    funnel.reached_final_candidate + Total(funnel.rejected_by_stage)
  <2>1. output.funnel = EntryPipelineFunnelSummary(input) /\ input \in Seq(ToSet(input))
    BY <1>1 DEF LogInv, ReportOn, Piped, FunnelReport, Refused
  <2> QED BY <2>1, FunnelAddsUp
<1> QED
  BY <1>1, ContextAddsUp, CostsAddUp DEF BreakdownsAddUp

\* No row of a breakdown, no cost of a tier and no bar of the funnel is lost
\* or counted twice, for every log (trade_breakdown.py, cost_sensitivity.py).
THEOREM BreakdownsAlwaysAddUp == Spec => []BreakdownsAddUp
<1>1. LogInv => BreakdownsAddUp
  BY AddingUpBreakdowns
<1> QED
  BY <1>1, ReportsAreOfTheLog, PTL

-----------------------------------------------------------------------------
(* Quantiles: the value of a rank, the edges, the tiers.                   *)

\* The positions of the values up to x, and of those below it.
UpTo(values, x) == {k \in DOMAIN values : values[k] <= x}
Under(values, x) == {k \in DOMAIN values : values[k] < x}

\* Both are sets of positions, and they grow with x.
LEMMA UpToAndUnder ==
    ASSUME NEW values \in Seq(Int), NEW x \in Int
    PROVE  /\ IsFiniteSet(UpTo(values, x)) /\ IsFiniteSet(Under(values, x))
           /\ Cardinality(UpTo(values, x)) \in 0..Len(values)
           /\ Cardinality(Under(values, x)) \in 0..Len(values)
           /\ \A y \in Int : x < y => UpTo(values, x) \subseteq Under(values, y)
<1>1. DOMAIN values = 1..Len(values) /\ Len(values) \in Nat
  BY LenProperties
<1>2. IsFiniteSet(1..Len(values)) /\ Cardinality(1..Len(values)) = Len(values)
  BY <1>1, PositionsCount, FS_Interval
<1>3. UpTo(values, x) \in SUBSET (1..Len(values)) /\ Under(values, x) \in SUBSET (1..Len(values))
  BY <1>1 DEF UpTo, Under
<1>4. /\ IsFiniteSet(UpTo(values, x)) /\ IsFiniteSet(Under(values, x))
      /\ Cardinality(UpTo(values, x)) <= Len(values) /\ Cardinality(Under(values, x)) <= Len(values)
  BY <1>2, <1>3, FS_Subset
<1>5. Cardinality(UpTo(values, x)) \in Nat /\ Cardinality(Under(values, x)) \in Nat
  BY <1>4, FS_CardinalityType
<1>6. \A y \in Int : x < y => UpTo(values, x) \subseteq Under(values, y)
  <2>1. \A k \in DOMAIN values : values[k] \in Int
    OBVIOUS
  <2> QED BY <2>1 DEF UpTo, Under
<1> QED
  BY <1>1, <1>4, <1>5, <1>6

\* Every place has a value.
LEMMA RankedIs ==
    ASSUME NEW values \in Seq(Int), NEW place \in 1..Len(values)
    PROVE  /\ Ranked(values, place) \in ToSet(values)
           /\ Ranked(values, place) \in Int
           /\ Cardinality(Under(values, Ranked(values, place))) < place
           /\ place <= Cardinality(UpTo(values, Ranked(values, place)))
<1> DEFINE n == Len(values)
           all == ToSet(values)
           S == {x \in all : place <= Cardinality(UpTo(values, x))}
<1>1. DOMAIN values = 1..n /\ n \in Nat /\ all = {values[k] : k \in 1..n}
  BY ToSetOfSeq
<1>2. IsFiniteSet(1..n) /\ Cardinality(1..n) = n
  BY <1>1, PositionsCount, FS_Interval
<1>3. IsFiniteSet(all) /\ all \in SUBSET Int /\ all # {}
  <2>1. IsFiniteSet({values[k] : k \in 1..n})
    BY <1>2, FiniteImage
  <2>2. values[1] \in all
    BY <1>1
  <2> QED BY <1>1, <2>1, <2>2
<1>4. S # {}
  <2>1. Max(all) \in all /\ \A y \in all : y <= Max(all)
    BY <1>3, MaxOfSet
  <2>2. UpTo(values, Max(all)) = 1..n
    BY <1>1, <2>1 DEF UpTo
  <2> QED BY <1>2, <2>1, <2>2
<1>5. Min(S) \in S /\ \A y \in S : Min(S) <= y
  <2>1. S \in SUBSET Int /\ S \in SUBSET all
    BY <1>3
  <2>2. IsFiniteSet(S)
    BY <1>3, <2>1, FS_Subset
  <2> HIDE DEF S
  <2> QED BY <1>4, <2>1, <2>2, MinOfSet
<1> DEFINE m == Min(S)
<1>6. m \in all /\ m \in Int /\ place <= Cardinality(UpTo(values, m)) /\ \A y \in S : m <= y
  BY <1>3, <1>5
<1> HIDE DEF m
<1>7. Cardinality(Under(values, m)) < place
  <2>1. CASE Under(values, m) = {}
    BY <2>1, FS_EmptySet
  <2>2. CASE Under(values, m) # {}
    <3> DEFINE U == Under(values, m)
               lower == {values[k] : k \in U}
               y == Max(lower)
    <3>1. U \subseteq 1..n /\ IsFiniteSet(U) /\ \A k \in U : values[k] < m
      BY <1>1, <1>6, UpToAndUnder DEF Under
    <3>2. lower \in SUBSET all /\ lower \in SUBSET Int /\ lower # {}
      BY <1>1, <1>3, <2>2, <3>1
    <3>3. IsFiniteSet(lower)
      <4> HIDE DEF U
      <4> QED BY <3>1, FiniteImage
    <3> HIDE DEF lower
    <3>4. y \in lower /\ \A z \in lower : z <= y
      BY <3>2, <3>3, MaxOfSet
    <3> HIDE DEF y
    <3>5. y \in all /\ y \in Int /\ y < m
      BY <3>1, <3>2, <3>4 DEF lower
    <3>6. UpTo(values, y) = U
      <4>1. \A k \in 1..n : values[k] \in Int
        BY <1>1
      <4>2. \A k \in U : values[k] <= y
        BY <3>4 DEF lower
      <4>3. \A k \in 1..n : values[k] <= y => values[k] < m
        BY <1>6, <3>5, <4>1
      <4> QED BY <1>1, <3>1, <4>2, <4>3 DEF UpTo, Under
    <3>7. y \notin S
      BY <1>6, <3>5
    <3>8. ~ place <= Cardinality(UpTo(values, y))
      BY <3>5, <3>7
    <3>9. Cardinality(UpTo(values, y)) \in Int
      BY <3>5, UpToAndUnder
    <3> QED BY <1>1, <3>6, <3>8, <3>9
  <2> QED BY <2>1, <2>2
<1>8. Ranked(values, place) = CHOOSE x \in all : /\ Cardinality(Under(values, x)) < place
                                                /\ place <= Cardinality(UpTo(values, x))
  BY DEF Ranked, Under, UpTo
<1> HIDE DEF all
<1>9. /\ Ranked(values, place) \in all
      /\ Cardinality(Under(values, Ranked(values, place))) < place
      /\ place <= Cardinality(UpTo(values, Ranked(values, place)))
  BY <1>6, <1>7, <1>8
<1> QED
  BY <1>3, <1>9 DEF all

\* Ranks are monotone; the first is the least value and the last the greatest.
LEMMA RanksRise ==
    ASSUME NEW values \in Seq(Int), NEW p \in 1..Len(values), NEW q \in 1..Len(values)
    PROVE  /\ p <= q => Ranked(values, p) <= Ranked(values, q)
           /\ \A k \in 1..Len(values) : /\ Ranked(values, 1) <= values[k]
                                        /\ values[k] <= Ranked(values, Len(values))
<1> DEFINE n == Len(values)
           r(i) == Ranked(values, i)
<1>1. DOMAIN values = 1..n /\ n \in Nat /\ 1 \in 1..n /\ n \in 1..n
  BY LenProperties
<1>2. \A i \in 1..n : /\ r(i) \in Int /\ Cardinality(Under(values, r(i))) < i
                      /\ i <= Cardinality(UpTo(values, r(i)))
  BY RankedIs
<1> HIDE DEF r
<1>3. \A x \in Int : /\ IsFiniteSet(UpTo(values, x)) /\ IsFiniteSet(Under(values, x))
                     /\ Cardinality(UpTo(values, x)) \in 0..n /\ Cardinality(Under(values, x)) \in 0..n
                     /\ \A y \in Int : x < y => UpTo(values, x) \subseteq Under(values, y)
  BY UpToAndUnder
<1>4. p <= q => r(p) <= r(q)
  <2> SUFFICES ASSUME p <= q, r(q) < r(p) PROVE FALSE
    BY <1>2
  <2>1. UpTo(values, r(q)) \in SUBSET Under(values, r(p))
    BY <1>2, <1>3
  <2>2. IsFiniteSet(Under(values, r(p)))
    BY <1>2, <1>3
  <2>3. Cardinality(UpTo(values, r(q))) <= Cardinality(Under(values, r(p)))
    BY <2>1, <2>2, FS_Subset
  <2>4. /\ Cardinality(UpTo(values, r(q))) \in Int /\ Cardinality(Under(values, r(p))) \in Int
        /\ q <= Cardinality(UpTo(values, r(q))) /\ Cardinality(Under(values, r(p))) < p
    BY <1>2, <1>3
  <2> QED BY <2>3, <2>4
<1>5. ASSUME NEW k \in 1..n PROVE r(1) <= values[k]
  <2> SUFFICES ASSUME values[k] < r(1) PROVE FALSE
    BY <1>1, <1>2
  <2>1. k \in Under(values, r(1)) /\ IsFiniteSet(Under(values, r(1)))
    BY <1>1, <1>2, <1>3 DEF Under
  <2>2. Cardinality(Under(values, r(1))) # 0
    BY <2>1, FS_EmptySet
  <2>3. Cardinality(Under(values, r(1))) \in 0..n /\ Cardinality(Under(values, r(1))) < 1
    BY <1>1, <1>2, <1>3
  <2> QED BY ONLY <1>1, <2>2, <2>3
<1>6. ASSUME NEW k \in 1..n PROVE values[k] <= r(n)
  <2>1. UpTo(values, r(n)) \in SUBSET (1..n)
    BY <1>1 DEF UpTo
  <2>2. IsFiniteSet(1..n) /\ Cardinality(1..n) = n
    <3>1. n \in Nat /\ n \in Int /\ 1 \in Int
      BY <1>1
    <3> QED BY ONLY <3>1, PositionsCount, FS_Interval
  <2>3. Cardinality(UpTo(values, r(n))) = n
    <3>1. /\ Cardinality(UpTo(values, r(n))) \in 0..n
          /\ n <= Cardinality(UpTo(values, r(n)))
      BY <1>1, <1>2, <1>3
    <3> QED BY ONLY <1>1, <3>1
  <2>4. UpTo(values, r(n)) = 1..n
    BY <2>1, <2>2, <2>3, FS_Subset
  <2> QED BY <1>1, <2>4 DEF UpTo
<1> QED
  BY <1>4, <1>5, <1>6 DEF r

\* The place below a quantile, and how many thirds it lies beyond it.
PlaceOf(l, q) == (q * (l - 1)) \div 3 + 1
Beyond(l, q) == (q * (l - 1)) % 3

\* Both are in range, and no quantile lies beyond the last place.
LEMMA PlacesOfQuantiles ==
    ASSUME NEW l \in Nat, l # 0, NEW q \in 0..3
    PROVE  /\ PlaceOf(l, q) \in 1..l /\ Beyond(l, q) \in 0..2
           /\ Beyond(l, q) # 0 => PlaceOf(l, q) + 1 \in 1..l
           /\ PlaceOf(l, 0) = 1 /\ Beyond(l, 0) = 0
           /\ PlaceOf(l, 3) = l /\ Beyond(l, 3) = 0
<1> DEFINE m == l - 1
<1>1. m \in Nat /\ l = m + 1
  OBVIOUS
<1> HIDE DEF m
<1>2. \A p \in Nat : p = 3 * (p \div 3) + (p % 3) /\ p % 3 \in 0..2 /\ p \div 3 \in Nat
  OBVIOUS
<1>3. /\ q * m \in Nat /\ q * m <= 3 * m
  <2>1. q = 0 \/ q = 1 \/ q = 2 \/ q = 3
    OBVIOUS
  <2>2. CASE q = 0
    BY <1>1, <2>2
  <2>3. CASE q = 1
    BY <1>1, <2>3
  <2>4. CASE q = 2
    BY <1>1, <2>4
  <2>5. CASE q = 3
    BY <1>1, <2>5
  <2> QED BY <2>1, <2>2, <2>3, <2>4, <2>5
<1>4. /\ PlaceOf(l, q) = (q * m) \div 3 + 1 /\ Beyond(l, q) = (q * m) % 3
      /\ PlaceOf(l, 0) = (0 * m) \div 3 + 1 /\ Beyond(l, 0) = (0 * m) % 3
      /\ PlaceOf(l, 3) = (3 * m) \div 3 + 1 /\ Beyond(l, 3) = (3 * m) % 3
  BY DEF PlaceOf, Beyond, m
<1>5. PICK p \in Nat : p = q * m /\ p <= 3 * m
  BY <1>3
<1>6. PlaceOf(l, q) = p \div 3 + 1 /\ Beyond(l, q) = p % 3
  BY <1>4, <1>5
<1>7. p = 3 * (p \div 3) + (p % 3) /\ p % 3 \in 0..2 /\ p \div 3 \in Nat
  BY <1>2
<1>8. /\ p \div 3 + 1 \in 1..l
      /\ p % 3 # 0 => p \div 3 + 2 \in 1..l
  <2> DEFINE d == p \div 3
             e == p % 3
  <2>1. p = 3 * d + e /\ e \in 0..2 /\ d \in Nat
    BY <1>7
  <2> HIDE DEF d, e
  <2>2. d + 1 \in 1..l /\ (e # 0 => d + 2 \in 1..l)
    BY <1>1, <1>5, <2>1
  <2> QED BY <2>2 DEF d, e
<1>9. /\ PlaceOf(l, 0) = 1 /\ Beyond(l, 0) = 0
      /\ PlaceOf(l, 3) = l /\ Beyond(l, 3) = 0
  <2>1. 0 * m = 0 /\ 3 * m \in Nat
    BY <1>1
  <2>2. 0 \div 3 = 0 /\ 0 % 3 = 0
    OBVIOUS
  <2>3. (3 * m) \div 3 = m /\ (3 * m) % 3 = 0
    BY <1>1
  <2> QED BY <1>1, <1>4, <2>1, <2>2, <2>3
<1>10. (p \div 3 + 1) + 1 = p \div 3 + 2
  BY <1>7
<1> QED
  BY <1>6, <1>7, <1>8, <1>9, <1>10

\* Where a quantile lies among the values.
LEMMA QuantileLies ==
    ASSUME NEW values \in Seq(Int), Len(values) # 0, NEW q \in 0..3
    PROVE  LET p == PlaceOf(Len(values), q)
               e == Quantile(values, q)
           IN  /\ p \in 1..Len(values) /\ e \in Int /\ Ranked(values, p) \in Int
               /\ 3 * Ranked(values, p) <= e
               /\ \/ e = 3 * Ranked(values, p)
                  \/ /\ p + 1 \in 1..Len(values) /\ Ranked(values, p + 1) \in Int
                     /\ Ranked(values, p) < Ranked(values, p + 1) => e < 3 * Ranked(values, p + 1)
<1> DEFINE l == Len(values)
           p == PlaceOf(l, q)
           b == Beyond(l, q)
<1>1. l \in Nat /\ l # 0
  BY LenProperties
<1>2. /\ p \in 1..l /\ b \in 0..2
      /\ b # 0 => p + 1 \in 1..l
  BY <1>1, PlacesOfQuantiles
<1>3. Quantile(values, q) = Ranked(values, p) * (3 - b)
                              + (IF b = 0 THEN 0 ELSE Ranked(values, p + 1) * b)
  BY DEF Quantile, PlaceOf, Beyond
<1> HIDE DEF p, b, l
<1>4. Ranked(values, p) \in Int
  BY <1>2, RankedIs DEF l
<1>5. b # 0 => Ranked(values, p + 1) \in Int /\ Ranked(values, p) <= Ranked(values, p + 1)
  <2>1. p <= p + 1
    BY <1>2
  <2> QED BY <1>2, <2>1, RankedIs, RanksRise DEF l
<1>6. CASE b = 0
  <2>1. Quantile(values, q) = 3 * Ranked(values, p)
    BY <1>3, <1>4, <1>6
  <2> QED BY <1>2, <1>4, <2>1 DEF l, p
<1>7. CASE b # 0
  <2>1. PICK x \in Int : x = Ranked(values, p)
    BY <1>4
  <2>2. PICK y \in Int : y = Ranked(values, p + 1)
    BY <1>5, <1>7
  <2>3. x <= y
    BY <1>5, <1>7, <2>1, <2>2
  <2>4. Quantile(values, q) = x * (3 - b) + y * b
    BY <1>3, <1>7, <2>1, <2>2
  <2>5. b = 1 \/ b = 2
    BY <1>2, <1>7
  <2>6. /\ Quantile(values, q) \in Int /\ 3 * x <= Quantile(values, q)
        /\ x < y => Quantile(values, q) < 3 * y
    BY ONLY <2>3, <2>4, <2>5, x \in Int, y \in Int
  <2> QED BY <1>2, <1>7, <2>1, <2>2, <2>6 DEF l, p
<1> QED
  BY <1>6, <1>7

\* How many of two different numbers are below a third.
LEMMA CountOfTwo ==
    ASSUME NEW a \in Int, NEW b \in Int, a # b, NEW t \in Int
    PROVE  Cardinality({d \in {a, b} : d < t}) = (IF a < t THEN 1 ELSE 0) + (IF b < t THEN 1 ELSE 0)
<1> DEFINE below == {d \in {a, b} : d < t}
<1>1. CASE a < t /\ b < t
  <2>1. IsFiniteSet({a}) /\ Cardinality({a}) = 1
    BY FS_Singleton
  <2>2. Cardinality({a} \cup {b}) = IF b \in {a} THEN Cardinality({a}) ELSE Cardinality({a}) + 1
    BY <2>1, FS_AddElement
  <2>3. below = {a} \cup {b} /\ b \notin {a}
    BY <1>1
  <2>4. Cardinality(below) = 2
    BY <2>1, <2>2, <2>3
  <2> QED BY <1>1, <2>4
<1>2. CASE a < t /\ ~ b < t
  <2>1. below = {a}
    BY <1>2
  <2>2. Cardinality(below) = 1
    BY <2>1, FS_Singleton
  <2> QED BY <1>2, <2>2
<1>3. CASE ~ a < t /\ b < t
  <2>1. below = {b}
    BY <1>3
  <2>2. Cardinality(below) = 1
    BY <2>1, FS_Singleton
  <2> QED BY <1>3, <2>2
<1>4. CASE ~ a < t /\ ~ b < t
  <2>1. below = {}
    BY <1>4
  <2>2. Cardinality(below) = 0
    BY <2>1, FS_EmptySet
  <2> QED BY <1>4, <2>2
<1> QED
  BY <1>1, <1>2, <1>3, <1>4

\* A set of at most three.
LEMMA AtMostThree ==
    ASSUME NEW a, NEW b, NEW c, NEW S, S \subseteq {a, b, c}
    PROVE  Cardinality(S) < 4
<1>1. IsFiniteSet({a}) /\ Cardinality({a}) = 1
  BY FS_Singleton
<1>2. /\ IsFiniteSet({a} \cup {b})
      /\ Cardinality({a} \cup {b}) = IF b \in {a} THEN Cardinality({a}) ELSE Cardinality({a}) + 1
  BY <1>1, FS_AddElement
<1> DEFINE two == {a} \cup {b}
<1>3. IsFiniteSet(two) /\ Cardinality(two) \in {1, 2}
  BY <1>1, <1>2
<1> HIDE DEF two
<1>4. /\ IsFiniteSet(two \cup {c})
      /\ Cardinality(two \cup {c}) = IF c \in two THEN Cardinality(two) ELSE Cardinality(two) + 1
  BY <1>3, FS_AddElement
<1> DEFINE three == two \cup {c}
<1>5. IsFiniteSet(three) /\ Cardinality(three) \in {1, 2, 3}
  BY <1>3, <1>4
<1>6. S \in SUBSET three
  BY DEF two
<1> HIDE DEF three
<1>7. IsFiniteSet(S) /\ Cardinality(S) <= Cardinality(three)
  BY <1>5, <1>6, FS_Subset
<1>8. Cardinality(S) \in Nat
  BY <1>7, FS_CardinalityType
<1> QED
  BY <1>5, <1>7, <1>8

\* With four edges apart, an interval counts the inner edges below a value:
\* it is a number from 1 to 3 and monotone.
LEMMA IntervalsOfThirds ==
    ASSUME NEW values \in Seq(Int), Len(values) # 0, ~ Cardinality(Edges(values)) < 4,
           NEW k \in 1..Len(values)
    PROVE  LET e1 == Quantile(values, 1)
               e2 == Quantile(values, 2)
               x == values[k]
           IN  Interval(x, Edges(values)) =
                  1 + (IF e1 < 3 * x THEN 1 ELSE 0) + (IF e2 < 3 * x THEN 1 ELSE 0)
<1> DEFINE l == Len(values)
           e(q) == Quantile(values, q)
           E == Edges(values)
           x == values[k]
           below == {d \in E \ {Min(E)} : d < 3 * x}
<1>1. l \in Nat /\ l # 0 /\ 1 \in 1..l /\ l \in 1..l /\ x \in Int
  BY LenProperties
<1>2. E = {e(0), e(1), e(2), e(3)}
  <2>1. 0..3 = {0, 1, 2, 3}
    OBVIOUS
  <2> QED BY <2>1 DEF Edges
<1>3. \A q \in 0..3 : /\ PlaceOf(l, q) \in 1..l /\ e(q) \in Int
                      /\ Ranked(values, PlaceOf(l, q)) \in Int
                      /\ 3 * Ranked(values, PlaceOf(l, q)) <= e(q)
  BY QuantileLies
<1>4. e(0) = 3 * Ranked(values, 1) /\ e(3) = 3 * Ranked(values, l)
  <2>1. /\ PlaceOf(l, 0) = 1 /\ Beyond(l, 0) = 0
        /\ PlaceOf(l, 3) = l /\ Beyond(l, 3) = 0
    BY <1>1, PlacesOfQuantiles
  <2>2. /\ Quantile(values, 0) = Ranked(values, 1) * (3 - 0) + 0
        /\ Quantile(values, 3) = Ranked(values, l) * (3 - 0) + 0
    BY <2>1 DEF Quantile, PlaceOf, Beyond
  <2>3. Ranked(values, 1) \in Int /\ Ranked(values, l) \in Int
    BY <1>1, RankedIs
  <2> QED BY <2>2, <2>3
<1> HIDE DEF e
<1>5. e(0) \in Int /\ e(1) \in Int /\ e(2) \in Int /\ e(3) \in Int
  BY <1>3
<1>6. e(0) <= e(1) /\ e(0) <= e(2) /\ e(0) <= e(3)
  <2>1. ASSUME NEW q \in {1, 2, 3} PROVE e(0) <= e(q)
    <3> DEFINE p == PlaceOf(l, q)
    <3>1. /\ p \in 1..l /\ e(q) \in Int
          /\ Ranked(values, p) \in Int /\ 3 * Ranked(values, p) <= e(q)
      <4>1. q \in 0..3
        OBVIOUS
      <4> QED BY ONLY <1>3, <4>1
    <3> HIDE DEF p
    <3>2. Ranked(values, 1) <= Ranked(values, p)
      <4>1. 1 \in 1..Len(values) /\ p \in 1..Len(values) /\ 1 <= p
        BY <1>1, <3>1
      <4> QED BY <4>1, RanksRise
    <3>3. 3 * Ranked(values, p) <= e(q) /\ Ranked(values, p) \in Int /\ e(q) \in Int
      BY <3>1
    <3>4. Ranked(values, 1) \in Int
      BY <1>1, RankedIs
    <3> QED BY ONLY <1>4, <3>2, <3>3, <3>4
  <2> QED BY <2>1
<1>7. /\ e(0) # e(1) /\ e(0) # e(2) /\ e(0) # e(3)
      /\ e(1) # e(2) /\ e(1) # e(3) /\ e(2) # e(3)
  <2> SUFFICES ASSUME \/ e(0) = e(1) \/ e(0) = e(2) \/ e(0) = e(3)
                      \/ e(1) = e(2) \/ e(1) = e(3) \/ e(2) = e(3)
               PROVE  FALSE
    OBVIOUS
  <2>1. \E a, b, c : E \subseteq {a, b, c}
    BY <1>2
  <2> HIDE DEF E
  <2>2. Cardinality(E) < 4
    BY <2>1, AtMostThree
  <2> QED BY <2>2 DEF E
<1>8. E \in SUBSET Int /\ IsFiniteSet(E) /\ E # {}
  <2>1. IsFiniteSet(0..3)
    <3>1. 0 \in Int /\ 3 \in Int
      OBVIOUS
    <3> QED BY ONLY <3>1, FS_Interval
  <2> DEFINE f == [q \in 0..3 |-> Quantile(values, q)]
  <2>2. E = {f[q] : q \in 0..3}
    BY DEF Edges
  <2> HIDE DEF f, E
  <2>3. IsFiniteSet(E)
    BY <2>1, <2>2, FiniteImage
  <2>4. E = {e(0), e(1), e(2), e(3)}
    BY <1>2
  <2> QED BY ONLY <1>5, <2>3, <2>4
<1>9. Min(E) = e(0)
  <2> HIDE DEF E
  <2>1. Min(E) \in E /\ \A y \in E : Min(E) <= y
    BY <1>8, MinOfSet
  <2>2. E = {e(0), e(1), e(2), e(3)}
    BY <1>2
  <2>3. Min(E) \in {e(0), e(1), e(2), e(3)} /\ Min(E) <= e(0)
    BY <2>1, <2>2
  <2> QED BY ONLY <1>5, <1>6, <2>3
<1>10. ~ e(3) < 3 * x
  <2>1. x <= Ranked(values, l) /\ Ranked(values, l) \in Int
    BY <1>1, RanksRise, RankedIs
  <2> QED BY ONLY <1>1, <1>4, <2>1
<1>11. below = {d \in {e(1), e(2)} : d < 3 * x}
  <2> HIDE DEF E, x
  <2> QED BY <1>2, <1>7, <1>9, <1>10
<1>12. Cardinality(below) = (IF e(1) < 3 * x THEN 1 ELSE 0) + (IF e(2) < 3 * x THEN 1 ELSE 0)
  <2>1. 3 * x \in Int
    BY <1>1
  <2>2. Cardinality({d \in {e(1), e(2)} : d < 3 * x})
          = (IF e(1) < 3 * x THEN 1 ELSE 0) + (IF e(2) < 3 * x THEN 1 ELSE 0)
    BY ONLY <1>5, <1>7, <2>1, CountOfTwo
  <2> QED BY ONLY <1>11, <2>2
<1>13. Interval(x, E) = 1 + Cardinality(below)
  BY DEF Interval
<1> QED
  BY <1>12, <1>13 DEF e

\* When all values differ, as many as the place are up to the value of a place.
LEMMA RankCounts ==
    ASSUME NEW values \in Seq(Int), IsInjective(values), NEW p \in 1..Len(values)
    PROVE  Cardinality(UpTo(values, Ranked(values, p))) = p
<1> DEFINE n == Len(values)
           m == Ranked(values, p)
           U == Under(values, m)
<1>1. DOMAIN values = 1..n /\ n \in Nat /\ ToSet(values) = {values[k] : k \in 1..n}
  BY ToSetOfSeq
<1>2. /\ m \in ToSet(values) /\ m \in Int /\ Cardinality(U) < p
      /\ p <= Cardinality(UpTo(values, m))
  BY RankedIs
<1> HIDE DEF m
<1>3. PICK k \in 1..n : values[k] = m
  BY <1>1, <1>2
<1>4. \A j \in 1..n : values[j] \in Int /\ (values[j] = m => j = k)
  <2>1. \A i, j \in 1..n : values[i] = values[j] => i = j
    BY ONLY <1>1, IsInjective(values) DEF IsInjective
  <2>2. \A j \in 1..n : values[j] \in Int
    BY ONLY <1>1, values \in Seq(Int)
  <2> QED BY ONLY <1>3, <2>1, <2>2
<1>5. UpTo(values, m) = U \cup {k} /\ k \notin U
  BY <1>1, <1>2, <1>3, <1>4 DEF UpTo, Under
<1>6. IsFiniteSet(U) /\ Cardinality(U) \in 0..n
  BY <1>2, UpToAndUnder
<1> HIDE DEF U
<1>7. Cardinality(U \cup {k}) = Cardinality(U) + 1
  BY <1>5, <1>6, FS_AddElement
<1>8. Cardinality(UpTo(values, m)) = Cardinality(U) + 1
  BY <1>5, <1>7
<1> QED
  BY <1>1, <1>2, <1>6, <1>8 DEF m

\* The places of the values that are up to a quantile.
UpToQuantile(values, q) == {k \in DOMAIN values : ~ Quantile(values, q) < 3 * values[k]}

\* When all values differ, they are as many as the place below the quantile.
LEMMA QuantileCounts ==
    ASSUME NEW values \in Seq(Int), Len(values) # 0, IsInjective(values), NEW q \in 0..3
    PROVE  /\ UpToQuantile(values, q) \in SUBSET (1..Len(values))
           /\ IsFiniteSet(UpToQuantile(values, q))
           /\ Cardinality(UpToQuantile(values, q)) = PlaceOf(Len(values), q)
<1> DEFINE n == Len(values)
           p == PlaceOf(n, q)
           e == Quantile(values, q)
           x == Ranked(values, p)
           y == Ranked(values, p + 1)
           A == UpToQuantile(values, q)
<1>1. DOMAIN values = 1..n /\ n \in Nat
  BY LenProperties
<1>2. \A k \in 1..n : values[k] \in Int
  BY <1>1
<1>3. /\ p \in 1..n /\ e \in Int /\ x \in Int /\ 3 * x <= e
      /\ \/ e = 3 * x
         \/ p + 1 \in 1..n /\ y \in Int /\ (x < y => e < 3 * y)
  BY QuantileLies
<1>4. A = {k \in 1..n : ~ e < 3 * values[k]}
  BY <1>1 DEF UpToQuantile
<1> HIDE DEF p, e
<1>5. Cardinality(UpTo(values, x)) = p
  BY <1>3, RankCounts
<1> HIDE DEF x, A
<1>6. A \in SUBSET (1..n) /\ IsFiniteSet(A)
  <2>1. 1 \in Int /\ n \in Int
    BY <1>1
  <2>2. IsFiniteSet(1..n)
    BY ONLY <2>1, FS_Interval
  <2>3. A \in SUBSET (1..n)
    BY <1>4
  <2> QED BY <2>2, <2>3, FS_Subset
<1>7. UpTo(values, x) \in SUBSET A
  BY <1>1, <1>2, <1>3, <1>4 DEF UpTo
<1>8. p <= Cardinality(A)
  BY <1>5, <1>6, <1>7, FS_Subset
<1>9. CASE e = 3 * x
  <2>1. A \subseteq UpTo(values, x)
    BY <1>1, <1>2, <1>3, <1>4, <1>9 DEF UpTo
  <2>2. A = UpTo(values, x)
    BY <1>7, <2>1
  <2> QED BY <1>5, <1>6, <2>2 DEF A, p
<1>10. CASE p + 1 \in 1..n /\ y \in Int /\ (x < y => e < 3 * y)
  <2>1. Cardinality(UpTo(values, y)) = p + 1
    BY <1>10, RankCounts
  <2>2. x <= y
    <3>1. p <= p + 1
      BY <1>3
    <3> QED BY <1>3, <1>10, <3>1, RanksRise DEF x
  <2>3. x # y
    BY <1>3, <1>5, <2>1
  <2>4. Cardinality(Under(values, y)) < p + 1
    BY <1>10, RankedIs
  <2> HIDE DEF y
  <2>5. e < 3 * y
    BY <1>3, <1>10, <2>2, <2>3
  <2>6. A \in SUBSET Under(values, y)
    BY <1>1, <1>2, <1>3, <1>4, <1>10, <2>5 DEF Under
  <2>7. IsFiniteSet(Under(values, y)) /\ Cardinality(Under(values, y)) \in 0..n
    BY <1>10, UpToAndUnder
  <2>8. Cardinality(A) <= Cardinality(Under(values, y))
    BY <2>6, <2>7, FS_Subset
  <2>9. Cardinality(A) \in Nat
    BY <1>6, FS_CardinalityType
  <2>10. Cardinality(A) = p
    BY ONLY <1>1, <1>3, <1>8, <2>4, <2>7, <2>8, <2>9
  <2> QED BY <1>6, <2>10 DEF A, p
<1> QED
  BY <1>3, <1>9, <1>10

\* The places below the quantiles cut the places into thirds.
LEMMA PlacesAreThirds ==
    ASSUME NEW l \in Nat, l # 0
    PROVE  /\ PlaceOf(l, 1) \in Nat /\ PlaceOf(l, 2) \in Nat /\ PlaceOf(l, 1) <= PlaceOf(l, 2)
           /\ \E d \in Nat :
                 /\ PlaceOf(l, 1) \in {d, d + 1}
                 /\ PlaceOf(l, 2) - PlaceOf(l, 1) \in {d, d + 1}
                 /\ l - PlaceOf(l, 2) \in {d, d + 1}
<1> DEFINE m == l - 1
           d == m \div 3
           e == m % 3
<1>1. m \in Nat /\ l = m + 1
  OBVIOUS
<1>2. m = 3 * d + e /\ e \in 0..2 /\ d \in Nat
  BY <1>1
<1>3. PlaceOf(l, 1) = d + 1
  <2>1. 1 * m = m
    BY <1>1
  <2> QED BY <2>1 DEF PlaceOf
<1>4. PlaceOf(l, 2) = (2 * m) \div 3 + 1
  BY DEF PlaceOf
<1> HIDE DEF m, d, e
<1>5. (2 * m) \div 3 = IF e = 2 THEN 2 * d + 1 ELSE 2 * d
  <2>1. PICK z \in Nat : z = 2 * m
    BY <1>1
  <2>2. z = 3 * (z \div 3) + (z % 3) /\ z % 3 \in 0..2 /\ z \div 3 \in Nat
    OBVIOUS
  <2>3. PICK f \in Nat, g \in 0..2 : f = z \div 3 /\ z = 3 * f + g
    BY <2>2
  <2>4. f = IF e = 2 THEN 2 * d + 1 ELSE 2 * d
    BY ONLY <1>1, <1>2, <2>1, <2>3
  <2> QED BY <2>1, <2>3, <2>4
<1>6. e = 0 \/ e = 1 \/ e = 2
  BY <1>2
<1>7. CASE e = 2
  <2>1. PlaceOf(l, 2) = 2 * d + 2 /\ l = 3 * d + 3
    BY <1>1, <1>2, <1>4, <1>5, <1>7
  <2>2. /\ PlaceOf(l, 1) \in Nat /\ PlaceOf(l, 2) \in Nat /\ PlaceOf(l, 1) <= PlaceOf(l, 2)
        /\ PlaceOf(l, 1) \in {d, d + 1} /\ PlaceOf(l, 2) - PlaceOf(l, 1) \in {d, d + 1}
        /\ l - PlaceOf(l, 2) \in {d, d + 1}
    BY <1>2, <1>3, <2>1
  <2> QED BY <1>2, <2>2
<1>8. CASE e # 2
  <2>1. PlaceOf(l, 2) = 2 * d + 1 /\ (l = 3 * d + 1 \/ l = 3 * d + 2)
    BY <1>1, <1>2, <1>4, <1>5, <1>6, <1>8
  <2>2. /\ PlaceOf(l, 1) \in Nat /\ PlaceOf(l, 2) \in Nat /\ PlaceOf(l, 1) <= PlaceOf(l, 2)
        /\ PlaceOf(l, 1) \in {d, d + 1} /\ PlaceOf(l, 2) - PlaceOf(l, 1) \in {d, d + 1}
        /\ l - PlaceOf(l, 2) \in {d, d + 1}
    BY <1>2, <1>3, <2>1
  <2> QED BY <1>2, <2>2
<1> QED
  BY <1>7, <1>8

\* The places of the values in a tier.
InTier(values, tier) == {k \in 1..Len(values) : Interval(values[k], Edges(values)) = tier}

\* With four edges apart and all values different, the tiers are thirds.
LEMMA TierSizes ==
    ASSUME NEW values \in Seq(Int), Len(values) # 0, ~ Cardinality(Edges(values)) < 4,
           IsInjective(values)
    PROVE  \A i, j \in 1..3 : Cardinality(InTier(values, i)) - Cardinality(InTier(values, j)) <= 1
<1> DEFINE n == Len(values)
           e1 == Quantile(values, 1)
           e2 == Quantile(values, 2)
           A1 == UpToQuantile(values, 1)
           A2 == UpToQuantile(values, 2)
           b1 == PlaceOf(n, 1)
           b2 == PlaceOf(n, 2)
           T(i) == InTier(values, i)
<1>1. DOMAIN values = 1..n /\ n \in Nat /\ \A k \in 1..n : values[k] \in Int
  BY LenProperties
<1>2. /\ A1 \in SUBSET (1..n) /\ IsFiniteSet(A1) /\ Cardinality(A1) = b1
      /\ A2 \in SUBSET (1..n) /\ IsFiniteSet(A2) /\ Cardinality(A2) = b2
  <2>1. 1 \in 0..3 /\ 2 \in 0..3
    OBVIOUS
  <2> QED BY <2>1, QuantileCounts
<1>3. /\ A1 = {k \in 1..n : ~ e1 < 3 * values[k]}
      /\ A2 = {k \in 1..n : ~ e2 < 3 * values[k]}
  BY <1>1 DEF UpToQuantile
<1>4. /\ b1 \in Nat /\ b2 \in Nat /\ b1 <= b2
      /\ \E d \in Nat : b1 \in {d, d + 1} /\ b2 - b1 \in {d, d + 1} /\ n - b2 \in {d, d + 1}
  BY <1>1, PlacesAreThirds
<1>5. \A k \in 1..n : Interval(values[k], Edges(values))
                        = 1 + (IF e1 < 3 * values[k] THEN 1 ELSE 0)
                            + (IF e2 < 3 * values[k] THEN 1 ELSE 0)
  BY IntervalsOfThirds
<1>6. e1 \in Int /\ e2 \in Int
  <2>1. 1 \in 0..3 /\ 2 \in 0..3
    OBVIOUS
  <2> QED BY <2>1, QuantileLies
<1> HIDE DEF A1, A2, b1, b2, e1, e2
<1>7. A1 \subseteq A2
  <2>1. CASE e1 <= e2
    BY <1>1, <1>3, <1>6, <2>1
  <2>2. CASE e2 < e1
    <3>1. A2 \in SUBSET A1
      BY <1>1, <1>3, <1>6, <2>2
    <3>2. Cardinality(A2) <= Cardinality(A1) /\ (Cardinality(A1) = Cardinality(A2) => A1 = A2)
      BY <1>2, <3>1, FS_Subset
    <3> QED BY <1>2, <1>4, <3>2
  <2> QED BY <1>6, <2>1, <2>2
<1>8. \A k \in 1..n : Interval(values[k], Edges(values))
                        = IF k \in A1 THEN 1 ELSE IF k \in A2 THEN 2 ELSE 3
  BY <1>3, <1>5, <1>7
<1>9. T(1) = A1 /\ T(2) = A2 \ A1 /\ T(3) = (1..n) \ A2
  <2> DEFINE h(k) == Interval(values[k], Edges(values))
  <2>1. \A i : T(i) = {k \in 1..n : h(k) = i}
    BY DEF InTier
  <2>2. \A k \in 1..n : /\ h(k) = 1 <=> k \in A1
                        /\ h(k) = 2 <=> k \notin A1 /\ k \in A2
                        /\ h(k) = 3 <=> k \notin A1 /\ k \notin A2
    BY <1>8
  <2> HIDE DEF T, h
  <2>3. T(1) = A1
    BY ONLY <1>2, <2>1, <2>2
  <2>4. T(2) = A2 \ A1
    BY ONLY <1>2, <2>1, <2>2
  <2>5. T(3) = (1..n) \ A2
    BY ONLY <1>2, <1>7, <2>1, <2>2
  <2> QED BY <2>3, <2>4, <2>5
<1>10. IsFiniteSet(1..n) /\ Cardinality(1..n) = n
  <2>1. n \in Nat /\ n \in Int /\ 1 \in Int
    BY <1>1
  <2> QED BY ONLY <2>1, PositionsCount, FS_Interval
<1>11. Cardinality(A2 \ A1) = b2 - b1
  <2>1. A2 \cap A1 = A1
    BY <1>7
  <2>2. Cardinality(A2 \ A1) = Cardinality(A2) - Cardinality(A2 \cap A1)
    BY <1>2, FS_Difference
  <2> QED BY <1>2, <2>1, <2>2
<1>12. Cardinality((1..n) \ A2) = n - b2
  <2>1. (1..n) \cap A2 = A2
    BY <1>2
  <2>2. Cardinality((1..n) \ A2) = Cardinality(1..n) - Cardinality((1..n) \cap A2)
    BY <1>10, FS_Difference
  <2> QED BY <1>2, <1>10, <2>1, <2>2
<1>13. Cardinality(T(1)) = b1 /\ Cardinality(T(2)) = b2 - b1 /\ Cardinality(T(3)) = n - b2
  BY <1>2, <1>9, <1>11, <1>12
<1> HIDE DEF T, n
<1>14. PICK d \in Nat : b1 \in {d, d + 1} /\ b2 - b1 \in {d, d + 1} /\ n - b2 \in {d, d + 1}
  BY <1>4
<1>15. \A i \in 1..3 : Cardinality(T(i)) \in {d, d + 1}
  <2>1. 1..3 = {1, 2, 3}
    OBVIOUS
  <2> QED BY <1>13, <1>14, <2>1
<1>16. \A i, j \in 1..3 : Cardinality(T(i)) - Cardinality(T(j)) <= 1
  <2> TAKE i, j \in 1..3
  <2>1. PICK u \in {d, d + 1}, w \in {d, d + 1} : u = Cardinality(T(i)) /\ w = Cardinality(T(j))
    BY <1>15
  <2>2. u - w <= 1
    BY ONLY d \in Nat, u \in {d, d + 1}, w \in {d, d + 1}
  <2> QED BY <2>1, <2>2
<1> QED
  BY <1>16 DEF T

\* The rows of a report in which a tier is set: all have the interval of their cost.
LEMMA RowsInTiers ==
    ASSUME NEW rows, Balanced(rows), rows # <<>>,
           ToSet(Column(rows, "cost_tier")) # {Missing}
    PROVE  LET costs == Column(rows, "total_cost")
           IN  /\ costs \in Seq(Int) /\ Len(costs) = Len(rows) /\ Len(rows) \in Nat \ {0}
               /\ DOMAIN rows = 1..Len(rows)
               /\ ~ Cardinality(Edges(costs)) < 4
               /\ \A k \in 1..Len(rows) : /\ costs[k] = rows[k].total_cost
                                          /\ rows[k].cost_tier = Interval(costs[k], Edges(costs))
<1> DEFINE costs == Column(rows, "total_cost")
           few == Cardinality(ToSet(costs)) < 3 \/ Cardinality(Edges(costs)) < 4
<1>1. DOMAIN rows = 1..Len(rows) /\ Len(rows) \in Nat
  BY LenProperties DEF Balanced
<1>2. Len(rows) # 0
  BY EmptySeq DEF Balanced
<1>3. costs = [k \in 1..Len(rows) |-> rows[k].total_cost]
  BY <1>1 DEF Column
<1>4. \A k \in 1..Len(rows) : rows[k].total_cost \in Int
  BY DEF Balanced
<1>5. costs \in Seq(Int) /\ Len(costs) = Len(rows) /\ DOMAIN costs = 1..Len(rows)
  BY <1>1, <1>3, <1>4
<1>6. PICK k \in 1..Len(rows) : rows[k].cost_tier # Missing
  <2> SUFFICES ASSUME \A k \in 1..Len(rows) : rows[k].cost_tier = Missing
               PROVE  FALSE
    OBVIOUS
  <2>1. ToSet(Column(rows, "cost_tier")) = {rows[k].cost_tier : k \in 1..Len(rows)}
    BY <1>1 DEF ToSet, Column
  <2>2. 1 \in 1..Len(rows)
    BY <1>1, <1>2
  <2> QED BY <2>1, <2>2
<1>7. \A j \in 1..Len(rows) :
         rows[j].cost_tier = IF few THEN Missing ELSE Interval(costs[j], Edges(costs))
  <2>1. \A j \in 1..Len(rows) : rows[j].cost_tier = CostTierBand(costs)[j]
    BY DEF Balanced
  <2> HIDE DEF costs
  <2> QED BY <1>5, <2>1 DEF CostTierBand
<1>8. ~ few
  BY <1>6, <1>7
<1> QED
  BY <1>1, <1>2, <1>3, <1>5, <1>7, <1>8

\* The tiers of such rows are thirds.
LEMMA TieredRows ==
    ASSUME NEW rows, Balanced(rows), rows # <<>>,
           ToSet(Column(rows, "cost_tier")) # {Missing}
    PROVE  /\ \A j, k \in DOMAIN rows :
                 rows[j].total_cost <= rows[k].total_cost =>
                   /\ rows[j].cost_tier \in 1..3
                   /\ rows[j].cost_tier <= rows[k].cost_tier
           /\ IsInjective(Column(rows, "total_cost")) =>
                 \A i, j \in 1..3 :
                    Len(Those(rows, LAMBDA row : row.cost_tier = i))
                      - Len(Those(rows, LAMBDA row : row.cost_tier = j)) <= 1
<1> DEFINE costs == Column(rows, "total_cost")
           n == Len(rows)
           e1 == Quantile(costs, 1)
           e2 == Quantile(costs, 2)
<1>1. /\ costs \in Seq(Int) /\ Len(costs) = n /\ n \in Nat \ {0} /\ DOMAIN rows = 1..n
      /\ ~ Cardinality(Edges(costs)) < 4
      /\ \A k \in 1..n : /\ costs[k] = rows[k].total_cost
                         /\ rows[k].cost_tier = Interval(costs[k], Edges(costs))
  BY RowsInTiers
<1> HIDE DEF costs
<1>2. \A k \in 1..n : rows[k].cost_tier = 1 + (IF e1 < 3 * rows[k].total_cost THEN 1 ELSE 0)
                                            + (IF e2 < 3 * rows[k].total_cost THEN 1 ELSE 0)
  <2>1. \A k \in 1..Len(costs) : Interval(costs[k], Edges(costs))
                     = 1 + (IF e1 < 3 * costs[k] THEN 1 ELSE 0)
                         + (IF e2 < 3 * costs[k] THEN 1 ELSE 0)
    BY <1>1, IntervalsOfThirds
  <2> QED BY <1>1, <2>1
<1>3. e1 \in Int /\ e2 \in Int
  <2>1. 1 \in 0..3 /\ 2 \in 0..3
    OBVIOUS
  <2> QED BY <1>1, <2>1, QuantileLies
<1> HIDE DEF e1, e2
<1>4. ASSUME NEW j \in DOMAIN rows, NEW k \in DOMAIN rows,
             rows[j].total_cost <= rows[k].total_cost
      PROVE  /\ rows[j].cost_tier \in 1..3
             /\ rows[j].cost_tier <= rows[k].cost_tier
  <2>1. PICK x \in Int, y \in Int : x = rows[j].total_cost /\ y = rows[k].total_cost
    BY <1>1, <1>4 DEF Balanced
  <2>2. /\ rows[j].cost_tier = 1 + (IF e1 < 3 * x THEN 1 ELSE 0) + (IF e2 < 3 * x THEN 1 ELSE 0)
        /\ rows[k].cost_tier = 1 + (IF e1 < 3 * y THEN 1 ELSE 0) + (IF e2 < 3 * y THEN 1 ELSE 0)
    BY <1>1, <1>2, <2>1
  <2>3. x <= y
    BY <1>4, <2>1
  <2> QED BY ONLY <1>3, <2>1, <2>2, <2>3
<1>5. ASSUME IsInjective(costs), NEW i \in 1..3, NEW j \in 1..3
      PROVE  Len(Those(rows, LAMBDA row : row.cost_tier = i))
               - Len(Those(rows, LAMBDA row : row.cost_tier = j)) <= 1
  <2> DEFINE P(t) == {k \in DOMAIN rows : rows[k].cost_tier = t}
  <2>1. ASSUME NEW t
        PROVE  Len(Sublist(rows, P(t))) = Cardinality(InTier(costs, t))
    <3>1. P(t) = InTier(costs, t) /\ P(t) \cap (1..n) = P(t)
      BY <1>1 DEF InTier
    <3>2. rows \in Seq(ToSet(rows))
      BY DEF Balanced
    <3> HIDE DEF P
    <3>3. Len(Sublist(rows, P(t))) = Cardinality(P(t) \cap (1..n))
      BY <3>2, SublistLength
    <3> QED BY <3>1, <3>3
  <2>2. Cardinality(InTier(costs, i)) - Cardinality(InTier(costs, j)) <= 1
    <3>1. Len(costs) # 0
      BY <1>1
    <3> QED BY <1>1, <1>5, <3>1, TierSizes
  <2>3. /\ Those(rows, LAMBDA row : row.cost_tier = i) = Sublist(rows, P(i))
        /\ Those(rows, LAMBDA row : row.cost_tier = j) = Sublist(rows, P(j))
    BY DEF Those
  <2>4. /\ Len(Sublist(rows, P(i))) = Cardinality(InTier(costs, i))
        /\ Len(Sublist(rows, P(j))) = Cardinality(InTier(costs, j))
    BY <2>1
  <2> HIDE DEF P
  <2> QED BY <2>2, <2>3, <2>4
<1> QED
  BY <1>4, <1>5 DEF costs

\* The rows of the cost report, in the report itself.
LEMMA TiersFollow ==
    ASSUME LogInv
    PROVE  TiersAreThirds
<1> SUFFICES ASSUME Costed, output.rows # <<>>,
                    ToSet(Column(output.rows, "cost_tier")) # {Missing}
             PROVE  /\ \A j, k \in DOMAIN output.rows :
                          output.rows[j].total_cost <= output.rows[k].total_cost =>
                            /\ output.rows[j].cost_tier \in 1..3
                            /\ output.rows[j].cost_tier <= output.rows[k].cost_tier
                    /\ IsInjective(Column(output.rows, "total_cost")) =>
                          \A i, j \in 1..3 :
                             Len(Those(output.rows, LAMBDA row : row.cost_tier = i))
                               - Len(Those(output.rows, LAMBDA row : row.cost_tier = j)) <= 1
  BY DEF TiersAreThirds
<1> DEFINE rows == BuildCostContext(input)
<1>1. input \in Seq(ToSet(input))
  BY RowsOfLog
<1>2. output = CostReport(input) /\ ~ output.refused
  BY DEF LogInv, Costed, ReportOn
<1>3. Loads(input)
  BY <1>2 DEF CostReport, Refused
<1>4. output = CostSummaries(rows) /\ ValidTrades(AuditTrades(input))
  BY <1>2, <1>3 DEF CostReport, Loads
<1>5. Balanced(rows)
  BY <1>1, <1>4, CostsAreBalanced
<1> HIDE DEF rows
<1>6. ~ CostReportRefused(rows)
  BY <1>2, <1>4 DEF CostSummaries, Refused
<1>7. output.rows = rows
  BY <1>4, <1>6 DEF CostSummaries
<1> QED
  BY <1>5, <1>7, TieredRows

\* The tiers of cost_sensitivity.py cover all trades or none, respect the costs
\* and are thirds, for every log.
THEOREM TiersAlwaysThirds == Spec => []TiersAreThirds
<1>1. LogInv => TiersAreThirds
  BY TiersFollow
<1> QED
  BY <1>1, ReportsAreOfTheLog, PTL

=============================================================================
