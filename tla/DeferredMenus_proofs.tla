------------------------- MODULE DeferredMenus_proofs -------------------------
(***************************************************************************)
(* MenuIsWhole and ListsAreOwed, for all menus that can be defined.  Menus *)
(* are made of the menus within, so what is said of one is proved from the *)
(* lower ones (ByDepth); that Made, Breaks and Shows are what their        *)
(* equations say is Recursion.                                             *)
(***************************************************************************)
EXTENDS MenuMeaning, FiniteSetTheorems, SequenceTheorems, WellFoundedInduction, TLAPS

(* Of some numbers one is the least.                                        *)
LEMMA Least ==
  ASSUME NEW S \in SUBSET Nat, S # {}
  PROVE  \E n \in S : \A m \in S : n <= m
<1> DEFINE T == {1..n : n \in S}
<1>1. T \subseteq FiniteSubsetsOf(Nat) BY FS_Interval DEF FiniteSubsetsOf
<1>2. PICK x \in T : \A y \in T : ~ (<<y, x>> \in StrictSubsetOrdering(Nat))
  <2>1. T # {} BY Zenon
  <2> HIDE DEF T
  <2> QED BY <1>1, <2>1, FS_StrictSubsetOrderingWellFounded, WFMin
<1>3. PICK n \in S : x = 1..n OBVIOUS
<1>4. ASSUME NEW m \in S, ~(n <= m) PROVE FALSE
  <2>1. m \in Nat /\ n \in Nat /\ m < n BY <1>4
  <2>2. n \in 1..n /\ n \notin 1..m /\ 1..m \subseteq 1..n BY <2>1
  <2>3. 1..m \in T /\ x \in SUBSET Nat /\ 1..m \in SUBSET Nat BY <1>3, <2>1
  <2> QED BY <1>2, <1>3, <2>2, <2>3, Zenon DEF StrictSubsetOrdering
<1> QED BY <1>4

(* What holds of a place if it holds of the lower ones holds of all.        *)
LEMMA ByDepth ==
  ASSUME NEW S, NEW depth \in [S -> Nat], NEW P,
         \A m \in S : (\A x \in S : depth[x] < depth[m] => x \in P) => m \in P
  PROVE  S \subseteq P
<1> SUFFICES ASSUME NEW one \in S, one \notin P PROVE FALSE OBVIOUS
<1> DEFINE Depths == {depth[x] : x \in S \ P}
<1>1. Depths \in SUBSET Nat /\ Depths # {} OBVIOUS
<1>2. PICK n \in Depths : \A k \in Depths : n <= k BY <1>1, Least, Zenon
<1>3. PICK m \in S \ P : n = depth[m] BY <1>2
<1>4. ASSUME NEW x \in S, depth[x] < depth[m], x \notin P PROVE FALSE
  <2>1. depth[x] \in Depths BY <1>4
  <2>2. depth[m] <= depth[x] BY <1>2, <1>3, <2>1
  <2> QED BY <1>4, <2>2
<1> QED BY <1>3, <1>4

(* A function that is given in terms of its values at lower places exists.  *)
ByLower(S, V, depth, step) ==
  /\ depth \in [S -> Nat] /\ [S -> V] # {} /\ step \in [[S -> V] -> [S -> V]]
  /\ \A g, h \in [S -> V] : \A m \in S :
       (\A x \in S : depth[x] < depth[m] => g[x] = h[x]) => step[g][m] = step[h][m]

Fixed(S, V, step) == \E f \in [S -> V] : f = step[f]

LEMMA Recursion ==
  ASSUME NEW S, NEW V, NEW depth, NEW step, ByLower(S, V, depth, step)
  PROVE  Fixed(S, V, step)
<1>0. /\ depth \in [S -> Nat] /\ step \in [[S -> V] -> [S -> V]]
      /\ \A g, h \in [S -> V] : \A m \in S :
            (\A x \in S : depth[x] < depth[m] => g[x] = h[x]) => step[g][m] = step[h][m]
  BY DEF ByLower
<1> PICK start \in [S -> V] : TRUE BY DEF ByLower
<1> DEFINE Upto(n, g) == \A m \in S : depth[m] < n => g[m] = step[g][m]
           Found == {n \in Nat : \E g \in [S -> V] : Upto(n, g)}
<1>1. Found = Nat
  <2> SUFFICES ASSUME Nat \ Found # {} PROVE FALSE OBVIOUS
  <2>1. PICK n \in Nat \ Found : \A k \in Nat \ Found : n <= k BY Least, Zenon
  <2>2. n # 0
    <3>1. Upto(0, start) BY <1>0
    <3> QED BY <2>1, <3>1
  <2>3. n - 1 \in Nat /\ n - 1 \in Found BY <2>1, <2>2
  <2>4. PICK g \in [S -> V] : Upto(n - 1, g) BY <2>3
  <2>5. step[g] \in [S -> V] BY <1>0
  <2>6. ASSUME NEW m \in S, depth[m] < n PROVE step[g][m] = step[step[g]][m]
    <3>1. ASSUME NEW x \in S, depth[x] < depth[m] PROVE g[x] = step[g][x]
      <4>1. depth[x] < n - 1 BY <1>0, <2>1, <2>3, <2>6, <3>1
      <4> QED BY <2>4, <4>1
    <3> QED BY <1>0, <2>5, <3>1
  <2>7. Upto(n, step[g]) BY <2>6
  <2> QED BY <2>1, <2>5, <2>7
<1>2. ASSUME NEW n \in Nat, NEW k \in Nat, NEW g \in [S -> V], NEW h \in [S -> V], Upto(n, g), Upto(k, h)
      PROVE  \A m \in S : depth[m] < n /\ depth[m] < k => g[m] = h[m]
  <2> DEFINE P == {m \in S : depth[m] < n /\ depth[m] < k => g[m] = h[m]}
  <2>1. ASSUME NEW m \in S, \A x \in S : depth[x] < depth[m] => x \in P, depth[m] < n, depth[m] < k
        PROVE  g[m] = h[m]
    <3>1. \A x \in S : depth[x] < depth[m] => g[x] = h[x] BY <1>0, <2>1
    <3>2. step[g][m] = step[h][m] BY <1>0, <3>1
    <3> QED BY <1>2, <2>1, <3>2
  <2>2. \A m \in S : (\A x \in S : depth[x] < depth[m] => x \in P) => m \in P BY <2>1
  <2>3. S \subseteq P
    <3> HIDE DEF P
    <3> QED BY <1>0, <2>2, ByDepth
  <2> QED BY <2>3
<1> DEFINE At(m) == CHOOSE g \in [S -> V] : Upto(depth[m] + 1, g)
           f == [m \in S |-> At(m)[m]]
<1>3. ASSUME NEW m \in S PROVE At(m) \in [S -> V] /\ Upto(depth[m] + 1, At(m))
  <2>0. depth[m] + 1 \in Found BY <1>0, <1>1
  <2> HIDE DEF Upto
  <2>1. \E g \in [S -> V] : Upto(depth[m] + 1, g) BY <2>0
  <2> QED BY <2>1
<1>4. f \in [S -> V] BY <1>3
<1>5. ASSUME NEW m \in S PROVE f[m] = step[f][m]
  <2>0. Upto(depth[m] + 1, At(m)) BY <1>3, Zenon
  <2>1. At(m)[m] = step[At(m)][m]
    <3>1. depth[m] < depth[m] + 1 BY <1>0
    <3> HIDE DEF At
    <3> QED BY <2>0, <3>1
  <2>2. ASSUME NEW x \in S, depth[x] < depth[m] PROVE At(m)[x] = f[x]
    <3>1. depth[x] < depth[m] + 1 /\ depth[x] < depth[x] + 1 /\ depth[m] + 1 \in Nat /\ depth[x] + 1 \in Nat
      BY <1>0, <2>2
    <3>2. f[x] = At(x)[x] BY <2>2
    <3> HIDE DEF Upto, At, f
    <3>4. /\ At(m) \in [S -> V] /\ Upto(depth[m] + 1, At(m))
          /\ At(x) \in [S -> V] /\ Upto(depth[x] + 1, At(x)) BY <1>3, <2>2
    <3>3. At(m)[x] = At(x)[x] BY <1>2, <2>2, <3>1, <3>4
    <3> QED BY <3>2, <3>3
  <2>3. At(m) \in [S -> V] BY <1>3
  <2> HIDE DEF At, f
  <2>4. step[At(m)][m] = step[f][m] BY <1>0, <1>4, <2>2, <2>3, Zenon
  <2>5. f[m] = At(m)[m] BY DEF f
  <2> QED BY <2>1, <2>4, <2>5
<1> HIDE DEF f
<1>6. step[f] \in [S -> V] BY <1>0, <1>4
<1> QED BY <1>4, <1>5, <1>6 DEF Fixed
-------------------------------------------------------------------------------
(* FlattenSeq() puts one after the other.                                   *)
Joins(f, s, n, V) ==
  /\ f \in [1..n -> Seq(V)] /\ FlattenSeq(s) = f[n]
  /\ \A i \in 1..n : f[i] = IF i = 1 THEN s[i] ELSE f[i-1] \o s[i]

LEMMA FlattenUnfolds ==
  ASSUME NEW V, NEW n \in Nat, n > 0, NEW s, s \in [1..n -> Seq(V)]
  PROVE  \E f : Joins(f, s, n, V)
<1>0. PICK I : I = 1..n OBVIOUS
<1> DEFINE Next1(f, i) == IF i = 1 THEN s[i] ELSE f[i-1] \o s[i]
           step == [f \in [I -> Seq(V)] |-> [i \in I |-> Next1(f, i)]]
           depth == [i \in I |-> i]
<1>1. s \in [I -> Seq(V)] /\ depth \in [I -> Nat] /\ \A i \in I : i # 1 => i - 1 \in I /\ depth[i-1] < depth[i]
  BY <1>0
<1>2. \A f \in [I -> Seq(V)] : \A i \in I : Next1(f, i) \in Seq(V) BY <1>1
<1>3. \A f, g \in [I -> Seq(V)] : \A i \in I :
        (\A x \in I : depth[x] < depth[i] => f[x] = g[x]) => Next1(f, i) = Next1(g, i)
  BY <1>1, Zenon
<1> HIDE DEF Next1, depth
<1>4. step \in [[I -> Seq(V)] -> [I -> Seq(V)]] BY <1>2, Zenon
<1>5. ByLower(I, Seq(V), depth, step)
  <2>1. \A f, g \in [I -> Seq(V)] : \A i \in I :
          (\A x \in I : depth[x] < depth[i] => f[x] = g[x]) => step[f][i] = step[g][i]
    BY <1>3, Zenon
  <2>2. [I -> Seq(V)] # {} BY <1>1
  <2> HIDE DEF step
  <2> QED BY <1>1, <1>4, <2>1, <2>2, Zenon DEF ByLower
<1>6. \E f \in [I -> Seq(V)] : f = step[f]
  <2> HIDE DEF step
  <2> QED BY <1>5, Recursion DEF Fixed
<1> DEFINE Eq(f) == f = [i \in I |-> Next1(f, i)]
           F == CHOOSE f : Eq(f)
<1>7. Eq(F)
  <2>1. \E f : Eq(f) BY <1>6
  <2> HIDE DEF Eq
  <2> QED BY <2>1
<1>8. \A i \in I : F[i] = Next1(F, i)
  <2> HIDE DEF F
  <2> QED BY <1>7
<1>9. F \in [I -> Seq(V)]
  <2> DEFINE P == {i \in I : F[i] \in Seq(V)}
  <2> HIDE DEF F
  <2>1. ASSUME NEW i \in I, \A x \in I : depth[x] < depth[i] => x \in P PROVE F[i] \in Seq(V)
    <3>1. F[i] = IF i = 1 THEN s[i] ELSE F[i-1] \o s[i] BY <1>8 DEF Next1
    <3>2. i # 1 => F[i-1] \in Seq(V) BY <1>1, <2>1
    <3>3. s[i] \in Seq(V) BY <1>1
    <3> QED BY <3>1, <3>2, <3>3
  <2>2. I \subseteq P
    <3>1. \A i \in I : (\A x \in I : depth[x] < depth[i] => x \in P) => i \in P BY <2>1
    <3> HIDE DEF P
    <3> QED BY <1>1, <3>1, ByDepth, Zenon
  <2> QED BY <1>7, <2>2
<1>10. s \in Seq(Seq(V)) /\ Len(s) = n BY LenProperties, SMT
<1>11. FlattenSeq(s) = F[n] BY <1>0, <1>10, n # 0 DEF FlattenSeq, Next1
<1> HIDE DEF F
<1>12. Joins(F, s, n, V) BY <1>0, <1>8, <1>9, <1>11, Zenon DEF Next1, Joins
<1> QED BY <1>12

(* A list of lists, in one: what is in it, and what any two of it are.      *)
Pairwise(s, n, R) ==
  /\ \A i \in 1..n : \A j, k \in DOMAIN s[i] : j # k => <<s[i][j], s[i][k]>> \in R
  /\ \A i, l \in 1..n : i # l => \A j \in DOMAIN s[i], k \in DOMAIN s[l] : <<s[i][j], s[l][k]>> \in R

InOne(t, s, n, R) ==
  /\ \A p \in DOMAIN t : \E i \in 1..n : \E j \in DOMAIN s[i] : t[p] = s[i][j]
  /\ \A i \in 1..n : \A j \in DOMAIN s[i] : \E p \in DOMAIN t : t[p] = s[i][j]
  /\ \A p, r \in DOMAIN t : p # r => <<t[p], t[r]>> \in R

LEMMA Flattened ==
  ASSUME NEW V, NEW n \in Nat, NEW s \in [1..n -> Seq(V)], NEW R, Pairwise(s, n, R)
  PROVE  FlattenSeq(s) \in Seq(V) /\ InOne(FlattenSeq(s), s, n, R)
<1> DEFINE From(t, m) == /\ \A p \in DOMAIN t : \E i \in 1..m : \E j \in DOMAIN s[i] : t[p] = s[i][j]
                         /\ \A i \in 1..m : \A j \in DOMAIN s[i] : \E p \in DOMAIN t : t[p] = s[i][j]
                         /\ \A p, r \in DOMAIN t : p # r => <<t[p], t[r]>> \in R
<1>0. /\ \A i \in 1..n : \A j, k \in DOMAIN s[i] : j # k => <<s[i][j], s[i][k]>> \in R
      /\ \A i, l \in 1..n : i # l => \A j \in DOMAIN s[i], k \in DOMAIN s[l] : <<s[i][j], s[l][k]>> \in R
  BY Zenon DEF Pairwise
<1>1. CASE n = 0
  <2>1. s = <<>> /\ FlattenSeq(s) = <<>>
    <3>1. s = <<>> /\ Len(s) = 0 BY <1>1
    <3> QED BY <3>1 DEF FlattenSeq
  <2>2. <<>> \in Seq(V) /\ DOMAIN <<>> = {} /\ 1..n = {} BY <1>1
  <2> HIDE DEF From
  <2>3. FlattenSeq(s) \in Seq(V) /\ From(<<>>, n) BY <2>1, <2>2, Zenon DEF From
  <2> QED BY <2>1, <2>3 DEF From, InOne
<1>2. CASE n > 0
  <2>1. PICK f \in [1..n -> Seq(V)] :
          FlattenSeq(s) = f[n] /\ \A i \in 1..n : f[i] = IF i = 1 THEN s[i] ELSE f[i-1] \o s[i]
    <3>1. PICK f : Joins(f, s, n, V) BY <1>2, FlattenUnfolds, Zenon
    <3> QED BY <3>1, Zenon DEF Joins
  <2>2. PICK I : I = 1..n OBVIOUS
  <2> DEFINE P == {m \in I : From(f[m], m)}
             depth == [i \in I |-> i]
  <2>3. ASSUME NEW m \in I, \A x \in I : depth[x] < depth[m] => x \in P PROVE From(f[m], m)
    <3>1. m \in 1..n /\ f[m] = IF m = 1 THEN s[m] ELSE f[m-1] \o s[m] BY <2>1, <2>2, Zenon
    <3>2. CASE m = 1 BY <1>0, <3>1, <3>2
    <3>3. CASE m # 1
      <4>1. m - 1 \in 1..n /\ m - 1 \in P
        <5>1. m - 1 \in I /\ depth[m-1] < depth[m] BY <2>2, <3>1, <3>3
        <5> HIDE DEF P
        <5> QED BY <2>2, <2>3, <5>1
      <4> DEFINE t == f[m-1]  u == s[m]
      <4>2. From(t, m - 1) BY <4>1
      <4>3. t \in Seq(V) /\ u \in Seq(V) /\ f[m] = t \o u BY <3>1, <3>3, <4>1, Zenon
      <4>4. \A p \in DOMAIN t : \E i \in 1..(m-1) : \E j \in DOMAIN s[i] : t[p] = s[i][j] BY <4>2
      <4>5. \A i \in 1..(m-1) : \A j \in DOMAIN s[i] : \E p \in DOMAIN t : t[p] = s[i][j] BY <4>2, Zenon
      <4>6. \A p, r \in DOMAIN t : p # r => <<t[p], t[r]>> \in R BY <4>2, Zenon
      <4>7. \A p, r \in DOMAIN u : p # r => <<u[p], u[r]>> \in R BY <1>0, <3>1
      <4>8. \A p \in DOMAIN t, r \in DOMAIN u : <<t[p], u[r]>> \in R /\ <<u[r], t[p]>> \in R
        <5> TAKE p \in DOMAIN t, r \in DOMAIN u
        <5>1. PICK i \in 1..(m-1) : \E j \in DOMAIN s[i] : t[p] = s[i][j] BY <4>4
        <5>2. PICK j \in DOMAIN s[i] : t[p] = s[i][j] BY <5>1
        <5>3. i \in 1..n /\ i # m BY <3>1, <5>1
        <5> QED BY <1>0, <3>1, <5>2, <5>3, Zenon
      <4> HIDE DEF t, u
      <4>9. /\ DOMAIN (t \o u) = 1..(Len(t) + Len(u)) /\ DOMAIN t = 1..Len(t) /\ DOMAIN u = 1..Len(u)
            /\ \A p \in DOMAIN t : (t \o u)[p] = t[p]
            /\ \A p \in DOMAIN u : (t \o u)[Len(t) + p] = u[p]
            /\ Len(t) \in Nat /\ Len(u) \in Nat
        <5>1. Len(t) \in Nat /\ Len(u) \in Nat /\ DOMAIN t = 1..Len(t) /\ DOMAIN u = 1..Len(u) BY <4>3
        <5>2. \A p \in 1..(Len(t) + Len(u)) : (t \o u)[p] = IF p <= Len(t) THEN t[p] ELSE u[p - Len(t)]
          BY <4>3, <5>1
        <5>3. Len(t \o u) = Len(t) + Len(u) /\ DOMAIN (t \o u) = 1..(Len(t) + Len(u)) BY <4>3, <5>1
        <5>4. \A p \in 1..Len(t) : p \in 1..(Len(t) + Len(u)) /\ p <= Len(t) BY <5>1
        <5>5. \A p \in 1..Len(u) : /\ Len(t) + p \in 1..(Len(t) + Len(u)) /\ ~(Len(t) + p <= Len(t))
                                   /\ Len(t) + p - Len(t) = p BY <5>1
        <5> QED BY <5>1, <5>2, <5>3, <5>4, <5>5
      <4>10. \A p \in DOMAIN (t \o u) : p \in DOMAIN t \/ \E r \in DOMAIN u : p = Len(t) + r
        <5> TAKE p \in DOMAIN (t \o u)
        <5>1. p \notin DOMAIN t => p - Len(t) \in DOMAIN u /\ p = Len(t) + (p - Len(t)) BY <4>9
        <5> QED BY <5>1
      <4>11. \A i \in 1..m : i = m \/ i \in 1..(m-1) BY <3>1
      <4>12. \A p \in DOMAIN (t \o u) : \E i \in 1..m : \E j \in DOMAIN s[i] : (t \o u)[p] = s[i][j]
        <5> TAKE p \in DOMAIN (t \o u)
        <5>1. CASE p \in DOMAIN t BY <3>1, <4>4, <4>9, <5>1
        <5>2. CASE \E r \in DOMAIN u : p = Len(t) + r
          <6>1. PICK r \in DOMAIN u : p = Len(t) + r BY <5>2
          <6>2. (t \o u)[p] = s[m][r] /\ r \in DOMAIN s[m] BY <4>9, <6>1, Zenon DEF u
          <6>3. m \in 1..m BY <3>1
          <6> QED BY <6>2, <6>3
        <5> QED BY <4>10, <5>1, <5>2
      <4>13. \A i \in 1..m : \A j \in DOMAIN s[i] : \E p \in DOMAIN (t \o u) : (t \o u)[p] = s[i][j]
        <5> TAKE i \in 1..m
        <5> TAKE j \in DOMAIN s[i]
        <5>1. CASE i \in 1..(m-1)
          <6>1. PICK p \in DOMAIN t : t[p] = s[i][j] BY <4>5, <5>1
          <6>2. p \in DOMAIN (t \o u) BY <4>9
          <6> QED BY <4>9, <6>1, <6>2
        <5>2. CASE i = m
          <6>1. j \in DOMAIN u /\ s[i][j] = u[j] BY <5>2 DEF u
          <6>2. Len(t) + j \in DOMAIN (t \o u) BY <4>9, <6>1
          <6> QED BY <4>9, <6>1, <6>2, Zenon
        <5> QED BY <4>11, <5>1, <5>2, Zenon
      <4>14. \A p, r \in DOMAIN (t \o u) : p # r => <<(t \o u)[p], (t \o u)[r]>> \in R
        <5> TAKE p, r \in DOMAIN (t \o u)
        <5> HAVE p # r
        <5>1. CASE p \in DOMAIN t /\ r \in DOMAIN t BY <4>6, <4>9, <5>1
        <5>2. CASE p \in DOMAIN t /\ \E k \in DOMAIN u : r = Len(t) + k BY <4>8, <4>9, <5>2, Zenon
        <5>3. CASE r \in DOMAIN t /\ \E k \in DOMAIN u : p = Len(t) + k BY <4>8, <4>9, <5>3, Zenon
        <5>4. CASE (\E k \in DOMAIN u : p = Len(t) + k) /\ \E k \in DOMAIN u : r = Len(t) + k
          BY <4>7, <4>9, <5>4, Zenon
        <5> QED BY <4>10, <5>1, <5>2, <5>3, <5>4, Zenon
      <4> DEFINE w == t \o u
      <4>15. f[m] = w BY <4>3
      <4>16. From(w, m)
        <5> HIDE DEF w
        <5>1. \A p \in DOMAIN w : \E i \in 1..m : \E j \in DOMAIN s[i] : w[p] = s[i][j]
          BY <4>12, Zenon DEF w
        <5>2. \A i \in 1..m : \A j \in DOMAIN s[i] : \E p \in DOMAIN w : w[p] = s[i][j]
          BY <4>13, Zenon DEF w
        <5>3. \A p, r \in DOMAIN w : p # r => <<w[p], w[r]>> \in R BY <4>14, Zenon DEF w
        <5> QED BY <5>1, <5>2, <5>3
      <4> HIDE DEF From, w
      <4> QED BY <4>15, <4>16
    <3> QED BY <3>2, <3>3
  <2>4. I \subseteq P
    <3>1. \A m \in I : (\A x \in I : depth[x] < depth[m] => x \in P) => m \in P BY <2>3, Zenon
    <3>2. depth \in [I -> Nat] BY <2>2
    <3> HIDE DEF P, depth
    <3> QED BY <3>1, <3>2, ByDepth, Zenon
  <2>5. n \in P BY <1>2, <2>2, <2>4
  <2> QED BY <1>2, <2>1, <2>5 DEF InOne
<1> QED BY <1>1, <1>2
-------------------------------------------------------------------------------
NodeType == [is: {"leaf", "null", "branch", "message"}, of: Menus \union {None}]
WorkType == [branch: Menus, subNodes: Menus]
MadeType == [node: NodeType, nodes: Seq(NodeType), works: Seq(WorkType), throws: BOOLEAN]

(* What is defined where, one fact at a time.                               *)
LEMMA DefinitionFacts ==
  ASSUME NEW d \in Definitions, NEW m \in Menus
  PROVE  /\ d[m] \in MenuType /\ d[m].menus \in Seq(Menus)
         /\ d[m].source \in Menus \union {None} /\ d[m].onErrorMenu \in Menus \union {None}
         /\ d[m].type \in BranchTypes => d[m].menus = <<>> /\ d[m].source \in Menus
         /\ d[m].type \notin BranchTypes => d[m].source = None /\ d[m].onErrorMenu = None
         /\ d[m].type \notin ListTypes => d[m].menus = <<>>
         /\ Parts(d, m) \subseteq Menus /\ \A part \in Parts(d, m) : Depth[part] < Depth[m]
         /\ \A i \in DOMAIN d[m].menus : d[m].menus[i] \in Menus /\ d[m].menus[i] \in Parts(d, m)
         /\ d[m].source # None => d[m].source \in Parts(d, m)
         /\ d[m].onErrorMenu # None => d[m].onErrorMenu \in Parts(d, m)
<1>1. d \in [Menus -> MenuType] BY MenusAssumption
<1>2. d[m] \in MenuType BY <1>1
<1>3. /\ d[m].menus \in Seq(Menus) /\ d[m].source \in Menus \union {None} /\ d[m].onErrorMenu \in Menus \union {None}
  BY <1>2 DEF MenuType
<1>4. /\ IF d[m].type \in BranchTypes THEN d[m].menus = <<>> /\ d[m].source # None
         ELSE d[m].source = None /\ d[m].onErrorMenu = None
      /\ d[m].type \notin ListTypes => d[m].menus = <<>>
      /\ \A part \in Parts(d, m) : Depth[part] < Depth[m]
  BY MenusAssumption
<1>5. \A i \in DOMAIN d[m].menus : d[m].menus[i] \in Menus /\ d[m].menus[i] \in ToSet(d[m].menus)
  BY <1>3 DEF ToSet
<1>6. ToSet(d[m].menus) \subseteq Menus BY <1>3 DEF ToSet
<1>7. None \notin Menus BY MenusAssumption
<1> QED BY <1>2, <1>3, <1>4, <1>5, <1>6, <1>7 DEF Parts

LEMMA RequestFacts ==
  ASSUME NEW q \in Request
  PROVE  /\ q.root \in Menus /\ q.definition \in Definitions
         /\ \A m \in BranchesOf(q.definition) : q.answer[m] \in Answers(q.definition[m])
         /\ Roots \subseteq Menus /\ Depth \in [Menus -> Nat] /\ None \notin Menus
<1>1. PICK d \in Definitions : q \in RequestsFor(d) BY DEF Request
<1>2. PICK root \in Roots, answer \in {a \in [BranchesOf(d) -> {"refused", "unconnected", "failed", "menu"}] :
                   \A m \in BranchesOf(d) : a[m] \in Answers(d[m])} :
          q = [root |-> root, definition |-> d, answer |-> answer]
  BY <1>1 DEF RequestsFor
<1>3. q.root = root /\ q.definition = d /\ q.answer = answer BY <1>2
<1>4. \A m \in BranchesOf(d) : answer[m] \in Answers(d[m]) BY <1>2
<1>5. Roots \subseteq Menus /\ Depth \in [Menus -> Nat] /\ None \notin Menus BY MenusAssumption
<1> QED BY <1>3, <1>4, <1>5

(* InOrder() gives all works up to one that throws.                         *)
LEMMA FirstBad ==
  ASSUME NEW S \in SUBSET Nat, S # {}
  PROVE  Min(S) \in S
<1>1. \E x \in S : \A y \in S : x <= y BY Least
<1> QED BY <1>1, Zenon DEF Min

LEMMA InOrderGives ==
  ASSUME NEW m \in Menus, NEW made, made \in Seq(MadeType)
  PROVE  /\ InOrder(m, made) \in MadeType
         /\ \E n \in 0..Len(made) :
              /\ InOrder(m, made).works = FlattenSeq([i \in 1..n |-> made[i].works])
              /\ ~InOrder(m, made).throws => n = Len(made)
         /\ InOrder(m, made).throws <=> \E i \in DOMAIN made : made[i].throws
         /\ InOrder(m, made).throws => InOrder(m, made).node = Null(None) /\ InOrder(m, made).nodes = <<>>
         /\ ~InOrder(m, made).throws => /\ InOrder(m, made).node = Node("branch", m)
                                        /\ InOrder(m, made).nodes = [i \in DOMAIN made |-> made[i].node]
<1> DEFINE bad == {i \in DOMAIN made : made[i].throws}
           worksTo(n) == FlattenSeq([i \in 1..n |-> made[i].works])
<1>1. /\ Len(made) \in Nat /\ DOMAIN made = 1..Len(made)
      /\ \A i \in DOMAIN made : made[i] \in MadeType
  OBVIOUS
<1>2. \A n \in 0..Len(made) : worksTo(n) \in Seq(WorkType)
  <2> TAKE n \in 0..Len(made)
  <2> DEFINE s == [i \in 1..n |-> made[i].works]
             R == WorkType \X WorkType
  <2>0. n \in Nat /\ n <= Len(made) /\ \A i \in 1..n : i \in DOMAIN made BY <1>1
  <2>1. n \in Nat /\ s \in [1..n -> Seq(WorkType)]
    <3>1. \A i \in 1..n : made[i].works \in Seq(WorkType)
      <4>1. \A i \in 1..n : made[i] \in MadeType BY <1>1, <2>0
      <4> QED BY <4>1, Zenon DEF MadeType
    <3> QED BY <2>0, <3>1
  <2>2. \A i \in 1..n : \A j \in DOMAIN s[i] : s[i][j] \in WorkType
    <3> HIDE DEF s
    <3> QED BY <2>1
  <2>3. \A i \in 1..n : \A j, k \in DOMAIN s[i] : j # k => <<s[i][j], s[i][k]>> \in R BY <2>2
  <2>4. \A i, l \in 1..n : i # l => \A j \in DOMAIN s[i], k \in DOMAIN s[l] : <<s[i][j], s[l][k]>> \in R
    BY <2>2
  <2>5. FlattenSeq(s) \in Seq(WorkType)
    <3>1. Pairwise(s, n, R) BY <2>3, <2>4, Zenon DEF Pairwise
    <3> HIDE DEF s, R
    <3> QED BY <2>1, <3>1, Flattened
  <2> QED BY <2>5
<1>3. CASE bad # {}
  <2>1. Min(bad) \in bad
    <3>1. bad \in SUBSET Nat BY <1>1
    <3> HIDE DEF bad
    <3> QED BY <1>3, <3>1, FirstBad
  <2>2. Min(bad) \in 0..Len(made) BY <1>1, <2>1
  <2>3. InOrder(m, made) = Throws(worksTo(Min(bad))) BY <1>3 DEF InOrder
  <2>4. worksTo(Min(bad)) \in Seq(WorkType) BY <1>2, <2>2
  <2>5. Null(None) \in NodeType /\ <<>> \in Seq(NodeType) BY DEF Null, Node, NodeType
  <2> HIDE DEF worksTo
  <2>6. Throws(worksTo(Min(bad))) \in MadeType BY <2>4, <2>5 DEF Throws, MadeType
  <2>7. /\ Throws(worksTo(Min(bad))).works = worksTo(Min(bad)) /\ Throws(worksTo(Min(bad))).throws
        /\ Throws(worksTo(Min(bad))).node = Null(None) /\ Throws(worksTo(Min(bad))).nodes = <<>>
    BY DEF Throws
  <2>8. \E i \in DOMAIN made : made[i].throws BY <1>3
  <2> QED BY <2>2, <2>3, <2>6, <2>7, <2>8, Zenon DEF worksTo
<1>4. CASE bad = {}
  <2> DEFINE nodes == [i \in DOMAIN made |-> made[i].node]
  <2>1. InOrder(m, made) = Gives(Node("branch", m), nodes, worksTo(Len(made))) BY <1>4 DEF InOrder
  <2>2. worksTo(Len(made)) \in Seq(WorkType) BY <1>1, <1>2
  <2>3. Node("branch", m) \in NodeType BY DEF Node, NodeType
  <2>4. nodes \in Seq(NodeType) BY <1>1 DEF MadeType
  <2> HIDE DEF worksTo, nodes
  <2>5. Gives(Node("branch", m), nodes, worksTo(Len(made))) \in MadeType
    BY <2>2, <2>3, <2>4 DEF Gives, MadeType
  <2>6. LET g == Gives(Node("branch", m), nodes, worksTo(Len(made))) IN
        g.works = worksTo(Len(made)) /\ ~g.throws /\ g.node = Node("branch", m) /\ g.nodes = nodes
    BY DEF Gives
  <2>7. ~\E i \in DOMAIN made : made[i].throws BY <1>4
  <2>8. Len(made) \in 0..Len(made) BY <1>1
  <2> QED BY <2>1, <2>5, <2>6, <2>7, <2>8, Zenon DEF worksTo, nodes
<1> QED BY <1>3, <1>4, Zenon
-------------------------------------------------------------------------------
LEMMA GivesType ==
  ASSUME NEW node \in NodeType, NEW nodes \in Seq(NodeType), NEW works \in Seq(WorkType)
  PROVE  Gives(node, nodes, works) \in MadeType /\ Throws(works) \in MadeType
<1>1. Null(None) \in NodeType /\ <<>> \in Seq(NodeType) BY DEF Null, Node, NodeType
<1> QED BY <1>1 DEF Gives, Throws, MadeType

LEMMA NodesType ==
  ASSUME NEW m \in Menus \union {None}
  PROVE  /\ Node("leaf", m) \in NodeType /\ Node("branch", m) \in NodeType
         /\ Null(m) \in NodeType /\ Message(m) \in NodeType
BY DEF Node, Null, Message, NodeType

(* The types of definitions, apart.                                         *)
LEMMA TypeFacts ==
  ASSUME NEW d \in Definitions, NEW m \in Menus
  PROVE  /\ d[m].type \in {"query", "stylesheet", "embedded", "folder", "leaf", "filtered", "invalid"}
         /\ d[m].type \in BranchTypes <=> d[m].type \notin {"embedded", "folder", "leaf", "filtered", "invalid"}
         /\ m \in BranchesOf(d) <=> d[m].type \in BranchTypes
<1>1. d[m] \in MenuType BY DefinitionFacts
<1> QED BY <1>1 DEF MenuType, BranchTypes, ListTypes, BranchesOf

LEMMA ErrorMenuType ==
  ASSUME NEW q \in Request, NEW m \in Menus, NEW made,
         \A x \in Parts(q.definition, m) : made[x] \in MadeType
  PROVE  ErrorMenu(q, m, made) \in MadeType
<1>1. /\ q.definition \in Definitions
      /\ q.definition[m].onErrorMenu # None => q.definition[m].onErrorMenu \in Parts(q.definition, m)
  BY RequestFacts, DefinitionFacts
<1>2. Gives(Message(m), <<>>, <<>>) \in MadeType
  <2>1. <<>> \in Seq(NodeType) /\ <<>> \in Seq(WorkType) OBVIOUS
  <2> QED BY <2>1, NodesType, GivesType, Zenon
<1> QED BY <1>1, <1>2 DEF ErrorMenu

LEMMA DeferredType ==
  ASSUME NEW q \in Request, NEW m \in Menus, NEW made,
         \A x \in Parts(q.definition, m) : made[x] \in MadeType
  PROVE  Deferred(q, m, made) \in MadeType
<1>0. ErrorMenu(q, m, made) \in MadeType BY ErrorMenuType
<1>1. Gives(Message(m), <<>>, <<>>) \in MadeType
  <2>1. <<>> \in Seq(NodeType) /\ <<>> \in Seq(WorkType) OBVIOUS
  <2> QED BY <2>1, NodesType, GivesType, Zenon
<1>2. \A g \in MadeType : <<g>> \in Seq(MadeType) OBVIOUS
<1>3. InOrder(m, <<ErrorMenu(q, m, made)>>) \in MadeType BY <1>0, <1>2, InOrderGives, Zenon
<1>4. InOrder(m, <<Gives(Message(m), <<>>, <<>>)>>) \in MadeType BY <1>1, <1>2, InOrderGives, Zenon
<1>5. Later(m) \in MadeType
  <2>1. <<>> \in Seq(NodeType) /\ <<Work(m)>> \in Seq(WorkType) BY DEF Work, WorkType
  <2> QED BY <2>1, NodesType, GivesType, Zenon DEF Later
<1> QED BY <1>3, <1>4, <1>5 DEF Deferred

LEMMA MadeOfType ==
  ASSUME NEW q \in Request, NEW m \in Menus, NEW made,
         \A x \in Parts(q.definition, m) : made[x] \in MadeType
  PROVE  MadeOf(q, m, made) \in MadeType
<1> DEFINE d == q.definition[m]
           menus == [i \in DOMAIN d.menus |-> made[d.menus[i]]]
<1>1. q.definition \in Definitions BY RequestFacts
<1>2. d.menus \in Seq(Menus) /\ \A i \in DOMAIN d.menus : d.menus[i] \in Parts(q.definition, m)
  BY <1>1, DefinitionFacts
<1>3. menus \in Seq(MadeType)
  <2>1. \A i \in DOMAIN d.menus : made[d.menus[i]] \in MadeType BY <1>2
  <2>2. DOMAIN d.menus = 1..Len(d.menus) /\ Len(d.menus) \in Nat BY <1>2
  <2> QED BY <2>1, <2>2
<1>4. InOrder(m, menus) \in MadeType
  <2> HIDE DEF menus
  <2> QED BY <1>3, InOrderGives, Zenon
<1>5. /\ Gives(Node("leaf", m), <<>>, <<>>) \in MadeType /\ Gives(Null(m), <<>>, <<>>) \in MadeType
      /\ Throws(<<>>) \in MadeType
  <2>1. <<>> \in Seq(NodeType) /\ <<>> \in Seq(WorkType) OBVIOUS
  <2> QED BY <2>1, NodesType, GivesType, Zenon
<1>6. Deferred(q, m, made) \in MadeType BY DeferredType
<1> HIDE DEF menus
<1>7. MadeOf(q, m, made) = CASE d.type = "leaf"     -> Gives(Node("leaf", m), <<>>, <<>>)
        [] d.type = "filtered" -> Gives(Null(m), <<>>, <<>>)
        [] d.type = "invalid"  -> Throws(<<>>)
        [] d.type = "embedded" -> InOrder(m, menus)
        [] d.type = "folder"   -> IF menus = <<>> THEN Gives(Null(m), <<>>, <<>>) ELSE InOrder(m, menus)
        [] OTHER             -> Deferred(q, m, made)
  BY DEF MadeOf, menus
<1> QED BY <1>4, <1>5, <1>6, <1>7

(* What is made of a menu is given by what is made of the menus within.     *)
LEMMA MadeOfLower ==
  ASSUME NEW q \in Request, NEW m \in Menus, NEW g, NEW h,
         \A x \in Parts(q.definition, m) : g[x] = h[x]
  PROVE  MadeOf(q, m, g) = MadeOf(q, m, h)
<1>1. /\ \A i \in DOMAIN q.definition[m].menus : q.definition[m].menus[i] \in Parts(q.definition, m)
      /\ q.definition[m].onErrorMenu # None => q.definition[m].onErrorMenu \in Parts(q.definition, m)
  BY RequestFacts, DefinitionFacts
<1>2. ErrorMenu(q, m, g) = ErrorMenu(q, m, h) BY <1>1 DEF ErrorMenu
<1>3. Deferred(q, m, g) = Deferred(q, m, h) BY <1>2 DEF Deferred
<1>4. [i \in DOMAIN q.definition[m].menus |-> g[q.definition[m].menus[i]]]
      = [i \in DOMAIN q.definition[m].menus |-> h[q.definition[m].menus[i]]]
  BY <1>1
<1> QED BY <1>3, <1>4 DEF MadeOf

LEMMA MadeUnfolds ==
  ASSUME NEW q \in Request
  PROVE  Made(q) \in [Menus -> MadeType] /\ \A m \in Menus : Made(q)[m] = MadeOf(q, m, Made(q))
<1> DEFINE step == [f \in [Menus -> MadeType] |-> [m \in Menus |-> MadeOf(q, m, f)]]
           Eq(f) == f = [m \in Menus |-> MadeOf(q, m, f)]
           F == CHOOSE f : Eq(f)
<1>0. /\ \A m \in Menus : /\ Parts(q.definition, m) \subseteq Menus
                          /\ \A x \in Parts(q.definition, m) : Depth[x] < Depth[m]
      /\ Depth \in [Menus -> Nat]
  BY RequestFacts, DefinitionFacts
<1>1. \A f \in [Menus -> MadeType] : \A m \in Menus : MadeOf(q, m, f) \in MadeType
  <2> TAKE f \in [Menus -> MadeType]
  <2> TAKE m \in Menus
  <2>1. \A x \in Parts(q.definition, m) : f[x] \in MadeType BY <1>0
  <2> QED BY <2>1, MadeOfType
<1>2. \A g, h \in [Menus -> MadeType] : \A m \in Menus :
        (\A x \in Menus : Depth[x] < Depth[m] => g[x] = h[x]) => MadeOf(q, m, g) = MadeOf(q, m, h)
  <2> TAKE g, h \in [Menus -> MadeType]
  <2> TAKE m \in Menus
  <2> HAVE \A x \in Menus : Depth[x] < Depth[m] => g[x] = h[x]
  <2>1. \A x \in Parts(q.definition, m) : g[x] = h[x] BY <1>0
  <2> QED BY <2>1, MadeOfLower
<1>3. step \in [[Menus -> MadeType] -> [Menus -> MadeType]] BY <1>1
<1>4. ByLower(Menus, MadeType, Depth, step)
  <2>1. \A g, h \in [Menus -> MadeType] : \A m \in Menus :
          (\A x \in Menus : Depth[x] < Depth[m] => g[x] = h[x]) => step[g][m] = step[h][m]
    BY <1>2
  <2>2. [Menus -> MadeType] # {}
    <3>1. Throws(<<>>) \in MadeType
      <4>1. <<>> \in Seq(NodeType) /\ <<>> \in Seq(WorkType) OBVIOUS
      <4> QED BY <4>1, NodesType, GivesType, Zenon
    <3>2. [m \in Menus |-> Throws(<<>>)] \in [Menus -> MadeType] BY <3>1
    <3> QED BY <3>2, Zenon
  <2> HIDE DEF step
  <2> QED BY <1>0, <1>3, <2>1, <2>2 DEF ByLower
<1>5. \E f \in [Menus -> MadeType] : f = step[f]
  <2> HIDE DEF step
  <2> QED BY <1>4, Recursion DEF Fixed
<1>6. Eq(F)
  <2>1. \E f : Eq(f) BY <1>5
  <2> HIDE DEF Eq
  <2> QED BY <2>1
<1>7. Made(q) = F BY DEF Made
<1> HIDE DEF F
<1>8. F \in [Menus -> MadeType]
  <2> DEFINE P == {m \in Menus : F[m] \in MadeType}
  <2>1. ASSUME NEW m \in Menus, \A x \in Menus : Depth[x] < Depth[m] => x \in P PROVE F[m] \in MadeType
    <3>1. \A x \in Parts(q.definition, m) : F[x] \in MadeType BY <1>0, <2>1
    <3>2. MadeOf(q, m, F) \in MadeType BY <3>1, MadeOfType
    <3> QED BY <1>6, <3>2
  <2>2. Menus \subseteq P
    <3>1. \A m \in Menus : (\A x \in Menus : Depth[x] < Depth[m] => x \in P) => m \in P BY <2>1
    <3> HIDE DEF P
    <3> QED BY <1>0, <3>1, ByDepth
  <2> QED BY <1>6, <2>2
<1> QED BY <1>6, <1>7, <1>8

LEMMA BreaksUnfolds ==
  ASSUME NEW q \in Request
  PROVE  Breaks(q) \in [Menus -> BOOLEAN] /\ \A m \in Menus : Breaks(q)[m] <=> BreaksOf(q, m, Breaks(q))
<1> DEFINE step == [f \in [Menus -> BOOLEAN] |-> [m \in Menus |-> BreaksOf(q, m, f)]]
           Eq(f) == f = [m \in Menus |-> BreaksOf(q, m, f)]
           F == CHOOSE f : Eq(f)
<1>0. /\ \A m \in Menus : /\ Parts(q.definition, m) \subseteq Menus
                          /\ \A x \in Parts(q.definition, m) : Depth[x] < Depth[m]
      /\ Depth \in [Menus -> Nat]
  BY RequestFacts, DefinitionFacts
<1>1. \A f : \A m \in Menus : BreaksOf(q, m, f) \in BOOLEAN BY DEF BreaksOf
<1>2. \A g, h : \A m \in Menus :
        (\A x \in Menus : Depth[x] < Depth[m] => g[x] = h[x]) => BreaksOf(q, m, g) = BreaksOf(q, m, h)
  <2> TAKE g, h
  <2> TAKE m \in Menus
  <2> HAVE \A x \in Menus : Depth[x] < Depth[m] => g[x] = h[x]
  <2>1. \A x \in Parts(q.definition, m) : g[x] = h[x] BY <1>0
  <2>2. /\ \A i \in DOMAIN q.definition[m].menus : q.definition[m].menus[i] \in Parts(q.definition, m)
        /\ q.definition[m].onErrorMenu # None => q.definition[m].onErrorMenu \in Parts(q.definition, m)
    BY RequestFacts, DefinitionFacts
  <2> QED BY <2>1, <2>2 DEF BreaksOf
<1>3. step \in [[Menus -> BOOLEAN] -> [Menus -> BOOLEAN]] BY <1>1
<1>4. ByLower(Menus, BOOLEAN, Depth, step)
  <2>1. \A g, h \in [Menus -> BOOLEAN] : \A m \in Menus :
          (\A x \in Menus : Depth[x] < Depth[m] => g[x] = h[x]) => step[g][m] = step[h][m]
    BY <1>2
  <2>2. [Menus -> BOOLEAN] # {}
    <3>1. [m \in Menus |-> TRUE] \in [Menus -> BOOLEAN] OBVIOUS
    <3> QED BY <3>1, Zenon
  <2> HIDE DEF step
  <2> QED BY <1>0, <1>3, <2>1, <2>2, Zenon DEF ByLower
<1>5. \E f \in [Menus -> BOOLEAN] : f = step[f]
  <2> HIDE DEF step
  <2> QED BY <1>4, Recursion DEF Fixed
<1>6. Eq(F)
  <2>1. \E f : Eq(f) BY <1>5
  <2> HIDE DEF Eq
  <2> QED BY <2>1
<1>7. Breaks(q) = F BY DEF Breaks
<1> HIDE DEF F
<1> QED BY <1>1, <1>6, <1>7

(* What a menu shows, in the same way.                                      *)
LEMMA ShowsOfType ==
  ASSUME NEW q \in Request, NEW m \in Menus, NEW shows,
         \A x \in Parts(q.definition, m) : shows[x] \in Seq(NodeType)
  PROVE  Meant(q, m) \in NodeType /\ ShowsOf(q, m, shows) \in Seq(NodeType)
<1> DEFINE d == q.definition[m]
           error == IF d.onErrorMenu = None THEN <<Message(m)>> ELSE <<Meant(q, d.onErrorMenu)>>
           menus == [i \in DOMAIN d.menus |-> Meant(q, d.menus[i])]
<1>0. /\ q.definition \in Definitions
      /\ d.menus \in Seq(Menus) /\ \A i \in DOMAIN d.menus : d.menus[i] \in Menus
      /\ d.onErrorMenu \in Menus \union {None}
      /\ d.type \in BranchTypes => d.source \in Menus
      /\ d.source # None => d.source \in Parts(q.definition, m)
      /\ None \notin Menus
  BY RequestFacts, DefinitionFacts
<1>1. \A x \in Menus : Meant(q, x) \in NodeType BY NodesType DEF Meant
<1>2. menus \in Seq(NodeType)
  <2>1. DOMAIN d.menus = 1..Len(d.menus) /\ Len(d.menus) \in Nat BY <1>0
  <2>2. \A i \in DOMAIN d.menus : Meant(q, d.menus[i]) \in NodeType BY <1>0, <1>1
  <2> QED BY <2>1, <2>2
<1>3. \A n \in NodeType : <<n>> \in Seq(NodeType) OBVIOUS
<1>4. error \in Seq(NodeType) /\ <<Message(m)>> \in Seq(NodeType) BY <1>0, <1>1, <1>3, NodesType
<1>5. d.type \in BranchTypes => shows[d.source] \in Seq(NodeType) /\ <<Meant(q, d.source)>> \in Seq(NodeType)
  BY <1>0, <1>1, <1>3
<1> HIDE DEF error, menus
<1>6. ShowsOf(q, m, shows) =
        CASE d.type \notin BranchTypes -> menus
        [] d.type \in BranchTypes /\ q.answer[m] = "unconnected" -> <<Message(m)>>
        [] d.type \in BranchTypes /\ q.answer[m] \in {"refused", "failed"} -> error
        [] OTHER -> IF Breaks(q)[d.source] THEN error
                    ELSE IF ~d.dropParent THEN <<Meant(q, d.source)>>
                    ELSE IF shows[d.source] = <<>> THEN error ELSE shows[d.source]
  BY DEF ShowsOf, error, menus
<1> QED BY <1>1, <1>2, <1>4, <1>5, <1>6

LEMMA ShowsUnfolds ==
  ASSUME NEW q \in Request
  PROVE  Shows(q) \in [Menus -> Seq(NodeType)] /\ \A m \in Menus : Shows(q)[m] = ShowsOf(q, m, Shows(q))
<1> DEFINE step == [f \in [Menus -> Seq(NodeType)] |-> [m \in Menus |-> ShowsOf(q, m, f)]]
           Eq(f) == f = [m \in Menus |-> ShowsOf(q, m, f)]
           F == CHOOSE f : Eq(f)
<1>0. /\ \A m \in Menus : /\ Parts(q.definition, m) \subseteq Menus
                          /\ \A x \in Parts(q.definition, m) : Depth[x] < Depth[m]
      /\ Depth \in [Menus -> Nat]
  BY RequestFacts, DefinitionFacts
<1>1. \A f \in [Menus -> Seq(NodeType)] : \A m \in Menus : ShowsOf(q, m, f) \in Seq(NodeType)
  <2> TAKE f \in [Menus -> Seq(NodeType)]
  <2> TAKE m \in Menus
  <2>1. \A x \in Parts(q.definition, m) : f[x] \in Seq(NodeType) BY <1>0
  <2> QED BY <2>1, ShowsOfType
<1>2. \A g, h \in [Menus -> Seq(NodeType)] : \A m \in Menus :
        (\A x \in Menus : Depth[x] < Depth[m] => g[x] = h[x]) => ShowsOf(q, m, g) = ShowsOf(q, m, h)
  <2> TAKE g, h \in [Menus -> Seq(NodeType)]
  <2> TAKE m \in Menus
  <2> HAVE \A x \in Menus : Depth[x] < Depth[m] => g[x] = h[x]
  <2>1. \A x \in Parts(q.definition, m) : g[x] = h[x] BY <1>0
  <2>2. q.definition[m].type \in BranchTypes => q.definition[m].source \in Parts(q.definition, m)
    BY RequestFacts, DefinitionFacts
  <2> QED BY <2>1, <2>2 DEF ShowsOf
<1>3. step \in [[Menus -> Seq(NodeType)] -> [Menus -> Seq(NodeType)]] BY <1>1
<1>4. ByLower(Menus, Seq(NodeType), Depth, step)
  <2>1. \A g, h \in [Menus -> Seq(NodeType)] : \A m \in Menus :
          (\A x \in Menus : Depth[x] < Depth[m] => g[x] = h[x]) => step[g][m] = step[h][m]
    BY <1>2, Zenon
  <2>2. [Menus -> Seq(NodeType)] # {}
    <3>1. [m \in Menus |-> <<>>] \in [Menus -> Seq(NodeType)] OBVIOUS
    <3> QED BY <3>1, Zenon
  <2> HIDE DEF step
  <2> QED BY <1>0, <1>3, <2>1, <2>2, Zenon DEF ByLower
<1>5. \E f \in [Menus -> Seq(NodeType)] : f = step[f]
  <2> HIDE DEF step
  <2> QED BY <1>4, Recursion DEF Fixed
<1>6. Eq(F)
  <2>1. \E f : Eq(f) BY <1>5
  <2> HIDE DEF Eq
  <2> QED BY <2>1
<1>7. Shows(q) = F BY DEF Shows
<1> HIDE DEF F
<1>8. F \in [Menus -> Seq(NodeType)]
  <2> DEFINE P == {m \in Menus : F[m] \in Seq(NodeType)}
  <2>1. ASSUME NEW m \in Menus, \A x \in Menus : Depth[x] < Depth[m] => x \in P PROVE F[m] \in Seq(NodeType)
    <3>1. \A x \in Parts(q.definition, m) : F[x] \in Seq(NodeType) BY <1>0, <2>1
    <3>2. ShowsOf(q, m, F) \in Seq(NodeType) BY <3>1, ShowsOfType
    <3> QED BY <1>6, <3>2
  <2>2. Menus \subseteq P
    <3>1. \A m \in Menus : (\A x \in Menus : Depth[x] < Depth[m] => x \in P) => m \in P BY <2>1
    <3> HIDE DEF P
    <3> QED BY <1>0, <3>1, ByDepth
  <2> QED BY <1>6, <2>2
<1> QED BY <1>6, <1>7, <1>8
-------------------------------------------------------------------------------
(* The menus that are defined within a menu, with itself.                   *)
Under(d, m) == {y \in Menus : \A S \in SUBSET Menus : m \in S /\ (\A z \in S : Parts(d, z) \subseteq S) => y \in S}

LEMMA UnderFacts ==
  ASSUME NEW d \in Definitions, NEW m \in Menus
  PROVE  /\ m \in Under(d, m) /\ Under(d, m) \subseteq Menus
         /\ \A z \in Under(d, m) : Parts(d, z) \subseteq Under(d, m)
         /\ \A S \in SUBSET Menus : m \in S /\ (\A z \in S : Parts(d, z) \subseteq S) => Under(d, m) \subseteq S
<1>1. \A z \in Under(d, m) : Parts(d, z) \subseteq Under(d, m)
  <2> TAKE z \in Under(d, m)
  <2>1. z \in Menus /\ Parts(d, z) \subseteq Menus BY DefinitionFacts DEF Under
  <2> QED BY <2>1 DEF Under
<1> QED BY <1>1 DEF Under

LEMMA UnderUnder ==
  ASSUME NEW d \in Definitions, NEW m \in Menus, NEW x \in Under(d, m)
  PROVE  Under(d, x) \subseteq Under(d, m)
<1>1. x \in Menus BY DEF Under
<1> QED BY <1>1, UnderFacts

LEMMA UnderIsLower ==
  ASSUME NEW d \in Definitions, NEW m \in Menus, NEW x \in Under(d, m), x # m
  PROVE  Depth[x] < Depth[m]
<1> DEFINE S == {z \in Menus : z = m \/ Depth[z] < Depth[m]}
<1>0. Depth \in [Menus -> Nat] BY MenusAssumption
<1>1. \A z \in S : Parts(d, z) \subseteq S
  <2> TAKE z \in S
  <2>1. z \in Menus /\ Parts(d, z) \subseteq Menus /\ \A p \in Parts(d, z) : Depth[p] < Depth[z]
    BY DefinitionFacts
  <2>2. ASSUME NEW p \in Parts(d, z) PROVE p \in S
    <3>1. Depth[p] \in Nat /\ Depth[z] \in Nat /\ Depth[m] \in Nat /\ p \in Menus BY <1>0, <2>1
    <3>2. Depth[p] < Depth[m] BY <2>1, <3>1
    <3> QED BY <3>1, <3>2
  <2> QED BY <2>2
<1>2. m \in S /\ S \in SUBSET Menus OBVIOUS
<1>3. Under(d, m) \subseteq S
  <2> HIDE DEF S
  <2> QED BY <1>1, <1>2, UnderFacts
<1> QED BY <1>3

(* A menu with a list is under another only if where it stands is.          *)
LEMMA OnePlace ==
  ASSUME NEW d \in Definitions, NEW m \in Menus, NEW n \in Menus, NEW part \in Parts(d, m), part \in Parts(d, n),
         HasList(d, part)
  PROVE  m = n
BY MenusAssumption

LEMMA UnderByPlace ==
  ASSUME NEW d \in Definitions, NEW x \in Menus, NEW y \in Menus, NEW k \in Parts(d, y), HasList(d, k),
         k \in Under(d, x), k # x
  PROVE  y \in Under(d, x)
<1> SUFFICES ASSUME y \notin Under(d, x) PROVE FALSE OBVIOUS
<1> DEFINE S == Under(d, x) \ {k}
<1>1. S \in SUBSET Menus /\ x \in S BY UnderFacts
<1>2. \A z \in S : Parts(d, z) \subseteq S
  <2> TAKE z \in S
  <2>1. Parts(d, z) \subseteq Under(d, x) /\ z \in Menus BY UnderFacts
  <2>2. k \notin Parts(d, z)
    <3> SUFFICES ASSUME k \in Parts(d, z) PROVE FALSE OBVIOUS
    <3>1. z = y BY <2>1, OnePlace
    <3> QED BY <3>1
  <2> QED BY <2>1, <2>2
<1>3. Under(d, x) \subseteq S
  <2> HIDE DEF S
  <2> QED BY <1>1, <1>2, UnderFacts
<1> QED BY <1>3

LEMMA NoListNoParts ==
  ASSUME NEW d \in Definitions, NEW m \in Menus, ~HasList(d, m)
  PROVE  Parts(d, m) = {}
<1>1. /\ d[m].type \notin BranchTypes /\ d[m].type \notin ListTypes BY DEF HasList
<1>2. d[m].menus = <<>> /\ d[m].source = None /\ d[m].onErrorMenu = None BY <1>1, DefinitionFacts
<1> QED BY <1>2 DEF Parts, ToSet

(* Two menus with a menu that has a list below both: one is below the other.*)
LEMMA OneLine ==
  ASSUME NEW d \in Definitions, NEW x \in Menus, NEW y \in Menus, NEW b,
         b \in Under(d, x), b \in Under(d, y), HasList(d, b)
  PROVE  x \in Under(d, y) \/ y \in Under(d, x)
<1> SUFFICES ASSUME x \notin Under(d, y), y \notin Under(d, x) PROVE FALSE OBVIOUS
<1> DEFINE S == {z \in Under(d, x) : z \notin Under(d, y) \/ ~HasList(d, z)}
<1>1. S \in SUBSET Menus /\ x \in S BY UnderFacts
<1>2. \A z \in S : Parts(d, z) \subseteq S
  <2> TAKE z \in S
  <2>1. Parts(d, z) \subseteq Under(d, x) /\ z \in Menus BY UnderFacts
  <2>2. ASSUME NEW p \in Parts(d, z) PROVE p \in S
    <3>1. p \in Under(d, x) BY <2>1
    <3>2. ASSUME p \in Under(d, y), HasList(d, p) PROVE FALSE
      <4>1. HasList(d, z) BY <2>1, <2>2, NoListNoParts
      <4>2. z \notin Under(d, y) BY <4>1
      <4>3. p # y BY <3>1
      <4>4. z \in Under(d, y) BY <2>1, <2>2, <3>2, <4>3, UnderByPlace
      <4> QED BY <4>2, <4>4
    <3> QED BY <3>1, <3>2
  <2> QED BY <2>2
<1>3. Under(d, x) \subseteq S
  <2> HIDE DEF S
  <2> QED BY <1>1, <1>2, UnderFacts
<1> QED BY <1>3
-------------------------------------------------------------------------------
LEMMA AnswerFacts ==
  ASSUME NEW q \in Request, NEW m \in BranchesOf(q.definition)
  PROVE  /\ m \in Menus /\ q.answer[m] \in {"refused", "unconnected", "failed", "menu"}
         /\ m \in Open(q) <=> q.answer[m] \in {"failed", "menu"}
BY RequestFacts DEF Answers, BranchesOf, Open

(* A branch always shows something.                                         *)
LEMMA ShowsSome ==
  ASSUME NEW q \in Request, NEW m \in BranchesOf(q.definition)
  PROVE  Shows(q)[m] # <<>>
<1>1. m \in Menus /\ q.definition[m].type \in BranchTypes BY DEF BranchesOf
<1>2. Shows(q)[m] = ShowsOf(q, m, Shows(q)) BY <1>1, ShowsUnfolds
<1> QED BY <1>1, <1>2 DEF ShowsOf

MeansMade(q, m) ==
  LET made == Made(q)[m] IN
  /\ made.throws <=> Breaks(q)[m]
  /\ ~made.throws => made.node = Meant(q, m) /\ made.nodes = IF m \in Open(q) THEN <<>> ELSE Shows(q)[m]
  /\ made.throws => made.nodes = <<>>

(* What is made of each menu is what its definition means, but for the lists*)
(* that are made later.                                                     *)
LEMMA ListMeans ==
  ASSUME NEW q \in Request, NEW m \in Menus, q.definition[m].type \in ListTypes,
         \A x \in Parts(q.definition, m) : MeansMade(q, x),
         q.definition[m].type = "folder" => q.definition[m].menus # <<>>,
         Made(q)[m] = InOrder(m, [i \in DOMAIN q.definition[m].menus |-> Made(q)[q.definition[m].menus[i]]])
  PROVE  MeansMade(q, m)
<1> DEFINE d == q.definition[m]
           menus == [i \in DOMAIN d.menus |-> Made(q)[d.menus[i]]]
<1>0. /\ q.definition \in Definitions
      /\ d.menus \in Seq(Menus) /\ \A i \in DOMAIN d.menus : d.menus[i] \in Menus /\ d.menus[i] \in Parts(q.definition, m)
      /\ d.type \in {"embedded", "folder"} /\ d.type \notin BranchTypes /\ d.source = None /\ d.onErrorMenu = None
  BY RequestFacts, DefinitionFacts DEF ListTypes, BranchTypes
<1>1. menus \in Seq(MadeType) /\ DOMAIN menus = DOMAIN d.menus
  <2>1. \A i \in DOMAIN d.menus : Made(q)[d.menus[i]] \in MadeType BY <1>0, MadeUnfolds
  <2>2. DOMAIN d.menus = 1..Len(d.menus) /\ Len(d.menus) \in Nat BY <1>0
  <2> QED BY <2>1, <2>2
<1>2. \A i \in DOMAIN d.menus : MeansMade(q, d.menus[i]) BY <1>0
<1>3. m \notin Open(q) BY <1>0 DEF Open, BranchesOf
<1>4. Breaks(q)[m] <=> \E i \in DOMAIN d.menus : Breaks(q)[d.menus[i]]
  <2>1. Breaks(q)[m] <=> BreaksOf(q, m, Breaks(q)) BY BreaksUnfolds
  <2> QED BY <1>0, <2>1 DEF BreaksOf
<1>5. Shows(q)[m] = [i \in DOMAIN d.menus |-> Meant(q, d.menus[i])]
  <2>1. Shows(q)[m] = ShowsOf(q, m, Shows(q)) BY ShowsUnfolds
  <2> QED BY <1>0, <2>1 DEF ShowsOf
<1>6. Meant(q, m) = Node("branch", m) BY <1>0 DEF Meant
<1>7. \A i \in DOMAIN d.menus : menus[i] = Made(q)[d.menus[i]] OBVIOUS
<1> DEFINE made == InOrder(m, menus)
<1>8. /\ made.throws <=> \E i \in DOMAIN menus : menus[i].throws
      /\ made.throws => made.nodes = <<>>
      /\ ~made.throws => made.node = Node("branch", m) /\ made.nodes = [i \in DOMAIN menus |-> menus[i].node]
  <2> HIDE DEF menus
  <2> QED BY <1>1, InOrderGives
<1>9. Made(q)[m] = made OBVIOUS
<1> HIDE DEF menus, made
<1>10. made.throws <=> Breaks(q)[m] BY <1>1, <1>2, <1>4, <1>7, <1>8, Zenon DEF MeansMade
<1>11. ~made.throws => made.nodes = Shows(q)[m]
  <2> SUFFICES ASSUME ~made.throws PROVE made.nodes = Shows(q)[m] OBVIOUS
  <2>1. ASSUME NEW i \in DOMAIN d.menus PROVE menus[i].node = Meant(q, d.menus[i])
    <3>1. MeansMade(q, d.menus[i]) /\ menus[i] = Made(q)[d.menus[i]] BY <1>2, <1>7
    <3>2. ~menus[i].throws BY <1>1, <1>8
    <3> QED BY <3>1, <3>2 DEF MeansMade
  <2> QED BY <1>1, <1>5, <1>8, <2>1
<1> QED BY <1>3, <1>6, <1>8, <1>9, <1>10, <1>11 DEF MeansMade

LEMMA BranchMeans ==
  ASSUME NEW q \in Request, NEW m \in BranchesOf(q.definition),
         \A x \in Parts(q.definition, m) : MeansMade(q, x)
  PROVE  MeansMade(q, m)
<1> DEFINE d == q.definition[m]
<1>0. /\ q.definition \in Definitions /\ m \in Menus /\ d.type \in BranchTypes /\ d.menus = <<>>
      /\ d.onErrorMenu # None => d.onErrorMenu \in Parts(q.definition, m)
      /\ d.onErrorMenu \in Menus \union {None}
      /\ d.type \notin {"embedded", "folder", "leaf", "filtered", "invalid"}
  <2>1. q.definition \in Definitions /\ m \in Menus /\ d.type \in BranchTypes BY RequestFacts DEF BranchesOf
  <2> QED BY <2>1, DefinitionFacts, TypeFacts
<1>1. Made(q)[m] = Deferred(q, m, Made(q))
  <2>1. Made(q)[m] = MadeOf(q, m, Made(q)) BY <1>0, MadeUnfolds
  <2> QED BY <1>0, <2>1 DEF MadeOf
<1>2. Meant(q, m) = Node("branch", m) BY <1>0 DEF Meant
<1>3. Breaks(q)[m] <=> q.answer[m] = "refused" /\ d.onErrorMenu # None /\ Breaks(q)[d.onErrorMenu]
  <2>1. Breaks(q)[m] <=> BreaksOf(q, m, Breaks(q)) BY <1>0, BreaksUnfolds
  <2> QED BY <1>0, <2>1 DEF BreaksOf
<1>4. Shows(q)[m] = ShowsOf(q, m, Shows(q)) BY <1>0, ShowsUnfolds
<1>5. \A g \in MadeType : /\ InOrder(m, <<g>>).throws <=> g.throws
                          /\ InOrder(m, <<g>>).throws => InOrder(m, <<g>>).nodes = <<>>
                          /\ ~InOrder(m, <<g>>).throws => /\ InOrder(m, <<g>>).node = Node("branch", m)
                                                          /\ InOrder(m, <<g>>).nodes = <<g.node>>
  <2> TAKE g \in MadeType
  <2> DEFINE made == <<g>>
  <2>1. made \in Seq(MadeType) /\ DOMAIN made = {1} /\ made[1] = g OBVIOUS
  <2>2. [i \in DOMAIN made |-> made[i].node] = <<g.node>> BY <2>1
  <2> HIDE DEF made
  <2>3. /\ InOrder(m, made).throws <=> \E i \in DOMAIN made : made[i].throws
        /\ InOrder(m, made).throws => InOrder(m, made).nodes = <<>>
        /\ ~InOrder(m, made).throws => /\ InOrder(m, made).node = Node("branch", m)
                                       /\ InOrder(m, made).nodes = [i \in DOMAIN made |-> made[i].node]
    BY <1>0, <2>1, InOrderGives
  <2>4. InOrder(m, made).throws <=> g.throws BY <2>1, <2>3
  <2> QED BY <2>2, <2>3, <2>4 DEF made
<1>6. CASE q.answer[m] = "refused"
  <2> DEFINE e == ErrorMenu(q, m, Made(q))
  <2>1. e \in MadeType
    <3>1. \A x \in Parts(q.definition, m) : Made(q)[x] \in MadeType BY <1>0, MadeUnfolds, DefinitionFacts
    <3> QED BY <1>0, <3>1, ErrorMenuType
  <2>2. e.throws <=> d.onErrorMenu # None /\ Breaks(q)[d.onErrorMenu]
    <3>1. CASE d.onErrorMenu = None BY <3>1 DEF ErrorMenu, Gives
    <3>2. CASE d.onErrorMenu # None
      <4>1. MeansMade(q, d.onErrorMenu) BY <1>0, <3>2
      <4> QED BY <3>2, <4>1 DEF ErrorMenu, MeansMade
    <3> QED BY <3>1, <3>2
  <2>3. ~e.throws => <<e.node>> = Shows(q)[m]
    <3>0. Shows(q)[m] = IF d.onErrorMenu = None THEN <<Message(m)>> ELSE <<Meant(q, d.onErrorMenu)>>
      BY <1>0, <1>4, <1>6 DEF ShowsOf
    <3>1. CASE d.onErrorMenu = None BY <3>0, <3>1 DEF ErrorMenu, Gives
    <3>2. CASE d.onErrorMenu # None
      <4>1. MeansMade(q, d.onErrorMenu) BY <1>0, <3>2
      <4> QED BY <3>0, <3>2, <4>1 DEF ErrorMenu, MeansMade
    <3> QED BY <3>1, <3>2
  <2>4. Made(q)[m] = InOrder(m, <<e>>) BY <1>1, <1>6 DEF Deferred
  <2>5. m \notin Open(q) BY <1>6, AnswerFacts
  <2> HIDE DEF e
  <2> QED BY <1>2, <1>3, <1>5, <1>6, <2>1, <2>2, <2>3, <2>4, <2>5 DEF MeansMade
<1>7. CASE q.answer[m] = "unconnected"
  <2> DEFINE e == Gives(Message(m), <<>>, <<>>)
  <2>1. e \in MadeType /\ ~e.throws /\ e.node = Message(m)
    <3>1. <<>> \in Seq(NodeType) /\ <<>> \in Seq(WorkType) OBVIOUS
    <3>2. e \in MadeType BY <1>0, <3>1, NodesType, GivesType, Zenon
    <3> QED BY <3>2 DEF Gives
  <2>2. Made(q)[m] = InOrder(m, <<e>>) BY <1>1, <1>7 DEF Deferred
  <2>3. Shows(q)[m] = <<Message(m)>> BY <1>0, <1>4, <1>7 DEF ShowsOf
  <2>4. m \notin Open(q) BY <1>7, AnswerFacts
  <2> HIDE DEF e
  <2> QED BY <1>2, <1>3, <1>5, <1>7, <2>1, <2>2, <2>3, <2>4 DEF MeansMade
<1>8. CASE q.answer[m] \in {"failed", "menu"}
  <2>1. Made(q)[m] = Later(m) BY <1>1, <1>8 DEF Deferred
  <2>2. m \in Open(q) BY <1>8, AnswerFacts
  <2>3. ~Breaks(q)[m] BY <1>3, <1>8
  <2> QED BY <1>2, <2>1, <2>2, <2>3 DEF MeansMade, Later, Gives
<1> QED BY <1>6, <1>7, <1>8, AnswerFacts

LEMMA MadeMeans ==
  ASSUME NEW q \in Request, NEW m \in Menus
  PROVE  MeansMade(q, m)
<1> DEFINE P == {x \in Menus : MeansMade(q, x)}
<1>1. ASSUME NEW n \in Menus, \A x \in Menus : Depth[x] < Depth[n] => x \in P PROVE MeansMade(q, n)
  <2> DEFINE d == q.definition[n]
  <2>0. /\ q.definition \in Definitions /\ Parts(q.definition, n) \subseteq Menus
        /\ \A x \in Parts(q.definition, n) : Depth[x] < Depth[n]
    BY RequestFacts, DefinitionFacts
  <2>1. \A x \in Parts(q.definition, n) : MeansMade(q, x) BY <1>1, <2>0
  <2>2. Made(q)[n] = MadeOf(q, n, Made(q)) BY MadeUnfolds
  <2>3. Breaks(q)[n] <=> BreaksOf(q, n, Breaks(q)) BY BreaksUnfolds
  <2>4. Shows(q)[n] = ShowsOf(q, n, Shows(q)) BY ShowsUnfolds
  <2>5. CASE d.type \in BranchTypes
    <3>1. n \in BranchesOf(q.definition) BY <2>5 DEF BranchesOf
    <3> QED BY <2>1, <3>1, BranchMeans
  <2>6. CASE d.type = "embedded" \/ (d.type = "folder" /\ d.menus # <<>>)
    <3> DEFINE menus == [i \in DOMAIN d.menus |-> Made(q)[d.menus[i]]]
    <3>1. Made(q)[n] = InOrder(n, menus)
      <4>1. d.menus \in Seq(Menus) BY <2>0, DefinitionFacts
      <4>2. d.menus # <<>> => menus # <<>>
        <5>0. \A s \in Seq(Menus) : s # <<>> => Len(s) \in Nat /\ Len(s) # 0 /\ DOMAIN s = 1..Len(s)
          BY EmptySeq
        <5>1. d.menus # <<>> => 1 \in DOMAIN d.menus BY <4>1, <5>0
        <5> QED BY <5>1
      <4> HIDE DEF menus
      <4> QED BY <2>2, <2>6, <4>2 DEF MadeOf, menus
    <3>2. d.type \in ListTypes BY <2>6 DEF ListTypes
    <3> QED BY <2>1, <2>6, <3>1, <3>2, ListMeans
  <2>7. CASE d.type \in {"leaf", "filtered", "invalid"} \/ (d.type = "folder" /\ d.menus = <<>>)
    <3>1. d.type \notin BranchTypes /\ d.menus = <<>> /\ d.source = None /\ d.onErrorMenu = None
      <4>1. d.type \notin BranchTypes /\ (d.type # "folder" => d.type \notin ListTypes)
        BY <2>7 DEF BranchTypes, ListTypes
      <4> QED BY <2>0, <2>7, <4>1, DefinitionFacts
    <3>2. n \notin Open(q) BY <3>1 DEF Open, BranchesOf
    <3>3. [i \in DOMAIN d.menus |-> Meant(q, d.menus[i])] = <<>> /\ [i \in DOMAIN d.menus |-> Made(q)[d.menus[i]]] = <<>>
      BY <3>1
    <3>4. Shows(q)[n] = <<>> BY <2>4, <3>1, <3>3 DEF ShowsOf
    <3>5. Breaks(q)[n] <=> d.type = "invalid" BY <2>3, <3>1 DEF BreaksOf
    <3>6. CASE d.type = "leaf"
      <4>1. Made(q)[n] = Gives(Node("leaf", n), <<>>, <<>>) BY <2>2, <3>6 DEF MadeOf
      <4> QED BY <3>2, <3>4, <3>5, <3>6, <4>1 DEF MeansMade, Gives, Meant
    <3>7. CASE d.type = "filtered"
      <4>1. Made(q)[n] = Gives(Null(n), <<>>, <<>>) BY <2>2, <3>7 DEF MadeOf
      <4> QED BY <3>2, <3>4, <3>5, <3>7, <4>1 DEF MeansMade, Gives, Meant
    <3>8. CASE d.type = "folder"
      <4>1. Made(q)[n] = Gives(Null(n), <<>>, <<>>) BY <2>2, <2>7, <3>3, <3>8 DEF MadeOf
      <4> QED BY <2>7, <3>2, <3>4, <3>5, <3>8, <4>1 DEF MeansMade, Gives, Meant
    <3>9. CASE d.type = "invalid"
      <4>1. Made(q)[n] = Throws(<<>>) BY <2>2, <3>9 DEF MadeOf
      <4> QED BY <3>5, <3>9, <4>1 DEF MeansMade, Throws
    <3> QED BY <2>7, <3>6, <3>7, <3>8, <3>9
  <2>8. d.type \in BranchTypes \/ d.type \in {"embedded", "folder", "leaf", "filtered", "invalid"}
    BY <2>0, TypeFacts
  <2> QED BY <2>5, <2>6, <2>7, <2>8
<1>2. Menus \subseteq P
  <2>1. \A n \in Menus : (\A x \in Menus : Depth[x] < Depth[n] => x \in P) => n \in P BY <1>1
  <2>2. Depth \in [Menus -> Nat] BY MenusAssumption
  <2> HIDE DEF P
  <2> QED BY <2>1, <2>2, ByDepth
<1> QED BY <1>2
-------------------------------------------------------------------------------
(* The works of a list are those of its menus.                              *)
Paired(made, R) ==
  /\ \A i \in DOMAIN made : \A j, k \in DOMAIN made[i].works :
       j # k => <<made[i].works[j], made[i].works[k]>> \in R
  /\ \A i, l \in DOMAIN made : i # l =>
       \A j \in DOMAIN made[i].works, k \in DOMAIN made[l].works :
          <<made[i].works[j], made[l].works[k]>> \in R

LEMMA InOrderWorks ==
  ASSUME NEW m \in Menus, NEW made, made \in Seq(MadeType), NEW R,
         Paired(made, R)
  PROVE  LET works == InOrder(m, made).works IN
         /\ \A p \in DOMAIN works : \E i \in DOMAIN made : \E j \in DOMAIN made[i].works : works[p] = made[i].works[j]
         /\ \A p, r \in DOMAIN works : p # r => <<works[p], works[r]>> \in R
         /\ ~InOrder(m, made).throws =>
              \A i \in DOMAIN made : \A j \in DOMAIN made[i].works : \E p \in DOMAIN works : works[p] = made[i].works[j]
<1> DEFINE works == InOrder(m, made).works
<1>1. PICK n \in 0..Len(made) :
        /\ works = FlattenSeq([i \in 1..n |-> made[i].works])
        /\ ~InOrder(m, made).throws => n = Len(made)
  BY InOrderGives, Zenon
<1>2. /\ n \in Nat /\ n <= Len(made) /\ Len(made) \in Nat /\ DOMAIN made = 1..Len(made)
      /\ \A i \in DOMAIN made : made[i] \in MadeType
  OBVIOUS
<1>3. \A i \in 1..n : i \in DOMAIN made BY <1>2
<1> DEFINE s == [i \in 1..n |-> made[i].works]
<1>4. n \in Nat /\ s \in [1..n -> Seq(WorkType)]
  <2>1. \A i \in 1..n : made[i].works \in Seq(WorkType) BY <1>2, <1>3, Zenon DEF MadeType
  <2> QED BY <1>2, <2>1
<1>5. \A i \in 1..n : \A j, k \in DOMAIN s[i] : j # k => <<s[i][j], s[i][k]>> \in R
  BY <1>3, Zenon DEF Paired
<1>12. \A i, l \in 1..n : i # l => \A j \in DOMAIN s[i], k \in DOMAIN s[l] : <<s[i][j], s[l][k]>> \in R
  BY <1>3 DEF Paired
<1>6. InOne(FlattenSeq(s), s, n, R)
  <2>1. Pairwise(s, n, R)
    <3> HIDE DEF s
    <3> QED BY <1>5, <1>12, Zenon DEF Pairwise
  <2> HIDE DEF s
  <2> QED BY <1>4, <2>1, Flattened, Zenon
<1>7. works = FlattenSeq(s) BY <1>1
<1>8. \A i \in 1..n : s[i] = made[i].works OBVIOUS
<1> HIDE DEF s, works
<1>9. \A p \in DOMAIN works : \E i \in DOMAIN made : \E j \in DOMAIN made[i].works : works[p] = made[i].works[j]
  BY <1>3, <1>6, <1>7, <1>8 DEF InOne
<1>10. \A p, r \in DOMAIN works : p # r => <<works[p], works[r]>> \in R BY <1>6, <1>7 DEF InOne
<1>11. ~InOrder(m, made).throws =>
         \A i \in DOMAIN made : \A j \in DOMAIN made[i].works : \E p \in DOMAIN works : works[p] = made[i].works[j]
  <2> SUFFICES ASSUME ~InOrder(m, made).throws, NEW i \in DOMAIN made, NEW j \in DOMAIN made[i].works
               PROVE  \E p \in DOMAIN works : works[p] = made[i].works[j]
    OBVIOUS
  <2>1. i \in 1..n BY <1>1, <1>2, Zenon
  <2> QED BY <1>6, <1>7, <1>8, <2>1 DEF InOne
<1> QED BY <1>9, <1>10, <1>11, Zenon DEF works

(* No menu with a list is below two of the menus that another is made of.   *)
LEMMA Sisters ==
  ASSUME NEW d \in Definitions, NEW m \in Menus, NEW p \in Parts(d, m), NEW r \in Parts(d, m),
         NEW b, b \in Under(d, p), b \in Under(d, r), HasList(d, b)
  PROVE  p = r /\ HasList(d, p)
<1>0. p \in Menus /\ r \in Menus /\ Depth[p] < Depth[m] /\ Depth[r] < Depth[m] /\ Depth \in [Menus -> Nat]
  BY DefinitionFacts, MenusAssumption
<1>1. ASSUME NEW x \in Parts(d, m), b \in Under(d, x) PROVE HasList(d, x)
  <2> SUFFICES ASSUME ~HasList(d, x) PROVE FALSE OBVIOUS
  <2>1. x \in Menus /\ Parts(d, x) = {} BY DefinitionFacts, NoListNoParts
  <2>2. {x} \in SUBSET Menus /\ x \in {x} /\ \A z \in {x} : Parts(d, z) \subseteq {x} BY <2>1
  <2>3. Under(d, x) \subseteq {x} BY <2>1, <2>2, UnderFacts, Zenon
  <2> QED BY <1>1, <2>3
<1>2. ASSUME NEW x \in Parts(d, m), NEW y \in Parts(d, m), x \in Under(d, y), HasList(d, x) PROVE x = y
  <2> SUFFICES ASSUME x # y PROVE FALSE OBVIOUS
  <2>1. x \in Menus /\ y \in Menus /\ Depth[y] < Depth[m] BY DefinitionFacts
  <2>2. m \in Under(d, y) BY <1>2, <2>1, UnderByPlace
  <2>3. m # y /\ Depth[m] \in Nat /\ Depth[y] \in Nat BY <1>0, <2>1
  <2>4. Depth[m] < Depth[y] BY <2>1, <2>2, <2>3, UnderIsLower
  <2> QED BY <2>1, <2>3, <2>4
<1>3. HasList(d, p) /\ HasList(d, r) BY <1>1
<1>4. p \in Under(d, r) \/ r \in Under(d, p) BY <1>0, OneLine
<1> QED BY <1>2, <1>3, <1>4

AreApart(q) == {vw \in WorkType \X WorkType : vw[2].branch \notin Under(q.definition, vw[1].branch)}

(* What is made of a menu, and the works that are queued on the way.        *)
WholeBelow(q, nodes, works, T) ==
  /\ BranchesIn(nodes) \subseteq T
  /\ \A y \in T : /\ ~Made(q)[y].throws /\ BranchesIn(Made(q)[y].nodes) \subseteq T
                  /\ y \in Open(q) => IsDeferred(y, works)

(* The works queued for one menu: below it, in no other's way, and one for  *)
(* each list below it that is still to be made.                             *)
WorksOf(q, m, made) ==
  /\ \A i \in DOMAIN made.works : LET b == made.works[i].branch IN
        b \in Open(q) /\ b \in Under(q.definition, m) /\ made.works[i] = Work(b)
  /\ \A i, j \in DOMAIN made.works : i # j => <<made.works[i], made.works[j]>> \in AreApart(q)
  /\ ~made.throws => \E T \in SUBSET {y \in Under(q.definition, m) : HasList(q.definition, y)} :
                        WholeBelow(q, <<made.node>>, made.works, T)

LEMMA BranchesOfNodes ==
  ASSUME NEW nodes
  PROVE  \A b : b \in BranchesIn(nodes) <=> \E i \in DOMAIN nodes : nodes[i].is = "branch" /\ nodes[i].of = b
BY DEF BranchesIn, ToSet

LEMMA BranchesOfNode ==
  ASSUME NEW node
  PROVE  \A b : b \in BranchesIn(<<node>>) <=> node.is = "branch" /\ node.of = b
<1>1. ToSet(<<node>>) = {node} BY DEF ToSet
<1> QED BY <1>1 DEF BranchesIn

LEMMA BranchesOfNoNode == BranchesIn(<<>>) = {}
BY DEF BranchesIn, ToSet
-------------------------------------------------------------------------------
LEMMA WorksOfPart ==
  ASSUME NEW q \in Request, NEW m \in Menus, NEW x \in Under(q.definition, m), NEW made,
         WorksOf(q, x, made)
  PROVE  WorksOf(q, m, made)
<1>1. Under(q.definition, x) \subseteq Under(q.definition, m) BY RequestFacts, UnderUnder
<1> QED BY <1>1 DEF WorksOf

(* One without branches and works.                                          *)
LEMMA WorksOfNone ==
  ASSUME NEW q \in Request, NEW m \in Menus, NEW made, made.works = <<>>, made.node.is # "branch"
  PROVE  WorksOf(q, m, made)
<1>1. DOMAIN made.works = {} OBVIOUS
<1>2. BranchesIn(<<made.node>>) = {} BY BranchesOfNode
<1>3. WholeBelow(q, <<made.node>>, made.works, {}) BY <1>2 DEF WholeBelow
<1> QED BY <1>1, <1>3 DEF WorksOf

LEMMA WorksOfList ==
  ASSUME NEW q \in Request, NEW m \in Menus, m \notin Open(q), HasList(q.definition, m),
         NEW made, made \in Seq(MadeType), Paired(made, AreApart(q)),
         \A i \in DOMAIN made : WorksOf(q, m, made[i]),
         Made(q)[m] = InOrder(m, made)
  PROVE  WorksOf(q, m, Made(q)[m])
<1> DEFINE all == InOrder(m, made)
           below == {y \in Under(q.definition, m) : HasList(q.definition, y)}
<1>1. /\ \A p \in DOMAIN all.works : \E i \in DOMAIN made : \E j \in DOMAIN made[i].works : all.works[p] = made[i].works[j]
      /\ \A p, r \in DOMAIN all.works : p # r => <<all.works[p], all.works[r]>> \in AreApart(q)
      /\ ~all.throws =>
           \A i \in DOMAIN made : \A j \in DOMAIN made[i].works : \E p \in DOMAIN all.works : all.works[p] = made[i].works[j]
  BY InOrderWorks, Zenon
<1>2. /\ all.throws <=> \E i \in DOMAIN made : made[i].throws
      /\ ~all.throws => all.node = Node("branch", m) /\ all.nodes = [i \in DOMAIN made |-> made[i].node]
      /\ all \in MadeType
  BY InOrderGives
<1>3. \A i \in DOMAIN all.works : LET b == all.works[i].branch IN
         b \in Open(q) /\ b \in Under(q.definition, m) /\ all.works[i] = Work(b)
  <2> TAKE p \in DOMAIN all.works
  <2>1. PICK i \in DOMAIN made : \E j \in DOMAIN made[i].works : all.works[p] = made[i].works[j] BY <1>1
  <2>2. PICK j \in DOMAIN made[i].works : all.works[p] = made[i].works[j] BY <2>1
  <2>3. WorksOf(q, m, made[i]) OBVIOUS
  <2> QED BY <2>2, <2>3 DEF WorksOf
<1>4. ASSUME ~all.throws PROVE \E T \in SUBSET below : WholeBelow(q, <<all.node>>, all.works, T)
  <2> DEFINE parts == {S \in SUBSET below : \E i \in DOMAIN made : WholeBelow(q, <<made[i].node>>, made[i].works, S)}
             T == {m} \union UNION parts
  <2>1. m \in Under(q.definition, m) BY RequestFacts, UnderFacts
  <2>2. T \in SUBSET below BY <2>1
  <2>3. BranchesIn(<<all.node>>) \subseteq T
    <3>1. all.node.of = m BY <1>2, <1>4 DEF Node
    <3> QED BY <3>1, BranchesOfNode
  <2>4. BranchesIn(all.nodes) \subseteq T
    <3>0. all.nodes \in Seq(NodeType) BY <1>2 DEF MadeType
    <3>1. ASSUME NEW b \in BranchesIn(all.nodes) PROVE b \in T
      <4>1. PICK i \in DOMAIN made : made[i].node.is = "branch" /\ made[i].node.of = b
        BY <1>2, <1>4, <3>1, BranchesOfNodes
      <4>2. WorksOf(q, m, made[i]) /\ ~made[i].throws BY <1>2, <1>4
      <4>3. PICK S \in SUBSET below : WholeBelow(q, <<made[i].node>>, made[i].works, S) BY <4>2 DEF WorksOf
      <4>4. b \in S BY <4>1, <4>3, BranchesOfNode DEF WholeBelow
      <4>5. S \in parts BY <4>3, Zenon
      <4> QED BY <4>4, <4>5
    <3> QED BY <3>1
  <2>5. ASSUME NEW y \in T
        PROVE  /\ ~Made(q)[y].throws /\ BranchesIn(Made(q)[y].nodes) \subseteq T
               /\ y \in Open(q) => IsDeferred(y, all.works)
    <3>1. CASE y = m BY <1>4, <2>4, <3>1, Zenon
    <3>2. CASE y # m
      <4>1. PICK S \in parts : y \in S BY <3>2
      <4>2. PICK i \in DOMAIN made : WholeBelow(q, <<made[i].node>>, made[i].works, S) BY <4>1
      <4>3. ~Made(q)[y].throws /\ BranchesIn(Made(q)[y].nodes) \subseteq S BY <4>1, <4>2 DEF WholeBelow
      <4>4. ASSUME y \in Open(q) PROVE IsDeferred(y, all.works)
        <5>1. IsDeferred(y, made[i].works) BY <4>1, <4>2, <4>4 DEF WholeBelow
        <5>2. PICK j \in DOMAIN made[i].works : made[i].works[j].subNodes = y BY <5>1 DEF IsDeferred
        <5>3. PICK p \in DOMAIN all.works : all.works[p] = made[i].works[j] BY <1>1, <1>4
        <5> QED BY <5>2, <5>3 DEF IsDeferred
      <4>5. S \subseteq T BY <4>1
      <4> QED BY <4>3, <4>4, <4>5
    <3> QED BY <3>1, <3>2
  <2>6. WholeBelow(q, <<all.node>>, all.works, T)
    <3> HIDE DEF T, all
    <3> QED BY <2>3, <2>5 DEF WholeBelow
  <2> HIDE DEF T, below, all
  <2> QED BY <2>2, <2>6
<1>5. WorksOf(q, m, all)
  <2> HIDE DEF all
  <2> QED BY <1>1, <1>3, <1>4 DEF WorksOf, below
<1> QED BY <1>5

LEMMA OpenFacts ==
  ASSUME NEW q \in Request, NEW b \in Open(q)
  PROVE  b \in Menus /\ HasList(q.definition, b) /\ b \in BranchesOf(q.definition)
BY DEF Open, BranchesOf, HasList

(* Works of two menus of a list lie apart.                                  *)
LEMMA SistersWorks ==
  ASSUME NEW q \in Request, NEW m \in Menus,
         NEW p \in Parts(q.definition, m), NEW r \in Parts(q.definition, m),
         HasList(q.definition, p) => p # r,
         NEW v \in WorkType, v.branch \in Under(q.definition, p),
         NEW w \in WorkType, w.branch \in Under(q.definition, r), w.branch \in Open(q)
  PROVE  <<v, w>> \in AreApart(q)
<1> SUFFICES ASSUME w.branch \in Under(q.definition, v.branch) PROVE FALSE BY DEF AreApart
<1>1. q.definition \in Definitions /\ p \in Menus BY RequestFacts, DefinitionFacts
<1>2. w.branch \in Under(q.definition, p) BY <1>1, UnderUnder
<1>3. HasList(q.definition, w.branch) BY OpenFacts
<1> QED BY <1>1, <1>2, <1>3, Sisters

(* The works queued for a menu: each its own list's, none below another, and*)
(* one for each list of the menu that is still to be made.                  *)
LEMMA WorksMade ==
  ASSUME NEW q \in Request, NEW m \in Menus
  PROVE  WorksOf(q, m, Made(q)[m])
<1> DEFINE P == {x \in Menus : WorksOf(q, x, Made(q)[x])}
<1>1. ASSUME NEW n \in Menus, \A x \in Menus : Depth[x] < Depth[n] => x \in P PROVE WorksOf(q, n, Made(q)[n])
  <2> DEFINE d == q.definition[n]
  <2>0. /\ q.definition \in Definitions /\ Parts(q.definition, n) \subseteq Menus
        /\ \A x \in Parts(q.definition, n) : Depth[x] < Depth[n]
        /\ Parts(q.definition, n) \subseteq Under(q.definition, n)
    BY RequestFacts, DefinitionFacts, UnderFacts
  <2>1. \A x \in Parts(q.definition, n) : WorksOf(q, x, Made(q)[x]) /\ WorksOf(q, n, Made(q)[x])
    <3>1. \A x \in Parts(q.definition, n) : WorksOf(q, x, Made(q)[x]) BY <1>1, <2>0
    <3> QED BY <2>0, <3>1, WorksOfPart
  <2>2. Made(q)[n] = MadeOf(q, n, Made(q)) BY MadeUnfolds
  <2>3. CASE d.type \in BranchTypes
    <3>0. n \in BranchesOf(q.definition) /\ d.type \notin {"embedded", "folder", "leaf", "filtered", "invalid"}
      BY <2>0, <2>3, TypeFacts
    <3>1. Made(q)[n] = Deferred(q, n, Made(q)) BY <2>2, <3>0 DEF MadeOf
    <3>2. HasList(q.definition, n) BY <2>3 DEF HasList
    <3>3. ASSUME NEW g \in MadeType, WorksOf(q, n, g), Made(q)[n] = InOrder(n, <<g>>), n \notin Open(q)
          PROVE  WorksOf(q, n, Made(q)[n])
      <4> DEFINE made == <<g>>
      <4>1. made \in Seq(MadeType) /\ DOMAIN made = {1} /\ made[1] = g OBVIOUS
      <4>2. Paired(made, AreApart(q)) /\ \A i \in DOMAIN made : WorksOf(q, n, made[i])
        <5>1. \A j, k \in DOMAIN g.works : j # k => <<g.works[j], g.works[k]>> \in AreApart(q)
          BY <3>3 DEF WorksOf
        <5> HIDE DEF made
        <5> QED BY <3>3, <4>1, <5>1, Zenon DEF Paired
      <4>3. Made(q)[n] = InOrder(n, made) BY <3>3
      <4> HIDE DEF made
      <4> QED BY <3>2, <3>3, <4>1, <4>2, <4>3, WorksOfList
    <3>4. CASE q.answer[n] = "refused"
      <4>1. Made(q)[n] = InOrder(n, <<ErrorMenu(q, n, Made(q))>>) BY <3>1, <3>4 DEF Deferred
      <4>2. WorksOf(q, n, ErrorMenu(q, n, Made(q)))
        <5>1. CASE d.onErrorMenu = None
          <6>1. /\ ErrorMenu(q, n, Made(q)).works = <<>> /\ ErrorMenu(q, n, Made(q)).node.is # "branch"
            BY <5>1 DEF ErrorMenu, Gives, Message, Node
          <6> QED BY <6>1, WorksOfNone
        <5>2. CASE d.onErrorMenu # None
          <6>1. d.onErrorMenu \in Parts(q.definition, n) BY <2>0, <5>2, DefinitionFacts
          <6> QED BY <2>1, <5>2, <6>1 DEF ErrorMenu
        <5> QED BY <5>1, <5>2
      <4>3. ErrorMenu(q, n, Made(q)) \in MadeType
        <5>1. \A x \in Parts(q.definition, n) : Made(q)[x] \in MadeType BY <2>0, MadeUnfolds
        <5> QED BY <5>1, ErrorMenuType
      <4>4. n \notin Open(q) BY <3>0, <3>4, AnswerFacts
      <4> QED BY <3>3, <4>1, <4>2, <4>3, <4>4
    <3>5. CASE q.answer[n] = "unconnected"
      <4> DEFINE g == Gives(Message(n), <<>>, <<>>)
      <4>1. Made(q)[n] = InOrder(n, <<g>>) BY <3>1, <3>5 DEF Deferred
      <4>2. g.works = <<>> /\ g.node.is # "branch" BY DEF Gives, Message, Node
      <4>3. g \in MadeType
        <5>1. <<>> \in Seq(NodeType) /\ <<>> \in Seq(WorkType) OBVIOUS
        <5> QED BY <5>1, NodesType, GivesType, Zenon
      <4>4. n \notin Open(q) BY <3>0, <3>5, AnswerFacts
      <4> HIDE DEF g
      <4>5. WorksOf(q, n, g) BY <4>2, WorksOfNone
      <4> QED BY <3>3, <4>1, <4>3, <4>4, <4>5
    <3>6. CASE q.answer[n] \in {"failed", "menu"}
      <4>1. Made(q)[n] = Later(n) BY <3>1, <3>6 DEF Deferred
      <4>2. /\ Made(q)[n].works = <<Work(n)>> /\ Made(q)[n].nodes = <<>> /\ Made(q)[n].node = Node("branch", n)
            /\ ~Made(q)[n].throws
        BY <4>1 DEF Later, Gives
      <4>3. n \in Open(q) /\ n \in Under(q.definition, n) BY <2>0, <3>0, <3>6, AnswerFacts, UnderFacts
      <4>4. DOMAIN <<Work(n)>> = {1} /\ <<Work(n)>>[1] = Work(n) /\ Work(n).subNodes = n /\ Work(n).branch = n
        BY DEF Work
      <4>5. BranchesIn(<<Made(q)[n].node>>) \subseteq {n}
        <5>1. Made(q)[n].node.of = n BY <4>2 DEF Node
        <5> QED BY <5>1, BranchesOfNode
      <4>6. BranchesIn(Made(q)[n].nodes) = {} BY <4>2, BranchesOfNoNode
      <4>7. IsDeferred(n, Made(q)[n].works) BY <4>2, <4>4 DEF IsDeferred
      <4>8. WholeBelow(q, <<Made(q)[n].node>>, Made(q)[n].works, {n})
        BY <4>2, <4>5, <4>6, <4>7 DEF WholeBelow
      <4>9. {n} \in SUBSET {y \in Under(q.definition, n) : HasList(q.definition, y)} BY <3>2, <4>3
      <4> QED BY <4>2, <4>3, <4>4, <4>8, <4>9 DEF WorksOf
    <3> QED BY <3>0, <3>4, <3>5, <3>6, AnswerFacts
  <2>4. CASE d.type = "embedded" \/ (d.type = "folder" /\ d.menus # <<>>)
    <3> DEFINE menus == [i \in DOMAIN d.menus |-> Made(q)[d.menus[i]]]
    <3>0. /\ d.menus \in Seq(Menus) /\ DOMAIN d.menus = 1..Len(d.menus) /\ Len(d.menus) \in Nat
          /\ \A i \in DOMAIN d.menus : d.menus[i] \in Parts(q.definition, n) /\ d.menus[i] \in Menus
      BY <2>0, DefinitionFacts
    <3>1. Made(q)[n] = InOrder(n, menus)
      <4>2. d.menus # <<>> => menus # <<>>
        <5>0. \A s \in Seq(Menus) : s # <<>> => Len(s) \in Nat /\ Len(s) # 0 /\ DOMAIN s = 1..Len(s)
          BY EmptySeq
        <5>1. d.menus # <<>> => 1 \in DOMAIN d.menus BY <3>0, <5>0
        <5> QED BY <5>1
      <4> HIDE DEF menus
      <4> QED BY <2>2, <2>4, <4>2 DEF MadeOf, menus
    <3>2. HasList(q.definition, n) /\ n \notin Open(q)
      BY <2>4 DEF ListTypes, HasList, Open, BranchesOf, BranchTypes
    <3>3. menus \in Seq(MadeType)
      <4>1. \A i \in DOMAIN d.menus : Made(q)[d.menus[i]] \in MadeType BY <3>0, MadeUnfolds
      <4> QED BY <3>0, <4>1
    <3>4. \A i \in DOMAIN menus : menus[i] = Made(q)[d.menus[i]] /\ i \in DOMAIN d.menus OBVIOUS
    <3> HIDE DEF menus
    <3>5. \A i \in DOMAIN menus : WorksOf(q, n, menus[i]) /\ WorksOf(q, d.menus[i], menus[i])
      BY <2>1, <3>0, <3>4
    <3>6. \A i \in DOMAIN menus : \A j, k \in DOMAIN menus[i].works :
            j # k => <<menus[i].works[j], menus[i].works[k]>> \in AreApart(q)
      BY <3>5, Zenon DEF WorksOf
    <3>7. ASSUME NEW i \in DOMAIN menus, NEW l \in DOMAIN menus, i # l,
                 NEW j \in DOMAIN menus[i].works, NEW k \in DOMAIN menus[l].works
          PROVE  <<menus[i].works[j], menus[l].works[k]>> \in AreApart(q)
      <4>1. HasList(q.definition, d.menus[i]) => d.menus[i] # d.menus[l]
        BY <2>0, <3>4, <3>7, MenusAssumption
      <4>6. menus[i] \in MadeType /\ menus[l] \in MadeType BY <3>3
      <4>2. menus[i].works \in Seq(WorkType) /\ menus[l].works \in Seq(WorkType) BY <4>6 DEF MadeType
      <4>3. menus[i].works[j] \in WorkType /\ menus[l].works[k] \in WorkType BY <4>2
      <4>4. /\ menus[i].works[j].branch \in Under(q.definition, d.menus[i])
            /\ menus[l].works[k].branch \in Under(q.definition, d.menus[l]) /\ menus[l].works[k].branch \in Open(q)
        BY <3>5, Zenon DEF WorksOf
      <4>5. d.menus[i] \in Parts(q.definition, n) /\ d.menus[l] \in Parts(q.definition, n) BY <3>0, <3>4
      <4> QED BY <4>1, <4>3, <4>4, <4>5, SistersWorks, Zenon
    <3>8. Paired(menus, AreApart(q)) BY <3>6, <3>7, Zenon DEF Paired
    <3> QED BY <3>1, <3>2, <3>3, <3>5, <3>8, WorksOfList
  <2>5. CASE d.type \in {"leaf", "filtered", "invalid"} \/ (d.type = "folder" /\ d.menus = <<>>)
    <3>1. [i \in DOMAIN d.menus |-> Made(q)[d.menus[i]]] = <<>> \/ d.type \in {"leaf", "filtered", "invalid"}
      BY <2>5
    <3>2. Made(q)[n] \in {Gives(Node("leaf", n), <<>>, <<>>), Gives(Null(n), <<>>, <<>>), Throws(<<>>)}
      BY <2>2, <2>5, <3>1, Zenon DEF MadeOf
    <3>3. Made(q)[n].works = <<>> /\ Made(q)[n].node.is # "branch" BY <3>2 DEF Gives, Throws, Node, Null
    <3> QED BY <3>3, WorksOfNone
  <2>6. d.type \in BranchTypes \/ d.type \in {"embedded", "folder", "leaf", "filtered", "invalid"}
    BY <2>0, TypeFacts
  <2> QED BY <2>3, <2>4, <2>5, <2>6
<1>2. Menus \subseteq P
  <2>1. \A n \in Menus : (\A x \in Menus : Depth[x] < Depth[n] => x \in P) => n \in P BY <1>1
  <2>2. Depth \in [Menus -> Nat] BY MenusAssumption
  <2> HIDE DEF P
  <2> QED BY <2>1, <2>2, ByDepth
<1> QED BY <1>2
-------------------------------------------------------------------------------
Within(q, m) == Under(q.definition, m) \ {m}

(* A work fills the list of its own branch, or that of one above it which   *)
(* is to show the same.  That list is empty, and those below its branch are *)
(* as they were made.                                                       *)
Pending(q, ls, w) ==
  /\ w.branch \in Open(q) /\ w.subNodes \in Open(q)
  /\ Shows(q)[w.subNodes] = Shows(q)[w.branch] /\ ls[w.subNodes] = <<>>
  /\ w.subNodes \notin Within(q, w.branch)
  /\ \A m \in Within(q, w.branch) : ls[m] = Made(q)[m].nodes

(* Two works fill different lists, neither below the branch of the other.   *)
Apart(q, v, w) ==
  /\ v.subNodes # w.subNodes
  /\ w.branch \notin Under(q.definition, v.branch)
  /\ w.subNodes \notin Under(q.definition, v.branch)

(* Lists of the tree that no work is to fill are what they should be.       *)
Tree(q, works, ls, T) ==
  /\ BranchesIn(<<Made(q)[q.root].node>>) \subseteq T
  /\ \A m \in T : BranchesIn(ls[m]) \subseteq T /\ (IsDeferred(m, works) \/ ls[m] = Shows(q)[m])

(* The queue and the lists of the tree, between two turns of the loop.      *)
Sound(q, works, ls) ==
  /\ ~Made(q)[q.root].throws
  /\ \A i \in DOMAIN works : Pending(q, ls, works[i])
  /\ \A i, j \in DOMAIN works : i # j => Apart(q, works[i], works[j])
  /\ \E T \in SUBSET {m \in Menus : HasList(q.definition, m)} : Tree(q, works, ls, T)

(* What a work gives: nodes that are what its list should be, or another    *)
(* work that fills it, and works for what is below.                         *)
Fits(q, w, ns, v) ==
  /\ v.branch \in Open(q) /\ v.branch \in Within(q, w.branch)
  /\ \/ v = Work(v.branch)
     \/ v.subNodes = w.subNodes /\ ns = <<>> /\ Shows(q)[w.subNodes] = Shows(q)[v.branch]

(* What #build() may give for a work, for the queue to stay sound.          *)
FillsUp(q, w, ns, new) ==
  /\ \A i \in DOMAIN new : Fits(q, w, ns, new[i])
  /\ \A i, j \in DOMAIN new : i # j => Apart(q, new[i], new[j])
  /\ IsDeferred(w.subNodes, new) \/ ns = Shows(q)[w.subNodes]
  /\ \E S \in SUBSET {y \in Within(q, w.branch) : HasList(q.definition, y)} : WholeBelow(q, ns, new, S)

LEMMA WithinFacts ==
  ASSUME NEW q \in Request, NEW m \in Menus, NEW b \in Within(q, m)
  PROVE  /\ b \in Menus /\ b # m /\ m \notin Under(q.definition, b)
         /\ Under(q.definition, b) \subseteq Within(q, m)
         /\ Within(q, b) \subseteq Within(q, m) /\ b \in Under(q.definition, m)
<1>0. q.definition \in Definitions /\ Depth \in [Menus -> Nat] BY RequestFacts
<1>1. b \in Under(q.definition, m) /\ b # m /\ b \in Menus BY DEF Within, Under
<1>2. m \notin Under(q.definition, b)
  <2> SUFFICES ASSUME m \in Under(q.definition, b) PROVE FALSE OBVIOUS
  <2>1. Depth[b] < Depth[m] /\ Depth[m] < Depth[b] BY <1>0, <1>1, UnderIsLower
  <2> QED BY <1>0, <1>1, <2>1
<1>3. Under(q.definition, b) \subseteq Under(q.definition, m) BY <1>0, <1>1, UnderUnder
<1> QED BY <1>1, <1>2, <1>3 DEF Within

LEMMA WorkFacts ==
  ASSUME NEW b
  PROVE  Work(b).branch = b /\ Work(b).subNodes = b
BY DEF Work

(* Works that stay.                                                         *)
LEMMA StillPending ==
  ASSUME NEW q \in Request, NEW ls \in [Menus -> Seq(NodeType)], NEW w, NEW v, NEW ns,
         Pending(q, ls, w), Pending(q, ls, v), Apart(q, w, v), Apart(q, v, w)
  PROVE  Pending(q, [ls EXCEPT ![w.subNodes] = ns], v)
<1> DEFINE new == [ls EXCEPT ![w.subNodes] = ns]
<1>1. v.branch \in Menus /\ v.subNodes \in Menus /\ w.subNodes \in Menus BY OpenFacts DEF Pending
<1>2. new[v.subNodes] = ls[v.subNodes] BY <1>1 DEF Apart
<1>3. ASSUME NEW m \in Within(q, v.branch) PROVE new[m] = ls[m]
  <2>1. m \in Under(q.definition, v.branch) /\ m \in Menus BY <1>1, WithinFacts
  <2>2. m # w.subNodes BY <2>1 DEF Apart
  <2> QED BY <2>1, <2>2
<1> HIDE DEF new
<1>4. Pending(q, new, v) BY <1>2, <1>3 DEF Pending
<1> QED BY <1>4 DEF new

(* Works that are new.                                                      *)
LEMMA NowPending ==
  ASSUME NEW q \in Request, NEW ls \in [Menus -> Seq(NodeType)], NEW w, NEW v, NEW ns,
         Pending(q, ls, w), Fits(q, w, ns, v)
  PROVE  Pending(q, [ls EXCEPT ![w.subNodes] = ns], v)
<1> DEFINE new == [ls EXCEPT ![w.subNodes] = ns]  b == v.branch
<1>1. w.branch \in Menus /\ w.subNodes \in Menus /\ w.subNodes \notin Within(q, w.branch)
  BY OpenFacts DEF Pending
<1>2. /\ b \in Open(q) /\ b \in Within(q, w.branch) /\ b \in Menus
      /\ Under(q.definition, b) \subseteq Within(q, w.branch) /\ Within(q, b) \subseteq Within(q, w.branch)
  BY <1>1, WithinFacts DEF Fits
<1>3. w.subNodes \notin Under(q.definition, b) /\ w.subNodes # b BY <1>1, <1>2
<1>4. \A m \in Within(q, w.branch) : new[m] = ls[m] /\ ls[m] = Made(q)[m].nodes
  <2> TAKE m \in Within(q, w.branch)
  <2>1. m \in Menus /\ m # w.subNodes BY <1>1, WithinFacts
  <2> QED BY <2>1 DEF Pending
<1>5. Made(q)[b].nodes = <<>>
  <2>1. MeansMade(q, b) BY <1>2, MadeMeans
  <2> QED BY <1>2, <2>1 DEF MeansMade
<1>6. new[w.subNodes] = ns BY <1>1
<1> HIDE DEF new
<1>7. CASE v = Work(b)
  <2>1. v.subNodes = b BY <1>7, WorkFacts
  <2>2. new[b] = <<>> BY <1>2, <1>4, <1>5
  <2>3. b \notin Within(q, b) BY DEF Within
  <2>4. Pending(q, new, v) BY <1>2, <1>4, <2>1, <2>2, <2>3 DEF Pending
  <2> QED BY <2>4 DEF new
<1>8. CASE v.subNodes = w.subNodes /\ ns = <<>> /\ Shows(q)[w.subNodes] = Shows(q)[b]
  <2>1. w.subNodes \in Open(q) BY DEF Pending
  <2>2. w.subNodes \notin Within(q, b) BY <1>3 DEF Within
  <2>3. Pending(q, new, v) BY <1>2, <1>4, <1>6, <1>8, <2>1, <2>2 DEF Pending
  <2> QED BY <2>3 DEF new
<1> QED BY <1>7, <1>8 DEF Fits

LEMMA StayApart ==
  ASSUME NEW q \in Request, NEW ls, NEW w, NEW v, NEW u, NEW ns,
         Pending(q, ls, w), Pending(q, ls, v), Apart(q, w, v), Apart(q, v, w), Fits(q, w, ns, u)
  PROVE  Apart(q, v, u) /\ Apart(q, u, v)
<1> DEFINE d == q.definition  b == u.branch
<1>1. d \in Definitions /\ w.branch \in Menus /\ v.branch \in Menus BY RequestFacts, OpenFacts DEF Pending
<1>2. /\ b \in Open(q) /\ b \in Within(q, w.branch) /\ b \in Menus /\ HasList(d, b)
      /\ b \in Under(d, w.branch) /\ Under(d, b) \subseteq Under(d, w.branch)
  <2>1. b \in Open(q) /\ b \in Within(q, w.branch) BY DEF Fits
  <2> QED BY <1>1, <2>1, WithinFacts, OpenFacts, Zenon DEF Within
<1>3. u.subNodes = b \/ u.subNodes = w.subNodes BY WorkFacts DEF Fits
<1>4. b \notin Under(d, v.branch)
  <2> SUFFICES ASSUME b \in Under(d, v.branch) PROVE FALSE OBVIOUS
  <2>1. w.branch \in Under(d, v.branch) \/ v.branch \in Under(d, w.branch) BY <1>1, <1>2, OneLine
  <2> QED BY <2>1 DEF Apart
<1>5. Apart(q, v, u)
  <2>1. u.subNodes \notin Under(d, v.branch) BY <1>3, <1>4 DEF Apart
  <2>2. v.subNodes # u.subNodes BY <1>2, <1>3 DEF Apart
  <2> QED BY <1>4, <2>1, <2>2 DEF Apart
<1>6. Apart(q, u, v) BY <1>2, <1>5 DEF Apart
<1> QED BY <1>5, <1>6

(* The queue and the lists stay sound when a work is done.                  *)
LEMMA Resolved ==
  ASSUME NEW q \in Request, NEW ls \in [Menus -> Seq(NodeType)], NEW works \in Seq(WorkType), works # <<>>,
         Sound(q, works, ls), NEW ns \in Seq(NodeType), NEW new \in Seq(WorkType), FillsUp(q, Head(works), ns, new)
  PROVE  Sound(q, Tail(works) \o new, [ls EXCEPT ![Head(works).subNodes] = ns])
<1> DEFINE w == Head(works)  l == w.subNodes  all == Tail(works) \o new
           lists1 == [ls EXCEPT ![l] = ns]
<1>1. /\ Len(works) \in Nat /\ Len(works) > 0 /\ DOMAIN works = 1..Len(works) /\ 1 \in DOMAIN works /\ w = works[1]
      /\ Len(Tail(works)) = Len(works) - 1 /\ DOMAIN Tail(works) = 1..(Len(works) - 1)
      /\ \A i \in DOMAIN Tail(works) : Tail(works)[i] = works[i+1]
      /\ Len(new) \in Nat /\ DOMAIN new = 1..Len(new)
  OBVIOUS
<1> DEFINE IsOld(v) == \E i \in DOMAIN Tail(works) : v = Tail(works)[i]
           IsNew(v) == \E i \in DOMAIN new : v = new[i]
<1>2. /\ DOMAIN all = 1..(Len(works) - 1 + Len(new))
      /\ \A i \in DOMAIN all : all[i] = IF i \in DOMAIN Tail(works) THEN Tail(works)[i] ELSE new[i - (Len(works) - 1)]
      /\ \A i \in DOMAIN all : i \notin DOMAIN Tail(works) => i - (Len(works) - 1) \in DOMAIN new
      /\ \A i \in DOMAIN Tail(works) : i \in DOMAIN all /\ all[i] = Tail(works)[i]
      /\ \A i \in DOMAIN new : i + (Len(works) - 1) \in DOMAIN all /\ all[i + (Len(works) - 1)] = new[i]
  <2>1. Tail(works) \in Seq(WorkType) BY HeadTailProperties
  <2> QED BY <1>1, <2>1
<1>3. \A i \in DOMAIN Tail(works) :
        /\ Pending(q, ls, Tail(works)[i]) /\ Apart(q, w, Tail(works)[i]) /\ Apart(q, Tail(works)[i], w)
        /\ \A j \in DOMAIN Tail(works) : i # j => Apart(q, Tail(works)[i], Tail(works)[j])
  <2> TAKE i \in DOMAIN Tail(works)
  <2>1. i + 1 \in DOMAIN works /\ i + 1 # 1 /\ Tail(works)[i] = works[i+1] BY <1>1
  <2>2. \A j \in DOMAIN Tail(works) : i # j => j + 1 \in DOMAIN works /\ i + 1 # j + 1 BY <1>1
  <2> QED BY <1>1, <2>1, <2>2, Zenon DEF Sound
<1>4. Pending(q, ls, w) BY <1>1, Zenon DEF Sound
<1>5. \A i \in DOMAIN new : Fits(q, w, ns, new[i]) BY DEF FillsUp
<1>6. w.branch \in Menus /\ l \in Open(q) /\ l \in Menus /\ l \notin Within(q, w.branch)
  BY <1>4, OpenFacts DEF Pending
<1> HIDE DEF all
<1>7. ASSUME NEW i \in DOMAIN all PROVE Pending(q, lists1, all[i])
  <2>1. CASE i \in DOMAIN Tail(works)
    <3>1. all[i] = Tail(works)[i] BY <1>2, <2>1
    <3> QED BY <1>3, <1>4, <2>1, <3>1, StillPending, Zenon
  <2>2. CASE i \notin DOMAIN Tail(works)
    <3>1. PICK j \in DOMAIN new : all[i] = new[j] BY <1>2, <2>2
    <3> QED BY <1>4, <1>5, <3>1, NowPending, Zenon
  <2> QED BY <2>1, <2>2
<1>8. ASSUME NEW i \in DOMAIN all, NEW j \in DOMAIN all, i # j PROVE Apart(q, all[i], all[j])
  <2>1. CASE i \in DOMAIN Tail(works) /\ j \in DOMAIN Tail(works) BY <1>2, <1>3, <1>8, <2>1, Zenon
  <2>2. CASE i \in DOMAIN Tail(works) /\ j \notin DOMAIN Tail(works)
    <3>1. all[i] = Tail(works)[i] /\ all[j] = new[j - (Len(works) - 1)] /\ j - (Len(works) - 1) \in DOMAIN new
      BY <1>2, <2>2
    <3> QED BY <1>3, <1>4, <1>5, <2>2, <3>1, StayApart
  <2>3. CASE i \notin DOMAIN Tail(works) /\ j \in DOMAIN Tail(works)
    <3>1. all[j] = Tail(works)[j] /\ all[i] = new[i - (Len(works) - 1)] /\ i - (Len(works) - 1) \in DOMAIN new
      BY <1>2, <2>3
    <3> QED BY <1>3, <1>4, <1>5, <2>3, <3>1, StayApart
  <2>4. CASE i \notin DOMAIN Tail(works) /\ j \notin DOMAIN Tail(works)
    <3>1. /\ all[i] = new[i - (Len(works) - 1)] /\ i - (Len(works) - 1) \in DOMAIN new
          /\ all[j] = new[j - (Len(works) - 1)] /\ j - (Len(works) - 1) \in DOMAIN new
      BY <1>2, <2>4
    <3>2. i - (Len(works) - 1) # j - (Len(works) - 1) BY <1>1, <1>2, <1>8
    <3> QED BY <3>1, <3>2 DEF FillsUp
  <2> QED BY <2>1, <2>2, <2>3, <2>4
<1>9. PICK T \in SUBSET {m \in Menus : HasList(q.definition, m)} : Tree(q, works, ls, T) BY DEF Sound
<1>10. PICK S \in SUBSET {y \in Within(q, w.branch) : HasList(q.definition, y)} : WholeBelow(q, ns, new, S)
  BY DEF FillsUp
<1>11. S \in SUBSET {m \in Menus : HasList(q.definition, m)} BY <1>6, WithinFacts
<1>12. \A y : IsDeferred(y, works) => y = l \/ IsDeferred(y, all)
  <2> TAKE y
  <2> HAVE IsDeferred(y, works)
  <2>1. PICK i \in DOMAIN works : works[i].subNodes = y BY DEF IsDeferred
  <2>2. CASE i = 1 BY <1>1, <2>1, <2>2
  <2>3. CASE i # 1
    <3>1. i - 1 \in DOMAIN Tail(works) /\ Tail(works)[i-1] = works[i] BY <1>1, <2>3
    <3>2. i - 1 \in DOMAIN all /\ all[i-1] = works[i] BY <1>2, <3>1
    <3> QED BY <2>1, <3>2 DEF IsDeferred
  <2> QED BY <2>2, <2>3
<1>13. \A y : IsDeferred(y, new) => IsDeferred(y, all) BY <1>2 DEF IsDeferred
<1>14. ASSUME NEW y \in T, y # l
       PROVE  BranchesIn(lists1[y]) \subseteq T /\ (IsDeferred(y, all) \/ lists1[y] = Shows(q)[y])
  <2>1. lists1[y] = ls[y] BY <1>14
  <2> QED BY <1>9, <1>12, <1>14, <2>1 DEF Tree
<1>15. ASSUME NEW y \in S
       PROVE  BranchesIn(lists1[y]) \subseteq S /\ (IsDeferred(y, all) \/ lists1[y] = Shows(q)[y])
  <2>1. y \in Within(q, w.branch) /\ y \in Menus /\ y # l BY <1>6, <1>11
  <2>2. lists1[y] = Made(q)[y].nodes
    <3>1. ls[y] = Made(q)[y].nodes BY <1>4, <2>1 DEF Pending
    <3> QED BY <2>1, <3>1
  <2>3. /\ ~Made(q)[y].throws /\ BranchesIn(Made(q)[y].nodes) \subseteq S
        /\ y \in Open(q) => IsDeferred(y, new)
    BY <1>10 DEF WholeBelow
  <2>4. MeansMade(q, y) BY <2>1, MadeMeans
  <2>5. y \notin Open(q) => lists1[y] = Shows(q)[y] BY <2>2, <2>3, <2>4 DEF MeansMade
  <2> QED BY <1>13, <2>2, <2>3, <2>5
<1>16. lists1[l] = ns BY <1>6
<1> DEFINE T1 == IF l \in T THEN T \union S ELSE T
<1> HIDE DEF lists1
<1>17. Tree(q, all, lists1, T1)
  <2>1. BranchesIn(<<Made(q)[q.root].node>>) \subseteq T1 BY <1>9 DEF Tree
  <2>2. ASSUME NEW y \in T1 PROVE BranchesIn(lists1[y]) \subseteq T1 /\ (IsDeferred(y, all) \/ lists1[y] = Shows(q)[y])
    <3>1. CASE y = l
      <4>1. l \in T
        <5>1. l \notin S BY <1>6
        <5> QED BY <2>2, <3>1, <5>1
      <4>2. BranchesIn(ns) \subseteq S BY <1>10 DEF WholeBelow
      <4>3. IsDeferred(l, new) \/ ns = Shows(q)[l] BY DEF FillsUp
      <4> QED BY <1>13, <1>16, <3>1, <4>1, <4>2, <4>3
    <3>2. CASE y # l /\ y \in T BY <1>14, <3>2
    <3>3. CASE y # l /\ y \notin T
      <4>1. l \in T /\ y \in S BY <2>2, <3>3
      <4> QED BY <1>15, <4>1
    <3> QED BY <3>1, <3>2, <3>3
  <2> QED BY <2>1, <2>2 DEF Tree
<1>18. T1 \in SUBSET {m \in Menus : HasList(q.definition, m)} BY <1>11
<1>19. ~Made(q)[q.root].throws BY DEF Sound
<1> HIDE DEF T1
<1>20. Sound(q, all, lists1) BY <1>7, <1>8, <1>17, <1>18, <1>19 DEF Sound
<1> QED BY <1>20 DEF all, lists1
-------------------------------------------------------------------------------
(* What error menus and made menus are to the branch that shows them.       *)
LEMMA PartFits ==
  ASSUME NEW q \in Request, NEW w, w.branch \in BranchesOf(q.definition), NEW x \in Parts(q.definition, w.branch),
         NEW ns
  PROVE  /\ x \in Within(q, w.branch) /\ x \in Menus
         /\ Under(q.definition, x) \subseteq Within(q, w.branch)
         /\ \A i \in DOMAIN Made(q)[x].works :
              /\ Made(q)[x].works[i] \in WorkType /\ Made(q)[x].works[i].branch \in Under(q.definition, x)
              /\ Fits(q, w, ns, Made(q)[x].works[i])
              /\ Made(q)[x].works[i] = Work(Made(q)[x].works[i].branch)
              /\ \A j \in DOMAIN Made(q)[x].works : i # j => Apart(q, Made(q)[x].works[i], Made(q)[x].works[j])
<1> DEFINE d == q.definition  m == w.branch  made == Made(q)[x]
<1>0. d \in Definitions /\ m \in Menus /\ Depth \in [Menus -> Nat] BY RequestFacts DEF BranchesOf
<1>1. x \in Menus /\ Depth[x] < Depth[m] /\ Parts(d, m) \subseteq Under(d, m)
  BY <1>0, DefinitionFacts, UnderFacts
<1>2. x \in Within(q, m) BY <1>0, <1>1 DEF Within
<1>3. Under(d, x) \subseteq Within(q, m) BY <1>0, <1>2, WithinFacts
<1>4. WorksOf(q, x, made) BY <1>1, WorksMade
<1>5. made.works \in Seq(WorkType) BY <1>1, MadeUnfolds DEF MadeType
<1>6. ASSUME NEW i \in DOMAIN made.works
      PROVE  /\ made.works[i] \in WorkType /\ made.works[i].branch \in Under(d, x) /\ Fits(q, w, ns, made.works[i])
             /\ made.works[i] = Work(made.works[i].branch)
  <2>1. /\ made.works[i].branch \in Open(q) /\ made.works[i].branch \in Under(d, x)
        /\ made.works[i] = Work(made.works[i].branch)
    BY <1>4 DEF WorksOf
  <2>2. Fits(q, w, ns, made.works[i]) BY <1>3, <2>1 DEF Fits
  <2> QED BY <1>5, <2>1, <2>2
<1>7. ASSUME NEW i \in DOMAIN made.works, NEW j \in DOMAIN made.works, i # j
      PROVE  Apart(q, made.works[i], made.works[j])
  <2>1. <<made.works[i], made.works[j]>> \in AreApart(q) BY <1>4, <1>7 DEF WorksOf
  <2>2. made.works[j].branch \notin Under(d, made.works[i].branch) BY <2>1 DEF AreApart
  <2>3. made.works[i].subNodes = made.works[i].branch /\ made.works[j].subNodes = made.works[j].branch
    BY <1>6, WorkFacts
  <2>4. made.works[i].branch \in Under(d, made.works[i].branch)
    <3>1. made.works[i].branch \in Menus BY <1>6 DEF WorkType
    <3> QED BY <1>0, <3>1, UnderFacts
  <2> QED BY <2>2, <2>3, <2>4 DEF Apart
<1> QED BY <1>1, <1>2, <1>3, <1>6, <1>7

(* Works of the menu a branch gets and of its error menu.                   *)
LEMMA PartsApart ==
  ASSUME NEW q \in Request, NEW w, w.branch \in BranchesOf(q.definition),
         NEW x \in Parts(q.definition, w.branch), NEW y \in Parts(q.definition, w.branch),
         HasList(q.definition, x) => x # y,
         NEW i \in DOMAIN Made(q)[x].works, NEW j \in DOMAIN Made(q)[y].works
  PROVE  Apart(q, Made(q)[x].works[i], Made(q)[y].works[j])
<1> DEFINE u == Made(q)[x].works[i]  v == Made(q)[y].works[j]
<1>0. w.branch \in Menus /\ q.definition \in Definitions BY RequestFacts DEF BranchesOf
<1>1. /\ u \in WorkType /\ u.branch \in Under(q.definition, x) /\ Fits(q, w, <<>>, u) /\ u = Work(u.branch)
      /\ v \in WorkType /\ v.branch \in Under(q.definition, y) /\ Fits(q, w, <<>>, v) /\ v = Work(v.branch)
  BY PartFits, Zenon
<1>2. v.branch \in Open(q) BY <1>1 DEF Fits
<1>3. <<u, v>> \in AreApart(q) BY <1>0, <1>1, <1>2, SistersWorks, Zenon
<1>4. v.branch \notin Under(q.definition, u.branch) BY <1>3 DEF AreApart
<1>5. u.subNodes = u.branch /\ v.subNodes = v.branch BY <1>1, WorkFacts
<1>6. u.branch \in Under(q.definition, u.branch)
  <2>1. u.branch \in Menus BY <1>1 DEF WorkType
  <2> QED BY <1>0, <2>1, UnderFacts
<1> QED BY <1>4, <1>5, <1>6 DEF Apart

(* Two queues in one.                                                       *)
LEMMA Joined ==
  ASSUME NEW s \in Seq(WorkType), NEW t \in Seq(WorkType)
  PROVE  /\ s \o t \in Seq(WorkType)
         /\ \A i \in DOMAIN (s \o t) : \/ i \in DOMAIN s /\ (s \o t)[i] = s[i]
                                       \/ i \notin DOMAIN s /\ i - Len(s) \in DOMAIN t /\ (s \o t)[i] = t[i - Len(s)]
         /\ \A i \in DOMAIN s : i \in DOMAIN (s \o t) /\ (s \o t)[i] = s[i]
         /\ \A i \in DOMAIN t : i + Len(s) \in DOMAIN (s \o t) /\ (s \o t)[i + Len(s)] = t[i]
         /\ \A y : IsDeferred(y, s \o t) <=> IsDeferred(y, s) \/ IsDeferred(y, t)
<1>1. /\ Len(s) \in Nat /\ Len(t) \in Nat /\ DOMAIN s = 1..Len(s) /\ DOMAIN t = 1..Len(t)
      /\ DOMAIN (s \o t) = 1..(Len(s) + Len(t)) /\ s \o t \in Seq(WorkType)
  OBVIOUS
<1>2. \A i \in DOMAIN (s \o t) : (s \o t)[i] = IF i <= Len(s) THEN s[i] ELSE t[i - Len(s)]
  <2>1. \A i \in 1..(Len(s) + Len(t)) : (s \o t)[i] = IF i <= Len(s) THEN s[i] ELSE t[i - Len(s)] OBVIOUS
  <2> QED BY <1>1, <2>1
<1>3. \A i \in DOMAIN (s \o t) : \/ i \in DOMAIN s /\ (s \o t)[i] = s[i]
                                 \/ i \notin DOMAIN s /\ i - Len(s) \in DOMAIN t /\ (s \o t)[i] = t[i - Len(s)]
  BY <1>1, <1>2
<1>4. \A i \in DOMAIN s : i \in DOMAIN (s \o t) /\ (s \o t)[i] = s[i] BY <1>1, <1>2
<1>5. \A i \in DOMAIN t : i + Len(s) \in DOMAIN (s \o t) /\ (s \o t)[i + Len(s)] = t[i]
  <2> TAKE i \in DOMAIN t
  <2>1. i + Len(s) \in DOMAIN (s \o t) /\ ~(i + Len(s) <= Len(s)) /\ i + Len(s) - Len(s) = i BY <1>1
  <2> QED BY <1>2, <2>1
<1>6. \A y : IsDeferred(y, s \o t) <=> IsDeferred(y, s) \/ IsDeferred(y, t)
  BY <1>3, <1>4, <1>5, Zenon DEF IsDeferred
<1> QED BY <1>1, <1>3, <1>4, <1>5, <1>6

LEMMA JoinedFills ==
  ASSUME NEW q \in Request, NEW w, NEW ns, NEW s \in Seq(WorkType), NEW t \in Seq(WorkType),
         \A i \in DOMAIN s : Fits(q, w, ns, s[i]), \A i \in DOMAIN t : Fits(q, w, ns, t[i]),
         \A i, j \in DOMAIN s : i # j => Apart(q, s[i], s[j]), \A i, j \in DOMAIN t : i # j => Apart(q, t[i], t[j]),
         \A i \in DOMAIN s, j \in DOMAIN t : Apart(q, s[i], t[j]) /\ Apart(q, t[j], s[i])
  PROVE  /\ \A i \in DOMAIN (s \o t) : Fits(q, w, ns, (s \o t)[i])
         /\ \A i, j \in DOMAIN (s \o t) : i # j => Apart(q, (s \o t)[i], (s \o t)[j])
<1>1. \A i \in DOMAIN (s \o t) : \/ i \in DOMAIN s /\ (s \o t)[i] = s[i]
                                 \/ i \notin DOMAIN s /\ i - Len(s) \in DOMAIN t /\ (s \o t)[i] = t[i - Len(s)]
  BY Joined
<1>2. \A i \in DOMAIN (s \o t) : Fits(q, w, ns, (s \o t)[i]) BY <1>1
<1>3. ASSUME NEW i \in DOMAIN (s \o t), NEW j \in DOMAIN (s \o t), i # j PROVE Apart(q, (s \o t)[i], (s \o t)[j])
  <2>0. i \in Nat /\ j \in Nat /\ Len(s) \in Nat
    <3>1. s \o t \in Seq(WorkType) OBVIOUS
    <3> QED BY <3>1
  <2>1. i - Len(s) # j - Len(s) BY <1>3, <2>0
  <2> QED BY <1>1, <1>3, <2>1
<1> QED BY <1>2, <1>3
-------------------------------------------------------------------------------
(* The list of a branch whose work is queued.                               *)
LEMMA OpenShows ==
  ASSUME NEW q \in Request, NEW m \in Open(q)
  PROVE  LET d     == q.definition[m]
             error == IF d.onErrorMenu = None THEN <<Message(m)>> ELSE <<Meant(q, d.onErrorMenu)>>
         IN  /\ m \in BranchesOf(q.definition) /\ m \in Menus /\ d.source \in Menus /\ d.source \in Parts(q.definition, m)
             /\ q.answer[m] \in {"failed", "menu"}
             /\ q.answer[m] = "failed" => Shows(q)[m] = error
             /\ q.answer[m] = "menu" =>
                  Shows(q)[m] = IF Breaks(q)[d.source] THEN error
                                ELSE IF ~d.dropParent THEN <<Meant(q, d.source)>>
                                ELSE IF Shows(q)[d.source] = <<>> THEN error ELSE Shows(q)[d.source]
<1>1. m \in BranchesOf(q.definition) /\ m \in Menus /\ q.definition[m].type \in BranchTypes
  BY OpenFacts DEF BranchesOf
<1>2. q.answer[m] \in {"failed", "menu"} BY <1>1, AnswerFacts
<1>3. q.definition[m].source \in Menus /\ q.definition[m].source \in Parts(q.definition, m)
  <2>1. q.definition \in Definitions /\ None \notin Menus BY RequestFacts
  <2> QED BY <1>1, <2>1, DefinitionFacts
<1>4. Shows(q)[m] = ShowsOf(q, m, Shows(q)) BY <1>1, ShowsUnfolds
<1>5. q.answer[m] = "failed" => Shows(q)[m] = IF q.definition[m].onErrorMenu = None THEN <<Message(m)>> ELSE <<Meant(q, q.definition[m].onErrorMenu)>>
  BY <1>1, <1>4 DEF ShowsOf
<1>6. q.answer[m] = "menu" =>
        Shows(q)[m] = IF Breaks(q)[q.definition[m].source]
                      THEN IF q.definition[m].onErrorMenu = None THEN <<Message(m)>> ELSE <<Meant(q, q.definition[m].onErrorMenu)>>
                      ELSE IF ~q.definition[m].dropParent THEN <<Meant(q, q.definition[m].source)>>
                      ELSE IF Shows(q)[q.definition[m].source] = <<>>
                      THEN IF q.definition[m].onErrorMenu = None THEN <<Message(m)>> ELSE <<Meant(q, q.definition[m].onErrorMenu)>>
                      ELSE Shows(q)[q.definition[m].source]
  BY <1>1, <1>4 DEF ShowsOf
<1> QED BY <1>1, <1>2, <1>3, <1>5, <1>6

(* A branch that fails shows its error.                                     *)
LEMMA FailsFill ==
  ASSUME NEW q \in Request, NEW w, w.branch \in Open(q), Shows(q)[w.subNodes] = Shows(q)[w.branch],
         NEW error, error = ErrorMenu(q, w.branch, Made(q)), ~error.throws,
         Shows(q)[w.branch] = IF q.definition[w.branch].onErrorMenu = None THEN <<Message(w.branch)>>
                              ELSE <<Meant(q, q.definition[w.branch].onErrorMenu)>>,
         NEW queued, queued = <<>> \/ queued = Made(q)[q.definition[w.branch].source].works
  PROVE  /\ queued \in Seq(WorkType) /\ error.works \in Seq(WorkType) /\ <<error.node>> \in Seq(NodeType)
         /\ FillsUp(q, w, <<error.node>>, queued \o error.works)
<1> DEFINE m == w.branch  d == q.definition[m]  source == d.source  onError == d.onErrorMenu  ns == <<error.node>>
<1>0. /\ m \in BranchesOf(q.definition) /\ m \in Menus /\ source \in Menus /\ source \in Parts(q.definition, m)
      /\ q.definition \in Definitions /\ None \notin Menus /\ Parts(q.definition, m) \subseteq Menus
  BY OpenShows, RequestFacts, DefinitionFacts, Zenon
<1>1. onError # None => onError \in Parts(q.definition, m) /\ onError \in Menus BY <1>0, DefinitionFacts
<1>2. /\ onError = None => error.works = <<>> /\ error.node = Message(m)
      /\ onError # None => error = Made(q)[onError]
  BY DEF ErrorMenu, Gives
<1>3. error \in MadeType
  <2>1. \A x \in Parts(q.definition, m) : Made(q)[x] \in MadeType BY <1>0, MadeUnfolds
  <2> QED BY <1>0, <2>1, ErrorMenuType
<1>4. error.works \in Seq(WorkType) /\ ns \in Seq(NodeType)
  <2>1. error.works \in Seq(WorkType) /\ error.node \in NodeType BY <1>3 DEF MadeType
  <2> QED BY <2>1
<1>5. queued \in Seq(WorkType)
  <2>1. <<>> \in Seq(WorkType) OBVIOUS
  <2>2. Made(q)[source] \in MadeType BY <1>0, MadeUnfolds
  <2>3. Made(q)[source].works \in Seq(WorkType) BY <2>2 DEF MadeType
  <2> QED BY <2>1, <2>3, Zenon
<1>6. /\ \A i \in DOMAIN queued : Fits(q, w, ns, queued[i])
      /\ \A i, j \in DOMAIN queued : i # j => Apart(q, queued[i], queued[j])
  <2>1. CASE queued = <<>> BY <2>1
  <2>2. CASE queued = Made(q)[source].works BY <1>0, <2>2, PartFits, Zenon
  <2> QED BY <2>1, <2>2
<1>7. /\ \A i \in DOMAIN error.works : Fits(q, w, ns, error.works[i])
      /\ \A i, j \in DOMAIN error.works : i # j => Apart(q, error.works[i], error.works[j])
  <2>1. CASE onError = None BY <1>2, <2>1
  <2>2. CASE onError # None BY <1>0, <1>1, <1>2, <2>2, PartFits
  <2> QED BY <2>1, <2>2
<1>8. \A i \in DOMAIN queued, j \in DOMAIN error.works : Apart(q, queued[i], error.works[j]) /\ Apart(q, error.works[j], queued[i])
  <2> TAKE i \in DOMAIN queued, j \in DOMAIN error.works
  <2>1. queued = Made(q)[source].works OBVIOUS
  <2>2. onError # None /\ error = Made(q)[onError] BY <1>2
  <2>3. source = onError => ~HasList(q.definition, source)
    <3>1. source # None BY <1>0
    <3> QED BY <1>0, <2>2, <3>1, MenusAssumption
  <2> QED BY <1>0, <1>1, <2>1, <2>2, <2>3, PartsApart
<1> DEFINE new == queued \o error.works
<1>9. /\ \A i \in DOMAIN new : Fits(q, w, ns, new[i])
      /\ \A i, j \in DOMAIN new : i # j => Apart(q, new[i], new[j])
  <2> HIDE DEF ns
  <2> QED BY <1>4, <1>5, <1>6, <1>7, <1>8, JoinedFills
<1>10. ns = Shows(q)[w.subNodes]
  <2>1. CASE onError = None BY <1>2, <2>1
  <2>2. CASE onError # None
    <3>1. MeansMade(q, onError) BY <1>1, <2>2, MadeMeans
    <3> QED BY <1>2, <2>2, <3>1 DEF MeansMade
  <2> QED BY <2>1, <2>2
<1>11. \E S \in SUBSET {y \in Within(q, m) : HasList(q.definition, y)} : WholeBelow(q, ns, new, S)
  <2>1. CASE onError = None
    <3>1. error.node.is # "branch" BY <1>2, <2>1 DEF Message, Node
    <3>2. BranchesIn(ns) = {} BY <3>1, BranchesOfNode
    <3>3. WholeBelow(q, ns, new, {}) BY <3>2 DEF WholeBelow
    <3> QED BY <3>3, Zenon
  <2>2. CASE onError # None
    <3>1. WorksOf(q, onError, error) BY <1>1, <1>2, <2>2, WorksMade
    <3>2. PICK S \in SUBSET {y \in Under(q.definition, onError) : HasList(q.definition, y)} :
            WholeBelow(q, <<error.node>>, error.works, S)
      BY <3>1 DEF WorksOf
    <3>3. Under(q.definition, onError) \subseteq Within(q, m) BY <1>0, <1>1, <2>2, PartFits
    <3>4. \A y : IsDeferred(y, error.works) => IsDeferred(y, new) BY <1>4, <1>5, Joined
    <3>5. WholeBelow(q, ns, new, S) BY <3>2, <3>4 DEF WholeBelow
    <3>6. S \in SUBSET {y \in Within(q, m) : HasList(q.definition, y)} BY <3>2, <3>3
    <3> QED BY <3>5, <3>6, Zenon
  <2> QED BY <2>1, <2>2
<1> HIDE DEF new, ns
<1>12. FillsUp(q, w, ns, new) BY <1>9, <1>10, <1>11 DEF FillsUp
<1> QED BY <1>4, <1>5, <1>12 DEF ns, new

(* A branch that keeps its place shows the menu it gets.                    *)
LEMMA KeepFills ==
  ASSUME NEW q \in Request, NEW w, w.branch \in Open(q), Shows(q)[w.subNodes] = Shows(q)[w.branch],
         q.answer[w.branch] = "menu", ~q.definition[w.branch].dropParent,
         NEW made, made = Made(q)[q.definition[w.branch].source], ~made.throws
  PROVE  /\ made.works \in Seq(WorkType) /\ <<made.node>> \in Seq(NodeType)
         /\ FillsUp(q, w, <<made.node>>, made.works)
<1> DEFINE m == w.branch  source == q.definition[m].source
<1>0. /\ m \in BranchesOf(q.definition) /\ m \in Menus /\ source \in Menus /\ source \in Parts(q.definition, m)
  BY OpenShows, Zenon
<1>1. made \in MadeType BY <1>0, MadeUnfolds
<1>2. made.works \in Seq(WorkType) /\ made.node \in NodeType /\ <<made.node>> \in Seq(NodeType)
  <2>1. made.works \in Seq(WorkType) /\ made.node \in NodeType BY <1>1 DEF MadeType
  <2> QED BY <2>1
<1>3. MeansMade(q, source) BY <1>0, MadeMeans
<1>4. ~Breaks(q)[source] /\ made.node = Meant(q, source) BY <1>3 DEF MeansMade
<1>5. Shows(q)[m] = <<Meant(q, source)>> BY <1>4, OpenShows, Zenon
<1>6. PICK S \in SUBSET {y \in Under(q.definition, source) : HasList(q.definition, y)} :
        WholeBelow(q, <<made.node>>, made.works, S)
  <2>1. WorksOf(q, source, made) BY <1>0, WorksMade
  <2> QED BY <2>1, Zenon DEF WorksOf
<1>7. /\ \A i \in DOMAIN made.works : Fits(q, w, <<made.node>>, made.works[i])
      /\ \A i, j \in DOMAIN made.works : i # j => Apart(q, made.works[i], made.works[j])
      /\ Under(q.definition, source) \subseteq Within(q, m)
  BY <1>0, PartFits, Zenon
<1>8. S \in SUBSET {y \in Within(q, m) : HasList(q.definition, y)} BY <1>6, <1>7, Zenon
<1>9. <<made.node>> = Shows(q)[w.subNodes] BY <1>4, <1>5
<1> QED BY <1>2, <1>6, <1>7, <1>8, <1>9, Zenon DEF FillsUp
-------------------------------------------------------------------------------
LEMMA RedirectFacts ==
  ASSUME NEW works \in Seq(WorkType), NEW from, NEW to \in Menus
  PROVE  /\ Redirect(works, from, to) \in Seq(WorkType)
         /\ DOMAIN Redirect(works, from, to) = DOMAIN works /\ Len(Redirect(works, from, to)) = Len(works)
         /\ \A i \in DOMAIN works :
              /\ Redirect(works, from, to)[i].branch = works[i].branch
              /\ Redirect(works, from, to)[i].subNodes = IF works[i].subNodes = from THEN to ELSE works[i].subNodes
              /\ works[i].subNodes # from => Redirect(works, from, to)[i] = works[i]
<1> DEFINE new == Redirect(works, from, to)
<1>1. DOMAIN works = 1..Len(works) /\ Len(works) \in Nat /\ \A i \in DOMAIN works : works[i] \in WorkType
  OBVIOUS
<1>2. new = [i \in DOMAIN works |-> IF works[i].subNodes = from THEN [works[i] EXCEPT !.subNodes = to] ELSE works[i]]
  BY DEF Redirect
<1>3. ASSUME NEW i \in DOMAIN works
      PROVE  /\ new[i] \in WorkType /\ new[i].branch = works[i].branch
             /\ new[i].subNodes = IF works[i].subNodes = from THEN to ELSE works[i].subNodes
             /\ works[i].subNodes # from => new[i] = works[i]
  <2>1. works[i] \in WorkType BY <1>1
  <2>2. new[i] = IF works[i].subNodes = from THEN [works[i] EXCEPT !.subNodes = to] ELSE works[i] BY <1>2
  <2> HIDE DEF new
  <2> QED BY <2>1, <2>2 DEF WorkType
<1>4. DOMAIN new = DOMAIN works BY <1>2
<1>5. new = [i \in 1..Len(works) |-> new[i]] BY <1>1, <1>2
<1> HIDE DEF new
<1>6. new \in Seq(WorkType) BY <1>1, <1>3, <1>5
<1>7. Len(new) = Len(works) BY <1>1, <1>4, <1>6
<1> QED BY <1>3, <1>4, <1>6, <1>7 DEF new

(* The list of a menu that is dropped: of the works before, none fills it.  *)
LEMMA RedirectTail ==
  ASSUME NEW works \in Seq(WorkType), works # <<>>, NEW more \in Seq(WorkType), NEW from, NEW to \in Menus,
         \A i \in DOMAIN works : works[i].subNodes # from
  PROVE  Tail(Redirect(works \o more, from, to)) = Tail(works) \o Redirect(more, from, to)
<1> DEFINE both == works \o more  a == Redirect(both, from, to)  b == Redirect(more, from, to)
<1>1. /\ Len(works) \in Nat /\ Len(works) > 0 /\ DOMAIN works = 1..Len(works) /\ Len(more) \in Nat
      /\ DOMAIN more = 1..Len(more) /\ both \in Seq(WorkType) /\ Len(both) = Len(works) + Len(more)
      /\ DOMAIN both = 1..(Len(works) + Len(more))
  OBVIOUS
<1>2. \A i \in DOMAIN both : both[i] = IF i <= Len(works) THEN works[i] ELSE more[i - Len(works)]
  <2>1. \A i \in 1..(Len(works) + Len(more)) : both[i] = IF i <= Len(works) THEN works[i] ELSE more[i - Len(works)]
    OBVIOUS
  <2> QED BY <1>1, <2>1
<1>3. a \in Seq(WorkType) /\ Len(a) = Len(both) /\ b \in Seq(WorkType) /\ Len(b) = Len(more)
  <2> HIDE DEF both
  <2> QED BY <1>1, RedirectFacts
<1>4. \A i \in DOMAIN both : i <= Len(works) => a[i] = works[i]
  <2> TAKE i \in DOMAIN both
  <2> HAVE i <= Len(works)
  <2>1. both[i] = works[i] /\ i \in DOMAIN works BY <1>1, <1>2
  <2>2. both[i].subNodes # from BY <2>1
  <2> HIDE DEF both
  <2>3. a[i] = both[i] BY <1>1, <2>2, RedirectFacts
  <2> QED BY <2>1, <2>3
<1>5. \A i \in DOMAIN more : a[Len(works) + i] = b[i]
  <2> TAKE i \in DOMAIN more
  <2>1. Len(works) + i \in DOMAIN both /\ ~(Len(works) + i <= Len(works)) /\ Len(works) + i - Len(works) = i
    BY <1>1
  <2>2. both[Len(works) + i] = more[i] BY <1>2, <2>1
  <2> HIDE DEF both
  <2> QED BY <2>1, <2>2, Zenon DEF Redirect
<1> HIDE DEF a, b, both
<1>6. /\ Tail(a) \in Seq(WorkType) /\ Len(Tail(a)) = Len(works) + Len(more) - 1
      /\ \A i \in 1..(Len(works) + Len(more) - 1) : Tail(a)[i] = a[i+1]
  <2>1. a # <<>> BY <1>1, <1>3
  <2> QED BY <1>1, <1>3, <2>1
<1>7. Tail(works) \in Seq(WorkType) /\ Len(Tail(works)) = Len(works) - 1 /\ \A i \in 1..(Len(works) - 1) : Tail(works)[i] = works[i+1]
  BY <1>1
<1> DEFINE c == Tail(works) \o b
<1>8. /\ c \in Seq(WorkType) /\ Len(c) = Len(works) + Len(more) - 1
      /\ \A i \in 1..(Len(works) + Len(more) - 1) :
            c[i] = IF i <= Len(works) - 1 THEN Tail(works)[i] ELSE b[i - (Len(works) - 1)]
  <2> DEFINE t == Tail(works)
  <2>0. c = t \o b OBVIOUS
  <2>1. t \in Seq(WorkType) /\ b \in Seq(WorkType) /\ Len(t) = Len(works) - 1 /\ Len(b) = Len(more)
    BY <1>3, <1>7
  <2> HIDE DEF t, c
  <2>2. c \in Seq(WorkType) /\ Len(c) = Len(t) + Len(b)
    <3>1. t \o b \in Seq(WorkType) /\ Len(t \o b) = Len(t) + Len(b)
      <4>1. t \in Seq(WorkType) /\ b \in Seq(WorkType) BY <2>1
      <4> QED BY <4>1, ConcatProperties, Zenon
    <3> QED BY <2>0, <3>1
  <2>4. ASSUME NEW i \in 1..(Len(t) + Len(b)) PROVE c[i] = IF i <= Len(t) THEN t[i] ELSE b[i - Len(t)]
    <3>1. (t \o b)[i] = IF i <= Len(t) THEN t[i] ELSE b[i - Len(t)] BY <2>1
    <3> QED BY <2>0, <3>1
  <2>3. Len(t) + Len(b) = Len(works) + Len(more) - 1 BY <1>1, <2>1
  <2> QED BY <2>1, <2>2, <2>3, <2>4 DEF t
<1>9. ASSUME NEW i \in 1..(Len(works) + Len(more) - 1) PROVE Tail(a)[i] = c[i]
  <2> HIDE DEF c
  <2>1. Tail(a)[i] = a[i+1] /\ i \in Nat BY <1>1, <1>6
  <2>2. CASE i <= Len(works) - 1
    <3>1. i + 1 \in DOMAIN both /\ i + 1 <= Len(works) /\ i \in 1..(Len(works) - 1) BY <1>1, <2>2
    <3> QED BY <1>4, <1>7, <1>8, <2>1, <2>2, <3>1, Zenon
  <2>3. CASE ~(i <= Len(works) - 1)
    <3>1. i - (Len(works) - 1) \in DOMAIN more /\ Len(works) + (i - (Len(works) - 1)) = i + 1 BY <1>1, <2>3
    <3> QED BY <1>5, <1>8, <2>1, <2>3, <3>1, Zenon
  <2> QED BY <2>2, <2>3, Zenon
<1> HIDE DEF c
<1>10. Tail(a) = c BY <1>1, <1>6, <1>8, <1>9, SeqEqual
<1> QED BY <1>10, Zenon DEF a, b, c, both

(* The node of a menu that shows anything is a branch.                      *)
LEMMA ShownIsBranch ==
  ASSUME NEW q \in Request, NEW m \in Menus
  PROVE  /\ Meant(q, m).of = m
         /\ Shows(q)[m] # <<>> => Meant(q, m).is = "branch"
<1>1. Meant(q, m).of = m BY DEF Meant, Node, Null
<1>2. ASSUME Shows(q)[m] # <<>> PROVE Meant(q, m).is = "branch"
  <2> DEFINE d == q.definition[m]
  <2>1. Shows(q)[m] = ShowsOf(q, m, Shows(q)) BY ShowsUnfolds
  <2>2. d.type = "leaf" \/ d.type = "filtered" \/ (d.type = "folder" /\ d.menus = <<>>) => d.menus = <<>> /\ d.type \notin BranchTypes
    <3>1. d.type = "leaf" \/ d.type = "filtered" => d.type \notin ListTypes BY DEF ListTypes
    <3>2. d.type \notin ListTypes => d.menus = <<>> BY RequestFacts, DefinitionFacts
    <3> QED BY <3>1, <3>2 DEF BranchTypes
  <2>3. ~(d.type = "leaf" \/ d.type = "filtered" \/ (d.type = "folder" /\ d.menus = <<>>))
    <3> SUFFICES ASSUME d.type = "leaf" \/ d.type = "filtered" \/ (d.type = "folder" /\ d.menus = <<>>) PROVE FALSE
      OBVIOUS
    <3>1. d.menus = <<>> /\ d.type \notin BranchTypes BY <2>2
    <3>2. Shows(q)[m] = [i \in DOMAIN d.menus |-> Meant(q, d.menus[i])] BY <2>1, <3>1 DEF ShowsOf
    <3>3. Shows(q)[m] = <<>> BY <3>1, <3>2
    <3> QED BY <1>2, <3>3
  <2>4. Meant(q, m) = Node("branch", m) BY <2>3 DEF Meant
  <2> QED BY <2>4 DEF Node
<1> QED BY <1>1, <1>2

(* A branch that drops its parent shows what is in the menu it gets, now or *)
(* once that menu's work is done.                                           *)
LEMMA DropFills ==
  ASSUME NEW q \in Request, NEW ls \in [Menus -> Seq(NodeType)], NEW w, Pending(q, ls, w),
         q.answer[w.branch] = "menu", q.definition[w.branch].dropParent,
         NEW made, made = Made(q)[q.definition[w.branch].source], ~made.throws,
         ~(made.nodes = <<>> /\ ~IsDeferred(q.definition[w.branch].source, made.works))
  PROVE  /\ made.works \in Seq(WorkType) /\ made.nodes \in Seq(NodeType)
         /\ FillsUp(q, w, made.nodes, Redirect(made.works, q.definition[w.branch].source, w.subNodes))
<1> DEFINE m == w.branch  l == w.subNodes  source == q.definition[m].source
           works == made.works  new == Redirect(works, source, l)  ns == made.nodes
<1>0. /\ m \in Open(q) /\ m \in BranchesOf(q.definition) /\ m \in Menus /\ source \in Menus
      /\ source \in Parts(q.definition, m) /\ l \in Menus /\ l \notin Within(q, m) /\ q.definition \in Definitions
      /\ Shows(q)[l] = Shows(q)[m]
  BY OpenShows, OpenFacts, RequestFacts, Zenon DEF Pending
<1>1. made \in MadeType BY <1>0, MadeUnfolds
<1>2. works \in Seq(WorkType) /\ ns \in Seq(NodeType) BY <1>1 DEF MadeType
<1>3. MeansMade(q, source) BY <1>0, MadeMeans
<1>4. /\ ~Breaks(q)[source] /\ made.node = Meant(q, source)
      /\ ns = IF source \in Open(q) THEN <<>> ELSE Shows(q)[source]
  BY <1>3 DEF MeansMade
<1>5. /\ source \in Within(q, m) /\ Under(q.definition, source) \subseteq Within(q, m)
      /\ \A i \in DOMAIN works : /\ works[i] \in WorkType /\ works[i].branch \in Under(q.definition, source)
                                 /\ Fits(q, w, ns, works[i]) /\ works[i] = Work(works[i].branch)
                                 /\ \A j \in DOMAIN works : i # j => Apart(q, works[i], works[j])
  <2>1. source \in Within(q, m) /\ Under(q.definition, source) \subseteq Within(q, m)
    BY <1>0, PartFits, Zenon
  <2>2. \A i \in DOMAIN works : works[i] \in WorkType /\ works[i].branch \in Under(q.definition, source)
    BY <1>0, PartFits, Zenon
  <2>3. \A i \in DOMAIN works : Fits(q, w, ns, works[i]) BY <1>0, PartFits, Zenon
  <2>4. \A i \in DOMAIN works : works[i] = Work(works[i].branch)
    <3>1. WorksOf(q, source, made) BY <1>0, WorksMade
    <3> QED BY <3>1, Zenon DEF WorksOf
  <2>5. \A i, j \in DOMAIN works : i # j => Apart(q, works[i], works[j]) BY <1>0, PartFits, Zenon
  <2> QED BY <2>1, <2>2, <2>3, <2>4, <2>5, Zenon
<1>6. \A i \in DOMAIN works : works[i].subNodes = works[i].branch /\ works[i].branch \in Open(q)
  BY <1>5, WorkFacts, Zenon DEF Fits
<1>7. /\ new \in Seq(WorkType) /\ DOMAIN new = DOMAIN works
      /\ \A i \in DOMAIN works :
            /\ new[i].branch = works[i].branch
            /\ new[i].subNodes = IF works[i].subNodes = source THEN l ELSE works[i].subNodes
            /\ works[i].subNodes # source => new[i] = works[i]
  <2> HIDE DEF works, l, source
  <2>1. works \in Seq(WorkType) /\ l \in Menus BY <1>0, <1>2
  <2> QED BY <2>1, RedirectFacts
<1>8. \A b \in Within(q, m) : l \notin Under(q.definition, b) /\ l # b
  <2> TAKE b \in Within(q, m)
  <2>1. Under(q.definition, b) \subseteq Within(q, m) BY <1>0, WithinFacts
  <2> QED BY <1>0, <2>1
<1>9. PICK S \in SUBSET {y \in Under(q.definition, source) : HasList(q.definition, y)} :
        WholeBelow(q, <<made.node>>, works, S)
  <2>1. WorksOf(q, source, made) BY <1>0, WorksMade
  <2> QED BY <2>1, Zenon DEF WorksOf
<1> HIDE DEF new
<1>10. ASSUME NEW i \in DOMAIN new, NEW j \in DOMAIN new, i # j PROVE Apart(q, new[i], new[j])
  <2>1. Apart(q, works[i], works[j]) BY <1>5, <1>7, <1>10, Zenon
  <2>2. works[i].branch \in Within(q, m) /\ works[j].branch \in Within(q, m) BY <1>5, <1>7, Zenon
  <2>5. i \in DOMAIN works /\ j \in DOMAIN works BY <1>7, Zenon
  <2>6. works[i].subNodes # works[j].subNodes BY <2>1, Zenon DEF Apart
  <2>7. l # works[i].branch /\ l # works[j].branch BY <1>8, <2>2
  <2>3. new[i].subNodes # new[j].subNodes
    <3>1. /\ new[i].subNodes = IF works[i].subNodes = source THEN l ELSE works[i].subNodes
          /\ new[j].subNodes = IF works[j].subNodes = source THEN l ELSE works[j].subNodes
      BY <1>7, <2>5, Zenon
    <3>2. works[i].subNodes = works[i].branch /\ works[j].subNodes = works[j].branch BY <1>6, <2>5, Zenon
    <3> HIDE DEF works
    <3> QED BY <2>6, <2>7, <3>1, <3>2
  <2>4. new[j].subNodes \notin Under(q.definition, new[i].branch)
    BY <1>6, <1>7, <1>8, <2>1, <2>2, Zenon DEF Apart
  <2> QED BY <1>7, <2>1, <2>3, <2>4, Zenon DEF Apart
<1>11. CASE source \in Open(q)
  <2>1. ns = <<>> BY <1>4, <1>11
  <2>2. Shows(q)[m] = Shows(q)[source]
    <3>1. Shows(q)[source] # <<>> BY <1>11, OpenFacts, ShowsSome
    <3> QED BY <1>0, <1>4, <3>1, OpenShows, Zenon
  <2>3. IsDeferred(l, new)
    <3>1. IsDeferred(source, works) BY <2>1
    <3>2. PICK i \in DOMAIN works : works[i].subNodes = source BY <3>1, Zenon DEF IsDeferred
    <3> QED BY <1>7, <3>2, Zenon DEF IsDeferred
  <2>4. ASSUME NEW i \in DOMAIN new PROVE Fits(q, w, ns, new[i])
    <3>1. CASE works[i].subNodes = source
      <4>1. new[i].branch = source /\ new[i].subNodes = l BY <1>6, <1>7, <3>1, Zenon
      <4> QED BY <1>0, <1>5, <1>11, <2>1, <2>2, <4>1, Zenon DEF Fits
    <3>2. CASE works[i].subNodes # source BY <1>5, <1>7, <3>2, Zenon
    <3> QED BY <3>1, <3>2
  <2>5. WholeBelow(q, ns, new, {}) BY <2>1, BranchesOfNoNode DEF WholeBelow
  <2>6. FillsUp(q, w, ns, new) BY <1>10, <2>3, <2>4, <2>5, Zenon DEF FillsUp
  <2> QED BY <1>2, <2>6, Zenon DEF new
<1>12. CASE source \notin Open(q)
  <2>1. \A i \in DOMAIN works : works[i].subNodes # source BY <1>6, <1>12, Zenon
  <2>2. ~IsDeferred(source, works) BY <2>1, Zenon DEF IsDeferred
  <2>3. ns = Shows(q)[source] /\ ns # <<>> BY <1>4, <1>12, <2>2
  <2>4. ns = Shows(q)[l] BY <1>0, <1>4, <2>3, OpenShows, Zenon
  <2>5. ASSUME NEW i \in DOMAIN new PROVE new[i] = works[i] /\ Fits(q, w, ns, new[i])
    <3>1. i \in DOMAIN works BY <1>7, Zenon
    <3>2. new[i] = works[i] BY <1>7, <2>1, <3>1, Zenon
    <3>3. Fits(q, w, ns, works[i]) BY <1>5, <3>1, Zenon
    <3> QED BY <3>2, <3>3, Zenon
  <2>6. ASSUME NEW y, IsDeferred(y, works) PROVE IsDeferred(y, new)
    <3>1. PICK i \in DOMAIN works : works[i].subNodes = y BY <2>6, Zenon DEF IsDeferred
    <3>2. i \in DOMAIN new /\ new[i].subNodes = y BY <1>7, <2>5, <3>1, Zenon
    <3> QED BY <3>2, Zenon DEF IsDeferred
  <2>7. WholeBelow(q, ns, new, S)
    <3>1. made.node.is = "branch" /\ made.node.of = source BY <1>0, <1>4, <2>3, ShownIsBranch
    <3>2. source \in S BY <1>9, <3>1, BranchesOfNode, Zenon DEF WholeBelow
    <3>3. BranchesIn(ns) \subseteq S BY <1>9, <3>2, Zenon DEF WholeBelow
    <3> QED BY <1>9, <2>6, <3>3, Zenon DEF WholeBelow
  <2>8. S \in SUBSET {y \in Within(q, m) : HasList(q.definition, y)} BY <1>5, <1>9, Zenon
  <2>9. FillsUp(q, w, ns, new) BY <1>10, <2>4, <2>5, <2>7, <2>8 DEF FillsUp
  <2> QED BY <1>2, <2>9, Zenon DEF new
<1> QED BY <1>11, <1>12
-------------------------------------------------------------------------------
LEMMA TailOfBoth ==
  ASSUME NEW s \in Seq(WorkType), s # <<>>, NEW t \in Seq(WorkType)
  PROVE  /\ Tail(s) \in Seq(WorkType) /\ Tail(s \o t) = Tail(s) \o t
         /\ s \o t # <<>> /\ s \o t \in Seq(WorkType)
<1>1. /\ Len(s) \in Nat /\ Len(s) > 0 /\ Tail(s) \in Seq(WorkType) /\ Len(Tail(s)) = Len(s) - 1 /\ Len(t) \in Nat
      /\ s \o t \in Seq(WorkType) /\ Len(s \o t) = Len(s) + Len(t) /\ s \o t # <<>>
      /\ Tail(s \o t) \in Seq(WorkType) /\ Len(Tail(s \o t)) = Len(s) + Len(t) - 1
      /\ Tail(s) \o t \in Seq(WorkType) /\ Len(Tail(s) \o t) = Len(s) + Len(t) - 1
  OBVIOUS
<1>2. ASSUME NEW i \in 1..(Len(s) + Len(t) - 1) PROVE Tail(s \o t)[i] = (Tail(s) \o t)[i]
  <2>1. Tail(s \o t)[i] = (s \o t)[i+1] BY <1>1
  <2>2. i + 1 \in 1..(Len(s) + Len(t)) BY <1>1
  <2>3. (s \o t)[i+1] = IF i + 1 <= Len(s) THEN s[i+1] ELSE t[i + 1 - Len(s)] BY <1>1, <2>2
  <2>4. (Tail(s) \o t)[i] = IF i <= Len(s) - 1 THEN Tail(s)[i] ELSE t[i - (Len(s) - 1)] BY <1>1
  <2>5. i <= Len(s) - 1 => Tail(s)[i] = s[i+1] BY <1>1
  <2>6. i - (Len(s) - 1) = i + 1 - Len(s) /\ (i <= Len(s) - 1 <=> i + 1 <= Len(s)) BY <1>1
  <2> QED BY <2>1, <2>3, <2>4, <2>5, <2>6
<1>3. Tail(s \o t) = Tail(s) \o t BY <1>1, <1>2, SeqEqual
<1> QED BY <1>1, <1>3

(* What a work gives goes to the end of the queue, and to its list.         *)
Gave(q, works, built) ==
  /\ built.nodes \in Seq(NodeType)
  /\ \E new \in Seq(WorkType) : Tail(built.works) = Tail(works) \o new /\ FillsUp(q, Head(works), built.nodes, new)

LEMMA FailsGave ==
  ASSUME NEW q \in Request, NEW works \in Seq(WorkType), works # <<>>,
         NEW w, w = Head(works), w.branch \in Open(q), Shows(q)[w.subNodes] = Shows(q)[w.branch],
         Shows(q)[w.branch] = IF q.definition[w.branch].onErrorMenu = None THEN <<Message(w.branch)>>
                              ELSE <<Meant(q, q.definition[w.branch].onErrorMenu)>>,
         NEW queued, queued = <<>> \/ queued = Made(q)[q.definition[w.branch].source].works,
         NEW built, built = Fails(q, w.branch, works \o queued), ~built.throws
  PROVE  Gave(q, works, built)
<1> DEFINE error == ErrorMenu(q, w.branch, Made(q))
<1>1. built.nodes = <<error.node>> /\ built.works = (works \o queued) \o error.works /\ built.throws = error.throws
  BY Zenon DEF Fails
<1> HIDE DEF error
<1>2. /\ queued \in Seq(WorkType) /\ error.works \in Seq(WorkType) /\ <<error.node>> \in Seq(NodeType)
      /\ FillsUp(q, w, <<error.node>>, queued \o error.works)
  BY <1>1, FailsFill, Zenon DEF error
<1> DEFINE more == error.works
<1>3. more \in Seq(WorkType) BY <1>2
<1> HIDE DEF more
<1>4. queued \o more \in Seq(WorkType) BY <1>2, <1>3
<1>5. (works \o queued) \o more = works \o (queued \o more)
  <2>1. queued \in Seq(WorkType) BY <1>2
  <2>2. \A s, t, u \in Seq(WorkType) : (s \o t) \o u = s \o (t \o u) BY ConcatAssociative
  <2> HIDE DEF error
  <2> QED BY <1>3, <2>1, <2>2, Zenon
<1>6. Tail(works \o (queued \o more)) = Tail(works) \o (queued \o more) BY <1>4, TailOfBoth, Zenon
<1> QED BY <1>1, <1>2, <1>4, <1>5, <1>6, Zenon DEF Gave, more

LEMMA BuildGave ==
  ASSUME NEW q \in Request, NEW ls \in [Menus -> Seq(NodeType)], NEW works \in Seq(WorkType), works # <<>>,
         Sound(q, works, ls), NEW built, built = Build(q, Head(works), works), ~built.throws
  PROVE  Gave(q, works, built)
<1> DEFINE w == Head(works)  m == w.branch  l == w.subNodes  d == q.definition[m]  source == d.source
           made == IF q.answer[m] = "failed" THEN Throws(<<>>) ELSE Made(q)[source]
           more == made.works  queued == works \o more
           nil == made.nodes = <<>> /\ ~IsDeferred(made.node.of, queued)
<1>1. /\ DOMAIN works = 1..Len(works) /\ Len(works) \in Nat /\ 1 \in DOMAIN works /\ w = works[1] /\ w \in WorkType
  OBVIOUS
<1>2. Pending(q, ls, w) BY <1>1 DEF Sound
<1>3. /\ m \in Open(q) /\ l \in Open(q) /\ Shows(q)[l] = Shows(q)[m] /\ l \notin Within(q, m) /\ l \in Menus
  BY <1>2, OpenFacts DEF Pending
<1>4. /\ m \in BranchesOf(q.definition) /\ m \in Menus /\ source \in Menus /\ source \in Parts(q.definition, m)
      /\ q.answer[m] \in {"failed", "menu"}
  BY <1>3, OpenShows, Zenon
<1>5. built = CASE made.throws -> Fails(q, m, queued)
        [] ~made.throws /\ ~d.dropParent -> Builds(<<made.node>>, queued)
        [] ~made.throws /\ d.dropParent /\ nil -> Fails(q, m, queued)
        [] OTHER -> Builds(made.nodes, Redirect(queued, made.node.of, l))
  BY Zenon DEF Build
<1>6. more = <<>> \/ more = Made(q)[source].works BY DEF Throws
<1>7. source \in Within(q, m) /\ source \in Under(q.definition, m) BY <1>4, PartFits, Zenon DEF Within
<1>8. \A i \in DOMAIN works : works[i].subNodes # source
  <2> TAKE i \in DOMAIN works
  <2>1. CASE i = 1 BY <1>1, <1>3, <1>7, <2>1
  <2>2. CASE i # 1
    <3>1. Apart(q, w, works[i]) BY <1>1, <2>2 DEF Sound
    <3> QED BY <1>7, <3>1 DEF Apart
  <2> QED BY <2>1, <2>2
<1>9. q.answer[m] = "menu" => made = Made(q)[source] /\ MeansMade(q, source) BY <1>4, MadeMeans
<1>10. q.answer[m] = "failed" => made.throws BY DEF Throws
<1> DEFINE errorShows == Shows(q)[m] = IF d.onErrorMenu = None THEN <<Message(m)>> ELSE <<Meant(q, d.onErrorMenu)>>
<1>11. CASE made.throws
  <2>1. built = Fails(q, m, queued) BY <1>5, <1>11, Zenon
  <2>2. errorShows
    <3>1. CASE q.answer[m] = "failed" BY <1>3, <3>1, OpenShows, Zenon
    <3>2. CASE q.answer[m] = "menu"
      <4>1. Breaks(q)[source] BY <1>9, <1>11, <3>2 DEF MeansMade
      <4> QED BY <1>3, <3>2, <4>1, OpenShows, Zenon
    <3> QED BY <1>4, <3>1, <3>2
  <2> HIDE DEF more
  <2> QED BY <1>3, <1>6, <2>1, <2>2, FailsGave, Zenon
<1>12. CASE ~made.throws
  <2>1. q.answer[m] = "menu" /\ made = Made(q)[source] /\ MeansMade(q, source) BY <1>4, <1>9, <1>10, <1>12
  <2>2. ~Breaks(q)[source] /\ made.node = Meant(q, source) /\ made.node.of = source
        /\ made.nodes = IF source \in Open(q) THEN <<>> ELSE Shows(q)[source]
    <3>1. ~Breaks(q)[source] /\ made.node = Meant(q, source)
          /\ made.nodes = IF source \in Open(q) THEN <<>> ELSE Shows(q)[source]
      BY <1>12, <2>1 DEF MeansMade
    <3> QED BY <1>4, <3>1, ShownIsBranch
  <2>3. made \in MadeType BY <1>4, <2>1, MadeUnfolds
  <2>4. more \in Seq(WorkType) /\ made.node \in NodeType /\ made.nodes \in Seq(NodeType)
    BY <2>3 DEF MadeType
  <2>5. IsDeferred(source, queued) <=> IsDeferred(source, more)
    <3>1. ~IsDeferred(source, works) BY <1>8 DEF IsDeferred
    <3> HIDE DEF more
    <3> QED BY <2>4, <3>1, Joined
  <2> HIDE DEF made
  <2>6. CASE ~d.dropParent
    <3>1. built = Builds(<<made.node>>, queued) BY <1>5, <1>12, <2>6
    <3>2. FillsUp(q, w, <<made.node>>, more) BY <1>3, <1>12, <2>1, <2>6, KeepFills, Zenon
    <3>3. Tail(queued) = Tail(works) \o more
      <4> HIDE DEF more
      <4> QED BY <2>4, TailOfBoth
    <3>4. <<made.node>> \in Seq(NodeType) BY <2>4
    <3>5. built.nodes = <<made.node>> /\ built.works = queued BY <3>1 DEF Builds
    <3> QED BY <2>4, <3>2, <3>3, <3>4, <3>5, Zenon DEF Gave
  <2>7. CASE d.dropParent /\ nil
    <3>1. built = Fails(q, m, queued) BY <1>5, <1>12, <2>7
    <3>2. source \notin Open(q)
      <4> SUFFICES ASSUME source \in Open(q) PROVE FALSE OBVIOUS
      <4>1. made.node.is = "branch"
        <5>1. Shows(q)[source] # <<>> BY OpenFacts, ShowsSome
        <5> QED BY <1>4, <2>2, <5>1, ShownIsBranch
      <4>2. WorksOf(q, source, made) BY <1>4, <2>1, WorksMade
      <4>3. PICK S \in SUBSET {y \in Under(q.definition, source) : HasList(q.definition, y)} :
              WholeBelow(q, <<made.node>>, more, S)
        BY <1>12, <4>2 DEF WorksOf
      <4>4. source \in S BY <2>2, <4>1, <4>3, BranchesOfNode DEF WholeBelow
      <4>5. IsDeferred(source, more) BY <4>3, <4>4 DEF WholeBelow
      <4> QED BY <2>2, <2>5, <2>7, <4>5
    <3>3. Shows(q)[source] = <<>> BY <2>2, <2>7, <3>2
    <3>4. errorShows BY <1>3, <2>1, <2>2, <2>7, <3>3, OpenShows, Zenon
    <3> HIDE DEF more
    <3> QED BY <1>3, <1>6, <3>1, <3>4, FailsGave, Zenon
  <2>8. CASE d.dropParent /\ ~nil
    <3> DEFINE redirected == Redirect(more, source, l)
    <3>1. built = Builds(made.nodes, Redirect(queued, source, l)) BY <1>5, <1>12, <2>2, <2>8
    <3>2. ~(made.nodes = <<>> /\ ~IsDeferred(source, more)) BY <2>2, <2>5, <2>8
    <3>3. FillsUp(q, w, made.nodes, redirected) BY <1>2, <1>12, <2>1, <2>8, <3>2, DropFills, Zenon
    <3>4. redirected \in Seq(WorkType) /\ Tail(Redirect(queued, source, l)) = Tail(works) \o redirected
      <4> HIDE DEF more
      <4>1. redirected \in Seq(WorkType)
        <5>1. more \in Seq(WorkType) /\ l \in Menus BY <1>3, <2>4, Zenon
        <5>2. Redirect(more, source, l) \in Seq(WorkType) BY <5>1, RedirectFacts, Zenon
        <5> QED BY <5>2, Zenon
      <4>2. Tail(Redirect(queued, source, l)) = Tail(works) \o redirected
        <5> HIDE DEF source, l
        <5>1. l \in Menus /\ more \in Seq(WorkType) BY <1>3, <2>4
        <5> QED BY <1>8, <5>1, RedirectTail
      <4> QED BY <4>1, <4>2, Zenon
    <3>5. built.nodes = made.nodes /\ built.works = Redirect(queued, source, l) BY <3>1 DEF Builds
    <3> QED BY <2>4, <3>3, <3>4, <3>5, Zenon DEF Gave
  <2> QED BY <2>6, <2>7, <2>8
<1> QED BY <1>11, <1>12
-------------------------------------------------------------------------------
States == {"idle", "asked", "resolving", "sent", "failed"}

IInv ==
  /\ state \in States
  /\ state # "idle" => request \in Request
  /\ state \in {"resolving", "sent"} =>
       /\ deferred \in Seq(WorkType) /\ lists \in [Menus -> Seq(NodeType)]
       /\ Sound(request, deferred, lists)
  /\ state = "sent" => deferred = <<>>

(* The tree that is made in one pass is sound, with the works it queues.    *)
LEMMA MadeIsSound ==
  ASSUME NEW q \in Request, ~Made(q)[q.root].throws
  PROVE  LET made == Made(q) IN
         /\ made[q.root].works \in Seq(WorkType) /\ [m \in Menus |-> made[m].nodes] \in [Menus -> Seq(NodeType)]
         /\ Sound(q, made[q.root].works, [m \in Menus |-> made[m].nodes])
<1> DEFINE works == Made(q)[q.root].works
           ls == [m \in Menus |-> Made(q)[m].nodes]
<1>0. q.root \in Menus /\ q.definition \in Definitions BY RequestFacts
<1>1. works \in Seq(WorkType) /\ ls \in [Menus -> Seq(NodeType)]
  <2>1. \A m \in Menus : Made(q)[m] \in MadeType BY MadeUnfolds
  <2> QED BY <1>0, <2>1 DEF MadeType
<1>2. WorksOf(q, q.root, Made(q)[q.root]) BY <1>0, WorksMade
<1>3. \A m \in Menus : ls[m] = Made(q)[m].nodes OBVIOUS
<1> HIDE DEF ls
<1>4. ASSUME NEW i \in DOMAIN works PROVE Pending(q, ls, works[i])
  <2> DEFINE b == works[i].branch
  <2>1. b \in Open(q) /\ b \in Menus /\ works[i].subNodes = b
    <3>1. b \in Open(q) /\ works[i] = Work(b) BY <1>2 DEF WorksOf
    <3>2. works[i].subNodes = b BY <3>1, WorkFacts
    <3> QED BY <3>1, <3>2, OpenFacts
  <2>2. ls[b] = <<>>
    <3>1. MeansMade(q, b) BY <2>1, MadeMeans
    <3> QED BY <1>3, <2>1, <3>1 DEF MeansMade
  <2>3. \A m \in Within(q, b) : ls[m] = Made(q)[m].nodes BY <1>3, <2>1, WithinFacts
  <2>4. b \notin Within(q, b) BY DEF Within
  <2> QED BY <2>1, <2>2, <2>3, <2>4 DEF Pending
<1>5. ASSUME NEW i \in DOMAIN works, NEW j \in DOMAIN works, i # j PROVE Apart(q, works[i], works[j])
  <2>1. works[j].branch \notin Under(q.definition, works[i].branch)
    <3>1. <<works[i], works[j]>> \in AreApart(q) BY <1>2, <1>5 DEF WorksOf
    <3> QED BY <3>1 DEF AreApart
  <2>2. /\ works[i].subNodes = works[i].branch /\ works[j].subNodes = works[j].branch
        /\ works[i].branch \in Menus
    <3>1. /\ works[i] = Work(works[i].branch) /\ works[j] = Work(works[j].branch)
          /\ works[i].branch \in Open(q)
      BY <1>2 DEF WorksOf
    <3>2. works[i].subNodes = works[i].branch BY <3>1, WorkFacts
    <3>3. works[j].subNodes = works[j].branch BY <3>1, WorkFacts
    <3> QED BY <3>1, <3>2, <3>3, OpenFacts
  <2>3. works[i].branch \in Under(q.definition, works[i].branch) BY <1>0, <2>2, UnderFacts
  <2> QED BY <2>1, <2>2, <2>3 DEF Apart
<1>6. PICK T \in SUBSET {y \in Under(q.definition, q.root) : HasList(q.definition, y)} :
        WholeBelow(q, <<Made(q)[q.root].node>>, works, T)
  BY <1>2 DEF WorksOf
<1>7. T \in SUBSET {m \in Menus : HasList(q.definition, m)} BY <1>0, <1>6, UnderFacts
<1>8. Tree(q, works, ls, T)
  <2>1. ASSUME NEW m \in T PROVE BranchesIn(ls[m]) \subseteq T /\ (IsDeferred(m, works) \/ ls[m] = Shows(q)[m])
    <3>1. m \in Menus /\ ls[m] = Made(q)[m].nodes BY <1>3, <1>7
    <3>2. ~Made(q)[m].throws /\ BranchesIn(Made(q)[m].nodes) \subseteq T /\ (m \in Open(q) => IsDeferred(m, works))
      BY <1>6 DEF WholeBelow
    <3>3. MeansMade(q, m) BY <3>1, MadeMeans
    <3> QED BY <3>1, <3>2, <3>3 DEF MeansMade
  <2> QED BY <1>6, <2>1 DEF Tree, WholeBelow
<1>9. Sound(q, works, ls) BY <1>4, <1>5, <1>7, <1>8 DEF Sound
<1> QED BY <1>1, <1>9 DEF ls

LEMMA InitSound == Init => IInv
BY DEF Init, IInv, States

LEMMA RunSound ==
  ASSUME IInv, Run
  PROVE  IInv'
<1>1. /\ state = "asked" /\ request \in Request /\ request' = request
      /\ state' = IF Made(request)[request.root].throws THEN "failed" ELSE "resolving"
      /\ deferred' = Made(request)[request.root].works
      /\ lists' = [m \in Menus |-> Made(request)[m].nodes]
  BY DEF IInv, Run
<1>2. CASE Made(request)[request.root].throws BY <1>1, <1>2 DEF IInv, States
<1>3. CASE ~Made(request)[request.root].throws
  <2>1. /\ deferred' \in Seq(WorkType) /\ lists' \in [Menus -> Seq(NodeType)]
        /\ Sound(request, deferred', lists')
    BY <1>1, <1>3, MadeIsSound
  <2>2. Sound(request', deferred', lists') BY <1>1, <2>1
  <2>3. state' = "resolving" BY <1>1, <1>3
  <2> QED BY <1>1, <2>1, <2>2, <2>3 DEF IInv, States
<1> QED BY <1>2, <1>3

LEMMA ResolveSound ==
  ASSUME IInv, Resolve
  PROVE  IInv'
<1> DEFINE work == Head(deferred)
           built == Build(request, work, deferred)
<1>1. /\ state = "resolving" /\ deferred # <<>> /\ request \in Request /\ request' = request
      /\ deferred \in Seq(WorkType) /\ lists \in [Menus -> Seq(NodeType)] /\ Sound(request, deferred, lists)
  BY DEF IInv, Resolve
<1>2. /\ state' = IF built.throws THEN "failed" ELSE state
      /\ deferred' = IF built.throws THEN built.works ELSE Tail(built.works)
      /\ lists' = IF built.throws THEN lists ELSE [lists EXCEPT ![work.subNodes] = lists[work.subNodes] \o built.nodes]
  BY DEF Resolve
<1> HIDE DEF built
<1>3. CASE built.throws BY <1>1, <1>2, <1>3 DEF IInv, States
<1>4. CASE ~built.throws
  <2>1. Gave(request, deferred, built) BY <1>1, <1>4, BuildGave DEF built
  <2>2. PICK new \in Seq(WorkType) :
          Tail(built.works) = Tail(deferred) \o new /\ FillsUp(request, work, built.nodes, new)
    BY <2>1, Zenon DEF Gave
  <2>3. built.nodes \in Seq(NodeType) BY <2>1 DEF Gave
  <2>4. lists[work.subNodes] \o built.nodes = built.nodes
    <3>1. work = deferred[1] /\ 1 \in DOMAIN deferred BY <1>1
    <3>2. lists[work.subNodes] = <<>> BY <1>1, <3>1 DEF Sound, Pending
    <3> QED BY <2>3, <3>2
  <2>5. lists' = [lists EXCEPT ![work.subNodes] = built.nodes] BY <1>2, <1>4, <2>4
  <2>6. deferred' = Tail(deferred) \o new BY <1>2, <1>4, <2>2, Zenon
  <2> DEFINE ns == built.nodes
  <2>7. ns \in Seq(NodeType) /\ FillsUp(request, work, ns, new) BY <2>2, <2>3
  <2> HIDE DEF ns
  <2>8. Sound(request, Tail(deferred) \o new, [lists EXCEPT ![work.subNodes] = ns])
    BY <1>1, <2>7, Resolved, Zenon
  <2>9. Sound(request', deferred', lists') BY <1>1, <2>5, <2>6, <2>8 DEF ns
  <2>10. deferred' \in Seq(WorkType)
    <3>1. Tail(deferred) \in Seq(WorkType) BY <1>1, HeadTailProperties
    <3> QED BY <2>6, <3>1
  <2>11. lists' \in [Menus -> Seq(NodeType)] BY <1>1, <2>3, <2>5, Zenon
  <2>12. state' = "resolving" BY <1>1, <1>2, <1>4
  <2> QED BY <1>1, <2>9, <2>10, <2>11, <2>12 DEF IInv, States
<1> QED BY <1>3, <1>4

(* The queue is sound as long as there is one: each work fills an empty     *)
(* list of its own, what is below its branch is untouched, and all lists of *)
(* the tree without a work are what the definitions say.                    *)
THEOREM QueueSound == Spec => []IInv
<1>1. ASSUME IInv, [Next]_vars PROVE IInv'
  <2>1. CASE Ask BY <1>1, <2>1 DEF IInv, Ask, States
  <2>2. CASE Run BY <1>1, <2>2, RunSound
  <2>3. CASE Resolve BY <1>1, <2>3, ResolveSound
  <2>4. CASE Send
    <3>1. /\ state = "resolving" /\ state' = "sent" /\ deferred = <<>> /\ request' = request /\ deferred' = deferred
          /\ lists' = lists
      BY <2>4 DEF Send
    <3>2. /\ request \in Request /\ deferred \in Seq(WorkType) /\ lists \in [Menus -> Seq(NodeType)]
          /\ Sound(request, deferred, lists)
      BY <1>1, <3>1 DEF IInv
    <3>3. Sound(request', deferred', lists') BY <3>1, <3>2
    <3> QED BY <3>1, <3>2, <3>3 DEF IInv, States
  <2>5. CASE Done \/ UNCHANGED vars
    <3>1. request' = request /\ state' = state /\ deferred' = deferred /\ lists' = lists
      BY <2>5 DEF Done, vars
    <3>2. Sound(request, deferred, lists) => Sound(request', deferred', lists') BY <3>1
    <3> QED BY <1>1, <3>1, <3>2 DEF IInv
  <2> QED BY <1>1, <2>1, <2>2, <2>3, <2>4, <2>5 DEF Next
<1> QED BY <1>1, InitSound, PTL DEF Spec

(* The tree as it is lies in every set of lists that is closed below.       *)
LEMMA ShownInTree ==
  ASSUME NEW works, NEW T \in SUBSET {m \in Menus : HasList(request.definition, m)}, Tree(request, works, lists, T)
  PROVE  Shown \subseteq T
<1>1. /\ BranchesIn(<<Made(request)[request.root].node>>) \subseteq T
      /\ \A m \in T : BranchesIn(lists[m]) \subseteq T
  BY DEF Tree
<1> QED BY <1>1 DEF Shown

(* resolveDeferred() ends with the menu that the definitions describe,      *)
(* however branches nest, fail, queue others or drop their parents.         *)
THEOREM WholeMenu == Spec => []MenuIsWhole
<1>1. IInv => MenuIsWhole
  <2> SUFFICES ASSUME IInv, state = "sent"
               PROVE  /\ Made(request)[request.root].node = Meant(request, request.root)
                      /\ \A m \in Shown : lists[m] = Shows(request)[m]
    BY DEF MenuIsWhole
  <2>1. request \in Request /\ deferred = <<>> /\ Sound(request, deferred, lists) BY DEF IInv
  <2>2. Made(request)[request.root].node = Meant(request, request.root)
    <3>1. request.root \in Menus BY <2>1, RequestFacts
    <3>2. MeansMade(request, request.root) BY <2>1, <3>1, MadeMeans
    <3> QED BY <2>1, <3>2 DEF MeansMade, Sound
  <2>3. PICK T \in SUBSET {m \in Menus : HasList(request.definition, m)} : Tree(request, deferred, lists, T)
    BY <2>1 DEF Sound
  <2>4. Shown \subseteq T BY <2>3, ShownInTree
  <2>5. \A m : ~IsDeferred(m, deferred) BY <2>1 DEF IsDeferred
  <2> QED BY <2>2, <2>3, <2>4, <2>5 DEF Tree
<1> QED BY <1>1, QueueSound, PTL

(* At each turn of resolveDeferred() the queue has one work for each list   *)
(* that the tree still lacks, after #build() redirected some of them too.   *)
THEOREM OwedLists == Spec => []ListsAreOwed
<1>1. IInv => ListsAreOwed
  <2> SUFFICES ASSUME IInv, state = "resolving", NEW m \in Shown
               PROVE  Cardinality({i \in DOMAIN deferred : deferred[i].subNodes = m}) =
                        IF m \in Open(request) /\ lists[m] = <<>> THEN 1 ELSE 0
    BY DEF ListsAreOwed
  <2> DEFINE fills == {i \in DOMAIN deferred : deferred[i].subNodes = m}
  <2>1. request \in Request /\ Sound(request, deferred, lists) BY DEF IInv
  <2>2. PICK T \in SUBSET {n \in Menus : HasList(request.definition, n)} : Tree(request, deferred, lists, T)
    BY <2>1 DEF Sound
  <2>3. m \in T BY <2>2, ShownInTree
  <2>4. CASE IsDeferred(m, deferred)
    <3>1. PICK i \in DOMAIN deferred : deferred[i].subNodes = m BY <2>4 DEF IsDeferred
    <3>2. m \in Open(request) /\ lists[m] = <<>>
      <4>1. Pending(request, lists, deferred[i]) BY <2>1 DEF Sound
      <4> QED BY <3>1, <4>1 DEF Pending
    <3>3. \A j \in fills : j = i
      <4> TAKE j \in fills
      <4>1. i # j => Apart(request, deferred[i], deferred[j]) BY <2>1 DEF Sound
      <4> QED BY <3>1, <4>1 DEF Apart
    <3>4. fills = {i} BY <3>1, <3>3
    <3>5. Cardinality({i}) = 1 BY FS_Singleton, Zenon
    <3> HIDE DEF fills
    <3>6. Cardinality(fills) = 1 BY <3>4, <3>5
    <3> QED BY <3>2, <3>6 DEF fills
  <2>5. CASE ~IsDeferred(m, deferred)
    <3>1. fills = {} BY <2>5 DEF IsDeferred
    <3>2. lists[m] = Shows(request)[m] BY <2>2, <2>3, <2>5 DEF Tree
    <3>3. ~(m \in Open(request) /\ lists[m] = <<>>)
      <4> SUFFICES ASSUME m \in Open(request), lists[m] = <<>> PROVE FALSE OBVIOUS
      <4>1. m \in BranchesOf(request.definition) BY <2>1, OpenFacts
      <4> QED BY <2>1, <3>2, <4>1, ShowsSome
    <3>4. Cardinality({}) = 0 BY FS_EmptySet
    <3> HIDE DEF fills
    <3>5. Cardinality(fills) = 0 BY <3>1, <3>4
    <3> QED BY <3>3, <3>5 DEF fills
  <2> QED BY <2>4, <2>5
<1> QED BY <1>1, QueueSound, PTL
===============================================================================
