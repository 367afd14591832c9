------------------------ MODULE DocumentBuildProofs ------------------------
(***************************************************************************)
(* The document of a build, for every unit and however its extractors      *)
(* settle: what they give is typed, the document is a function of the unit *)
(* the overview and which of them threw, its headings tell the types of    *)
(* different directories apart, and a Go type has its own members.         *)
(***************************************************************************)
EXTENDS DocumentBuild, SequenceTheorems, FiniteSetTheorems, WellFoundedInduction, TLAPS

-----------------------------------------------------------------------------
(* Sequences put together from parts.                                      *)

LEMMA LeastIndex ==
  ASSUME NEW S \in SUBSET Nat, S # {}
  PROVE  \E i \in S : \A j \in S : i <= j
  <1>1. PICK d \in S : \A e \in S : <<e, d>> \notin OpToRel(<, Nat)
    BY NatLessThanWellFounded, WFMin
  <1>2. \A e \in S : d <= e
    <2> SUFFICES ASSUME NEW e \in S, ~(d <= e) PROVE FALSE
      OBVIOUS
    <2>1. e \in Nat /\ d \in Nat /\ e < d
      OBVIOUS
    <2>2. <<e, d>> \in OpToRel(<, Nat)
      BY <2>1 DEF OpToRel
    <2> QED BY <1>1, <2>2
  <1> QED BY <1>2

LEMMA SequenceDomain ==
  ASSUME NEW S, NEW s \in Seq(S)
  PROVE  /\ DOMAIN s = 1..Len(s) /\ Len(s) \in Nat
         /\ \A i \in DOMAIN s : i \in Nat \ {0} /\ s[i] \in S
  OBVIOUS

LEMMA SequenceOf ==
  ASSUME NEW S, NEW s, NEW n \in Nat, DOMAIN s = 1..n, s = [i \in DOMAIN s |-> s[i]],
         \A i \in DOMAIN s : s[i] \in S
  PROVE  s \in Seq(S) /\ Len(s) = n
  OBVIOUS

(* The prefixes FlattenSeq concatenates, as far as m.                      *)
IsFlattening(f, ss, m) ==
  f = [i \in 1..m |-> IF i = 1 THEN ss[i] ELSE f[i - 1] \o ss[i]]

LEMMA FlatteningExists ==
  ASSUME NEW n \in Nat, NEW ss
  PROVE  \A m \in 1..n : \E f : IsFlattening(f, ss, m)
  <1> DEFINE Bad == {m \in 1..n : ~\E f : IsFlattening(f, ss, m)}
  <1> SUFFICES ASSUME Bad # {} PROVE FALSE
    OBVIOUS
  <1>1. PICK m \in Bad : \A k \in Bad : m <= k
    <2>1. Bad \in SUBSET Nat
      OBVIOUS
    <2> HIDE DEF Bad
    <2> QED BY <2>1, LeastIndex
  <1>2. m \in 1..n
    OBVIOUS
  <1>3. CASE m = 1
    <2>1. IsFlattening([i \in 1..1 |-> ss[1]], ss, 1)
      BY DEF IsFlattening
    <2> QED BY <1>3, <2>1
  <1>4. CASE m # 1
    <2>1. m - 1 \in 1..n /\ m - 1 \notin Bad
      BY <1>1, <1>2, <1>4
    <2>2. PICK f : IsFlattening(f, ss, m - 1)
      BY <2>1
    <2> DEFINE g == [i \in 1..m |-> IF i = m THEN f[m - 1] \o ss[m] ELSE f[i]]
    <2>3. \A i \in 1..(m - 1) : f[i] = IF i = 1 THEN ss[i] ELSE f[i - 1] \o ss[i]
      BY <2>2 DEF IsFlattening
    <2>4. ASSUME NEW i \in 1..m
          PROVE  g[i] = IF i = 1 THEN ss[i] ELSE g[i - 1] \o ss[i]
      <3>1. CASE i = m
        <4>1. g[i] = f[m - 1] \o ss[m]
          BY <3>1
        <4>2. g[i - 1] = f[m - 1]
          BY <3>1, <1>2, <1>4
        <4> QED BY <3>1, <4>1, <4>2, <1>4
      <3>2. CASE i = 1
        BY <3>2, <2>3, <1>2, <1>4
      <3>3. CASE i # m /\ i # 1
        <4>1. i \in 1..(m - 1) /\ i - 1 \in 1..m /\ i - 1 # m
          BY <3>3, <1>2
        <4>2. g[i] = f[i] /\ g[i - 1] = f[i - 1]
          BY <4>1, <3>3
        <4> QED BY <4>1, <4>2, <2>3
      <3> QED BY <3>1, <3>2, <3>3
    <2>5. IsFlattening(g, ss, m)
      BY <2>4 DEF IsFlattening
    <2> QED BY <2>5
  <1> QED BY <1>3, <1>4

(* Where each element of a flattened sequence comes from: a cell of the    *)
(* parts, one for each element, and every cell for some element.           *)
Cells(ss, n) == UNION {{<<i, j>> : j \in DOMAIN ss[i]} : i \in 1..n}

IsOrigin(at, ss, t, n) ==
  /\ at \in [DOMAIN t -> Cells(ss, n)]
  /\ \A k \in DOMAIN t : t[k] = ss[at[k][1]][at[k][2]]
  /\ \A k, l \in DOMAIN t : at[k] = at[l] => k = l
  /\ \A c \in Cells(ss, n) : \E k \in DOMAIN t : at[k] = c

LEMMA CellIsPair ==
  ASSUME NEW ss, NEW n
  PROVE  /\ \A c \in Cells(ss, n) : c = <<c[1], c[2]>> /\ c[1] \in 1..n /\ c[2] \in DOMAIN ss[c[1]]
         /\ \A i \in 1..n : \A j \in DOMAIN ss[i] : <<i, j>> \in Cells(ss, n)
  BY DEF Cells

LEMMA OriginExtended ==
  ASSUME NEW S, NEW ss, NEW m \in Nat, m > 1, NEW s \in Seq(S), NEW at,
         IsOrigin(at, ss, s, m - 1), ss[m] \in Seq(S)
  PROVE  \E new : IsOrigin(new, ss, s \o ss[m], m)
  <1> DEFINE t == s \o ss[m]
  <1> DEFINE n == Len(s)
  <1> DEFINE new == [k \in 1..(n + Len(ss[m])) |-> IF k <= n THEN at[k] ELSE <<m, k - n>>]
  <1>1. /\ n \in Nat /\ DOMAIN s = 1..n
        /\ Len(ss[m]) \in Nat /\ DOMAIN ss[m] = 1..Len(ss[m])
        /\ DOMAIN t = 1..(n + Len(ss[m])) /\ Len(t) = n + Len(ss[m])
    OBVIOUS
  <1>2. \A k \in DOMAIN t : t[k] = IF k <= n THEN s[k] ELSE ss[m][k - n]
    OBVIOUS
  <1> HIDE DEF t, n
  <1>3. \A k \in DOMAIN t : /\ k <= n => k \in DOMAIN s
                            /\ ~(k <= n) => k - n \in DOMAIN ss[m]
    BY <1>1
  <1>4. \A c \in Cells(ss, m - 1) : c \in Cells(ss, m) /\ c[1] # m
    BY CellIsPair DEF Cells
  <1>5. \A c \in Cells(ss, m) : c \in Cells(ss, m - 1) \/ c[1] = m
    <2> SUFFICES ASSUME NEW c \in Cells(ss, m), c[1] # m PROVE c \in Cells(ss, m - 1)
      OBVIOUS
    <2>1. c = <<c[1], c[2]>> /\ c[1] \in 1..m /\ c[2] \in DOMAIN ss[c[1]]
      BY CellIsPair
    <2>2. c[1] \in 1..(m - 1)
      BY <2>1
    <2> QED BY <2>1, <2>2, CellIsPair
  <1>6. /\ \A k \in DOMAIN s : at[k] \in Cells(ss, m - 1) /\ s[k] = ss[at[k][1]][at[k][2]]
        /\ \A k, l \in DOMAIN s : at[k] = at[l] => k = l
        /\ \A c \in Cells(ss, m - 1) : \E k \in DOMAIN s : at[k] = c
    BY DEF IsOrigin
  <1>7. \A k \in DOMAIN t : new[k] = IF k <= n THEN at[k] ELSE <<m, k - n>>
    BY <1>1
  <1>8. DOMAIN new = DOMAIN t
    BY <1>1
  <1> HIDE DEF new
  <1>9. ASSUME NEW k \in DOMAIN t
        PROVE  new[k] \in Cells(ss, m) /\ t[k] = ss[new[k][1]][new[k][2]]
    <2>1. CASE k <= n
      BY <2>1, <1>2, <1>3, <1>4, <1>6, <1>7
    <2>2. CASE ~(k <= n)
      <3>0. m \in 1..m
        OBVIOUS
      <3>1. k - n \in DOMAIN ss[m] /\ new[k] = <<m, k - n>> /\ m \in 1..m
        BY <2>2, <1>3, <1>7, <3>0
      <3> QED BY <2>2, <3>1, <1>2, CellIsPair
    <2> QED BY <2>1, <2>2
  <1>10. ASSUME NEW k \in DOMAIN t, NEW l \in DOMAIN t, new[k] = new[l] PROVE k = l
    <2>1. CASE k <= n /\ l <= n
      BY <2>1, <1>3, <1>6, <1>7, <1>10
    <2>2. CASE ~(k <= n) /\ ~(l <= n)
      <3>1. <<m, k - n>> = <<m, l - n>>
        BY <2>2, <1>7, <1>10
      <3>2. k - n = l - n
        BY <3>1
      <3>3. k \in Nat /\ l \in Nat /\ n \in Nat
        BY <1>1
      <3> QED BY <3>2, <3>3
    <2>3. CASE (k <= n) # (l <= n)
      <3>1. ASSUME NEW x \in DOMAIN t PROVE (new[x][1] = m) <=> ~(x <= n)
        <4>1. CASE x <= n
          BY <4>1, <1>3, <1>4, <1>6, <1>7
        <4>2. CASE ~(x <= n)
          <5>1. new[x] = <<m, x - n>>
            BY <4>2, <1>7
          <5> QED BY <4>2, <5>1
        <4> QED BY <4>1, <4>2
      <3> QED BY <2>3, <3>1, <1>10
    <2> QED BY <2>1, <2>2, <2>3
  <1>11. ASSUME NEW c \in Cells(ss, m) PROVE \E k \in DOMAIN t : new[k] = c
    <2>1. CASE c \in Cells(ss, m - 1)
      <3>1. PICK k \in DOMAIN s : at[k] = c
        BY <2>1, <1>6
      <3>2. k \in DOMAIN t /\ k <= n
        BY <1>1
      <3> QED BY <3>1, <3>2, <1>7
    <2>2. CASE c[1] = m
      <3>1. c = <<m, c[2]>> /\ c[2] \in DOMAIN ss[m]
        BY <2>2, CellIsPair
      <3>2. c[2] + n \in DOMAIN t /\ ~(c[2] + n <= n) /\ (c[2] + n) - n = c[2]
        BY <3>1, <1>1
      <3>3. new[c[2] + n] = <<m, (c[2] + n) - n>>
        BY <3>2, <1>7
      <3> QED BY <3>1, <3>2, <3>3
    <2> QED BY <2>1, <2>2, <1>5
  <1>12. new = [k \in DOMAIN t |-> new[k]]
    BY <1>1 DEF new
  <1>13. IsOrigin(new, ss, t, m)
    BY <1>8, <1>9, <1>10, <1>11, <1>12 DEF IsOrigin
  <1> QED BY <1>13 DEF t

LEMMA FlattenedOrigin ==
  ASSUME NEW S, NEW ss \in Seq(Seq(S))
  PROVE  /\ FlattenSeq(ss) \in Seq(S)
         /\ \E at : IsOrigin(at, ss, FlattenSeq(ss), Len(ss))
  <1> DEFINE n == Len(ss)
  <1> DEFINE f == CHOOSE f : f = [i \in 1..n |-> IF i = 1 THEN ss[i] ELSE f[i - 1] \o ss[i]]
  <1>1. CASE n = 0
    <2>1. FlattenSeq(ss) = <<>> /\ 1..n = {}
      BY <1>1 DEF FlattenSeq
    <2>2. Cells(ss, n) = {}
      BY <2>1 DEF Cells
    <2>3. IsOrigin(<<>>, ss, <<>>, n)
      BY <2>2 DEF IsOrigin
    <2> QED BY <2>1, <2>3
  <1>2. CASE n # 0
    <2>1. n \in Nat /\ n \in 1..n /\ \A i \in 1..n : ss[i] \in Seq(S)
      BY <1>2
    <2>2. \E g : g = [i \in 1..n |-> IF i = 1 THEN ss[i] ELSE g[i - 1] \o ss[i]]
      BY <2>1, FlatteningExists DEF IsFlattening
    <2>3. f = [i \in 1..n |-> IF i = 1 THEN ss[i] ELSE f[i - 1] \o ss[i]]
      BY <2>2
    <2>4. FlattenSeq(ss) = f[n]
      BY <1>2 DEF FlattenSeq
    <2> DEFINE Bad == {i \in 1..n : ~(f[i] \in Seq(S) /\ \E at : IsOrigin(at, ss, f[i], i))}
    <2> HIDE DEF f, n
    <2>5. ASSUME Bad # {} PROVE FALSE
      <3>1. Bad \in SUBSET Nat
        OBVIOUS
      <3>2. PICK i \in Bad : \A j \in Bad : i <= j
        <4> HIDE DEF Bad
        <4> QED BY <2>5, <3>1, LeastIndex
      <3>3. CASE i = 1
        <4>1. f[1] = ss[1] /\ ss[1] \in Seq(S)
          BY <2>1, <2>3, <3>3
        <4> DEFINE at == [k \in DOMAIN ss[1] |-> <<1, k>>]
        <4>2. Cells(ss, 1) = {<<1, k>> : k \in DOMAIN ss[1]}
          BY DEF Cells
        <4>3. IsOrigin(at, ss, ss[1], 1)
          BY <4>2 DEF IsOrigin
        <4> QED BY <3>3, <4>1, <4>3
      <3>4. CASE i # 1
        <4>0. i \in 1..n /\ i \in Nat
          BY <2>1
        <4>1. i \in 1..n /\ i - 1 \in 1..n /\ i - 1 \notin Bad
          <5> HIDE DEF Bad
          <5>1. i - 1 \in 1..n /\ ~(i <= i - 1)
            BY <2>1, <3>4, <4>0
          <5> QED BY <3>2, <4>0, <5>1
        <4>2. f[i - 1] \in Seq(S) /\ \E at : IsOrigin(at, ss, f[i - 1], i - 1)
          BY <4>1
        <4>3. f[i] = f[i - 1] \o ss[i]
          BY <2>3, <4>1, <3>4
        <4>4. i \in Nat /\ i > 1 /\ ss[i] \in Seq(S)
          BY <2>1, <4>1, <3>4
        <4>5. \E at : IsOrigin(at, ss, f[i - 1] \o ss[i], i)
          <5> HIDE DEF Bad
          <5> QED BY <4>2, <4>4, OriginExtended
        <4>6. f[i] \in Seq(S)
          BY <4>2, <4>3, <4>4
        <4> QED BY <4>3, <4>5, <4>6
      <3> QED BY <3>3, <3>4
    <2>6. f[n] \in Seq(S) /\ \E at : IsOrigin(at, ss, f[n], n)
      BY <2>1, <2>5
    <2> QED BY <2>4, <2>6 DEF n
  <1> QED BY <1>1, <1>2

(* The elements of a sequence at the positions in K.                       *)
Picked(s, K) == FlattenSeq([i \in DOMAIN s |-> IF i \in K THEN <<s[i]>> ELSE <<>>])

IsSelection(of, s, t, K) ==
  /\ of \in [DOMAIN t -> K]
  /\ \A k \in DOMAIN t : t[k] = s[of[k]]
  /\ \A k, l \in DOMAIN t : of[k] = of[l] => k = l
  /\ \A i \in K : \E k \in DOMAIN t : of[k] = i

LEMMA PickedSelection ==
  ASSUME NEW S, NEW s \in Seq(S), NEW K \in SUBSET DOMAIN s
  PROVE  /\ Picked(s, K) \in Seq(S)
         /\ \E of : IsSelection(of, s, Picked(s, K), K)
  <1> DEFINE ss == [i \in DOMAIN s |-> IF i \in K THEN <<s[i]>> ELSE <<>>]
  <1> DEFINE n == Len(s)
  <1>1. DOMAIN s = 1..n /\ n \in Nat /\ \A i \in 1..n : s[i] \in S
    OBVIOUS
  <1>2. DOMAIN ss = 1..n /\ ss = [i \in DOMAIN ss |-> ss[i]]
    BY <1>1
  <1>3. ASSUME NEW i \in 1..n
        PROVE  /\ i \in K => ss[i] = <<s[i]>>
               /\ i \notin K => ss[i] = <<>>
    BY <1>1
  <1> HIDE DEF ss, n
  <1>4. ASSUME NEW i \in 1..n
        PROVE  /\ ss[i] \in Seq(S)
               /\ i \in K => DOMAIN ss[i] = {1} /\ ss[i][1] = s[i]
               /\ i \notin K => DOMAIN ss[i] = {}
    <2>1. s[i] \in S
      BY <1>1
    <2>2. CASE i \in K
      <3>1. ss[i] = <<s[i]>>
        BY <1>3, <2>2
      <3>2. <<s[i]>> \in Seq(S) /\ DOMAIN <<s[i]>> = {1} /\ <<s[i]>>[1] = s[i]
        BY <2>1
      <3> QED BY <2>2, <3>1, <3>2
    <2>3. CASE i \notin K
      <3>1. ss[i] = <<>> /\ <<>> \in Seq(S) /\ DOMAIN <<>> = {}
        BY <1>3, <2>3
      <3> QED BY <2>3, <3>1
    <2> QED BY <2>2, <2>3
  <1>5. ss \in Seq(Seq(S)) /\ Len(ss) = n
    <2>1. \A i \in DOMAIN ss : ss[i] \in Seq(S)
      BY <1>2, <1>4
    <2> QED BY <1>1, <1>2, <2>1, SequenceOf
  <1>6. Picked(s, K) = FlattenSeq(ss)
    BY DEF Picked, ss
  <1>7. Picked(s, K) \in Seq(S) /\ \E at : IsOrigin(at, ss, Picked(s, K), n)
    BY <1>5, <1>6, FlattenedOrigin
  <1>8. PICK at : IsOrigin(at, ss, Picked(s, K), n)
    BY <1>7
  <1> DEFINE t == Picked(s, K)
  <1> HIDE DEF t
  <1> DEFINE of == [k \in DOMAIN t |-> at[k][1]]
  <1>9. ASSUME NEW k \in DOMAIN t
        PROVE  at[k] = <<at[k][1], 1>> /\ at[k][1] \in K /\ t[k] = s[at[k][1]]
    <2>1. at[k] \in Cells(ss, n) /\ t[k] = ss[at[k][1]][at[k][2]]
      BY <1>8 DEF IsOrigin, t
    <2>2. at[k] = <<at[k][1], at[k][2]>> /\ at[k][1] \in 1..n /\ at[k][2] \in DOMAIN ss[at[k][1]]
      BY <2>1, CellIsPair
    <2>3. at[k][1] \in K /\ at[k][2] = 1
      BY <1>4, <2>2
    <2> QED BY <1>4, <2>1, <2>2, <2>3
  <1>10. \A k, l \in DOMAIN t : at[k] = at[l] => k = l
    BY <1>8 DEF IsOrigin, t
  <1>11. ASSUME NEW k \in DOMAIN t, NEW l \in DOMAIN t, of[k] = of[l] PROVE k = l
    <2>1. at[k][1] = at[l][1]
      BY <1>11
    <2>2. at[k] = at[l]
      BY <1>9, <2>1
    <2> QED BY <1>10, <2>2
  <1>12. ASSUME NEW i \in K PROVE \E k \in DOMAIN t : of[k] = i
    <2>1. i \in 1..n /\ 1 \in DOMAIN ss[i]
      BY <1>1, <1>4
    <2>2. <<i, 1>> \in Cells(ss, n)
      BY <2>1, CellIsPair
    <2>3. PICK k \in DOMAIN t : at[k] = <<i, 1>>
      BY <2>2, <1>8 DEF IsOrigin, t
    <2> QED BY <2>3
  <1>13. IsSelection(of, s, t, K)
    BY <1>9, <1>11, <1>12 DEF IsSelection
  <1> QED BY <1>7, <1>13 DEF t

-----------------------------------------------------------------------------
(* Sorting.  R is the strict total order of the positions.                 *)

IsStrictOrder(R, n) ==
  /\ \A i \in 1..n : <<i, i>> \notin R
  /\ \A i, j \in 1..n : i # j => <<i, j>> \in R \/ <<j, i>> \in R
  /\ \A i, j, k \in 1..n : <<i, j>> \in R /\ <<j, k>> \in R => <<i, k>> \in R

Behind(R, n, i) == {j \in 1..n : <<j, i>> \in R}

LEMMA RanksArePlaces ==
  ASSUME NEW n \in Nat, NEW R, IsStrictOrder(R, n)
  PROVE  /\ \A i \in 1..n : Place(R, n, i) \in 1..n
         /\ \A i, j \in 1..n : <<i, j>> \in R => Place(R, n, i) < Place(R, n, j)
         /\ \A i, j \in 1..n : Place(R, n, i) = Place(R, n, j) => i = j
         /\ \A k \in 1..n : \E i \in 1..n : Place(R, n, i) = k
  <1>0. \A i : Place(R, n, i) = 1 + Cardinality(Behind(R, n, i))
    BY DEF Place, Behind
  <1>1. IsFiniteSet(1..n) /\ Cardinality(1..n) = n
    BY FS_Interval
  <1>2. ASSUME NEW i \in 1..n
        PROVE  /\ IsFiniteSet(Behind(R, n, i)) /\ Cardinality(Behind(R, n, i)) \in Nat
               /\ Place(R, n, i) = Cardinality(Behind(R, n, i) \cup {i})
    <2>1. Behind(R, n, i) \in SUBSET (1..n) /\ i \notin Behind(R, n, i)
      BY DEF Behind, IsStrictOrder
    <2>2. IsFiniteSet(Behind(R, n, i))
      BY <1>1, <2>1, FS_Subset
    <2>3. Cardinality(Behind(R, n, i)) \in Nat
      BY <2>2, FS_CardinalityType
    <2>4. Cardinality(Behind(R, n, i) \cup {i}) = Cardinality(Behind(R, n, i)) + 1
      BY <2>1, <2>2, FS_AddElement
    <2> QED BY <1>0, <2>2, <2>3, <2>4
  <1>3. ASSUME NEW i \in 1..n PROVE Place(R, n, i) \in 1..n
    <2>1. Behind(R, n, i) \cup {i} \in SUBSET (1..n)
      BY DEF Behind
    <2>2. Cardinality(Behind(R, n, i) \cup {i}) <= n
      BY <1>1, <2>1, FS_Subset
    <2> QED BY <1>0, <1>2, <2>2
  <1>4. ASSUME NEW i \in 1..n, NEW j \in 1..n, <<i, j>> \in R
        PROVE  Place(R, n, i) < Place(R, n, j)
    <2>1. Behind(R, n, i) \cup {i} \in SUBSET Behind(R, n, j)
      BY <1>4 DEF Behind, IsStrictOrder
    <2>2. Cardinality(Behind(R, n, i) \cup {i}) <= Cardinality(Behind(R, n, j))
      BY <1>2, <2>1, FS_Subset
    <2>3. Place(R, n, i) <= Cardinality(Behind(R, n, j)) /\ Place(R, n, i) \in Nat
      BY <1>2, <1>3, <2>2
    <2>4. Place(R, n, j) = 1 + Cardinality(Behind(R, n, j)) /\ Cardinality(Behind(R, n, j)) \in Nat
      BY <1>0, <1>2
    <2> QED BY <2>3, <2>4
  <1>5. ASSUME NEW i \in 1..n, NEW j \in 1..n, Place(R, n, i) = Place(R, n, j)
        PROVE  i = j
    <2>1. ~(Place(R, n, i) < Place(R, n, j)) /\ ~(Place(R, n, j) < Place(R, n, i))
      BY <1>3, <1>5
    <2> QED BY <1>4, <2>1 DEF IsStrictOrder
  <1>6. ASSUME NEW k \in 1..n PROVE \E i \in 1..n : Place(R, n, i) = k
    <2> DEFINE rank == [i \in 1..n |-> Place(R, n, i)]
    <2>1. rank \in Injection(1..n, 1..n)
      BY <1>3, <1>5 DEF Injection, IsInjective
    <2>2. rank \in Surjection(1..n, 1..n)
      <3> HIDE DEF rank
      <3> QED BY <1>1, <2>1, FS_Injection
    <2> QED BY <2>2 DEF Surjection
  <1> QED BY <1>3, <1>4, <1>5, <1>6

LEMMA ArrangedPermutes ==
  ASSUME NEW S, NEW s \in Seq(S), NEW R, IsStrictOrder(R, Len(s))
  PROVE  /\ Arranged(s, R) \in Seq(S) /\ Len(Arranged(s, R)) = Len(s)
         /\ \E of : /\ IsSelection(of, s, Arranged(s, R), DOMAIN s)
                    /\ \A k, l \in DOMAIN s : k < l => <<of[k], of[l]>> \in R
  <1> DEFINE n == Len(s)
  <1> DEFINE t == Arranged(s, R)
  <1> DEFINE of == [k \in 1..n |-> CHOOSE i \in 1..n : Place(R, n, i) = k]
  <1>1. n \in Nat /\ DOMAIN s = 1..n /\ \A i \in 1..n : s[i] \in S
    OBVIOUS
  <1> HIDE DEF n
  <1>2. ASSUME NEW k \in 1..n PROVE of[k] \in 1..n /\ Place(R, n, of[k]) = k
    <2>1. \E i \in 1..n : Place(R, n, i) = k
      BY <1>1, RanksArePlaces DEF n
    <2> QED BY <2>1
  <1>3. t = [k \in 1..n |-> s[of[k]]]
    BY <1>1 DEF Arranged, n
  <1> HIDE DEF of, t
  <1>4. DOMAIN t = 1..n /\ \A k \in 1..n : t[k] = s[of[k]]
    BY <1>3
  <1>5. \A i, j \in 1..n : Place(R, n, i) = Place(R, n, j) => i = j
    BY <1>1, RanksArePlaces DEF n
  <1>6. ASSUME NEW k \in 1..n, NEW l \in 1..n, of[k] = of[l] PROVE k = l
    BY <1>2, <1>6
  <1>7. ASSUME NEW i \in 1..n PROVE \E k \in 1..n : of[k] = i
    <2>1. Place(R, n, i) \in 1..n
      BY <1>1, RanksArePlaces DEF n
    <2>2. Place(R, n, of[Place(R, n, i)]) = Place(R, n, i)
      BY <1>2, <2>1
    <2> QED BY <1>2, <1>5, <2>1, <2>2
  <1>8. IsSelection(of, s, t, 1..n)
    <2>1. of \in [1..n -> 1..n]
      BY <1>2 DEF of
    <2> QED BY <1>4, <1>6, <1>7, <2>1 DEF IsSelection
  <1>9. ASSUME NEW k \in 1..n, NEW l \in 1..n, k < l PROVE <<of[k], of[l]>> \in R
    <2>1. of[k] # of[l]
      BY <1>2, <1>9
    <2>2. CASE <<of[l], of[k]>> \in R
      <3>1. Place(R, n, of[l]) < Place(R, n, of[k])
        BY <1>1, <1>2, <2>2, RanksArePlaces DEF n
      <3>2. l < k
        BY <1>2, <3>1
      <3> QED BY <1>9, <3>2
    <2> QED BY <1>2, <2>1, <2>2 DEF IsStrictOrder, n
  <1>10. t \in Seq(S) /\ Len(t) = n
    <2>1. \A k \in DOMAIN t : t[k] \in S
      BY <1>1, <1>2, <1>4
    <2>2. t = [k \in DOMAIN t |-> t[k]]
      BY <1>3
    <2> QED BY <1>1, <1>4, <2>1, <2>2, SequenceOf
  <1> QED BY <1>1, <1>8, <1>9, <1>10 DEF t, n

-----------------------------------------------------------------------------
(* The order of words and of sequences of words.                           *)

LEMMA PositionFacts ==
  /\ \A w \in Word : Position(w) \in Nat /\ Position(w) > 0
  /\ \A v, w \in Word : Position(v) = Position(w) => v = w
  <1>1. ASSUME NEW w \in Word PROVE Position(w) \in DOMAIN Alphabet /\ Alphabet[Position(w)] = w
    <2>1. \E i \in DOMAIN Alphabet : Alphabet[i] = w
      BY DEF Word, ToSet
    <2> QED BY <2>1 DEF Position
  <1>2. DOMAIN Alphabet = 1..Len(Alphabet) /\ Len(Alphabet) \in Nat
    BY AlphabetIsOrdered
  <1> QED BY <1>1, <1>2

(* The rank of the i-th word, 0 behind the last.                           *)
RankAt(p, i) == IF i \in DOMAIN p THEN Position(p[i]) ELSE 0

LEMMA RankAtFacts ==
  ASSUME NEW p \in Seq(Word), NEW q \in Seq(Word), NEW i \in Nat \ {0}
  PROVE  /\ RankAt(p, i) \in Nat
         /\ i \in DOMAIN p => RankAt(p, i) = Position(p[i]) /\ RankAt(p, i) > 0
         /\ i \notin DOMAIN p => RankAt(p, i) = 0
         /\ RankAt(p, i) = RankAt(q, i) =>
              /\ i \in DOMAIN p <=> i \in DOMAIN q
              /\ i \in DOMAIN p => p[i] = q[i]
  <1>1. \A s \in {p, q} : /\ i \in DOMAIN s => s[i] \in Word
    OBVIOUS
  <1>2. \A s \in {p, q} : i \in DOMAIN s =>
          RankAt(s, i) = Position(s[i]) /\ RankAt(s, i) \in Nat /\ RankAt(s, i) > 0
    BY <1>1, PositionFacts DEF RankAt
  <1>3. \A s \in {p, q} : i \notin DOMAIN s => RankAt(s, i) = 0
    BY DEF RankAt
  <1> QED BY <1>1, <1>2, <1>3, PositionFacts

FirstApart(p, q, i) ==
  /\ \A j \in 1..(i - 1) : RankAt(p, j) = RankAt(q, j)
  /\ RankAt(p, i) < RankAt(q, i)

LEMMA LeastFacts ==
  ASSUME NEW S \in SUBSET Nat, S # {}
  PROVE  Least(S) \in S /\ \A m \in S : Least(S) <= m
  BY LeastIndex DEF Least

LEMMA LessThanFirstApart ==
  ASSUME NEW p \in Seq(Word), NEW q \in Seq(Word)
  PROVE  LessThan(p, q) <=> \E i \in Nat \ {0} : FirstApart(p, q, i)
  <1> DEFINE apart == {i \in DOMAIN p \cap DOMAIN q : p[i] # q[i]}
  <1>1. /\ DOMAIN p = 1..Len(p) /\ Len(p) \in Nat /\ DOMAIN q = 1..Len(q) /\ Len(q) \in Nat
    OBVIOUS
  <1>2. apart \in SUBSET Nat
    BY <1>1
  <1>3. LessThan(p, q) <=> IF apart = {} THEN Len(p) < Len(q)
                           ELSE Position(p[Least(apart)]) < Position(q[Least(apart)])
    BY DEF LessThan
  <1>4. ASSUME LessThan(p, q) PROVE \E i \in Nat \ {0} : FirstApart(p, q, i)
    <2>1. CASE apart = {}
      <3>1. Len(p) < Len(q)
        BY <1>3, <1>4, <2>1
      <3>2. RankAt(p, Len(p) + 1) < RankAt(q, Len(p) + 1)
        <4>1. Len(p) + 1 \in Nat \ {0} /\ Len(p) + 1 \notin DOMAIN p /\ Len(p) + 1 \in DOMAIN q
          BY <1>1, <3>1
        <4> QED BY <4>1, RankAtFacts
      <3>3. ASSUME NEW j \in 1..(Len(p) + 1 - 1) PROVE RankAt(p, j) = RankAt(q, j)
        <4>1. j \in DOMAIN p /\ j \in DOMAIN q
          BY <1>1, <3>1
        <4>2. p[j] = q[j]
          BY <2>1, <4>1
        <4> QED BY <4>1, <4>2 DEF RankAt
      <3>4. FirstApart(p, q, Len(p) + 1)
        BY <3>2, <3>3 DEF FirstApart
      <3>5. Len(p) + 1 \in Nat \ {0}
        BY <1>1
      <3> QED BY <3>4, <3>5
    <2>2. CASE apart # {}
      <3> DEFINE i == Least(apart)
      <3>1. i \in apart /\ \A m \in apart : i <= m
        <4> HIDE DEF apart
        <4> QED BY <1>2, <2>2, LeastFacts
      <3>2. Position(p[i]) < Position(q[i])
        BY <1>3, <1>4, <2>2
      <3> HIDE DEF i
      <3>3. i \in DOMAIN p /\ i \in DOMAIN q /\ i \in Nat \ {0}
        BY <1>1, <3>1
      <3>4. ASSUME NEW j \in 1..(i - 1) PROVE RankAt(p, j) = RankAt(q, j)
        <4>1. j \in DOMAIN p /\ j \in DOMAIN q /\ ~(i <= j)
          BY <1>1, <3>3
        <4>2. j \notin apart
          BY <3>1, <4>1
        <4>3. p[j] = q[j]
          BY <4>1, <4>2
        <4> QED BY <4>1, <4>3 DEF RankAt
      <3>5. RankAt(p, i) < RankAt(q, i)
        BY <3>2, <3>3 DEF RankAt
      <3> QED BY <3>3, <3>4, <3>5 DEF FirstApart
    <2> QED BY <2>1, <2>2
  <1>5. ASSUME NEW i \in Nat \ {0}, FirstApart(p, q, i) PROVE LessThan(p, q)
    <2>1. RankAt(p, i) < RankAt(q, i) /\ RankAt(p, i) \in Nat /\ RankAt(q, i) \in Nat
      BY <1>5, RankAtFacts DEF FirstApart
    <2>2. i \in DOMAIN q
      <3>1. RankAt(q, i) # 0
        BY <2>1
      <3> QED BY <3>1 DEF RankAt
    <2>3. ASSUME NEW j \in 1..(i - 1)
          PROVE  j \in DOMAIN p /\ j \in DOMAIN q /\ p[j] = q[j]
      <3>1. j \in Nat \ {0} /\ j \in DOMAIN q
        BY <1>1, <2>2
      <3>2. RankAt(p, j) = RankAt(q, j)
        BY <1>5 DEF FirstApart
      <3> QED BY <3>1, <3>2, RankAtFacts
    <2>4. CASE i \in DOMAIN p
      <3>1. RankAt(p, i) = Position(p[i]) /\ RankAt(q, i) = Position(q[i])
        BY <2>2, <2>4 DEF RankAt
      <3>2. p[i] # q[i]
        BY <2>1, <3>1
      <3>3. i \in apart
        BY <2>2, <2>4, <3>2
      <3>4. \A m \in apart : i <= m
        <4> SUFFICES ASSUME NEW m \in apart, ~(i <= m) PROVE FALSE
          OBVIOUS
        <4>1. m \in DOMAIN p /\ m \in DOMAIN q /\ p[m] # q[m]
          OBVIOUS
        <4>2. m \in 1..(i - 1)
          BY <1>1, <4>1
        <4> QED BY <2>3, <4>1, <4>2
      <3>5. apart # {} /\ Least(apart) \in apart /\ Least(apart) <= i
        <4> HIDE DEF apart
        <4> QED BY <1>2, <3>3, LeastFacts
      <3>6. Least(apart) = i
        <4>1. i <= Least(apart) /\ Least(apart) \in Nat
          <5> HIDE DEF apart
          <5> QED BY <1>2, <3>4, <3>5
        <4> HIDE DEF apart
        <4> QED BY <3>5, <4>1
      <3> HIDE DEF apart
      <3> QED BY <1>3, <2>1, <3>1, <3>5, <3>6
    <2>5. CASE i \notin DOMAIN p
      <3>1. Len(p) = i - 1 /\ Len(p) < Len(q)
        <4>1. Len(p) < i /\ i <= Len(q)
          BY <1>1, <2>2, <2>5
        <4>2. CASE i = 1
          BY <1>1, <4>1, <4>2
        <4>3. CASE i # 1
          <5>1. i - 1 \in DOMAIN p
            BY <2>3, <4>3
          <5> QED BY <1>1, <4>1, <5>1
        <4> QED BY <4>2, <4>3
      <3>2. apart = {}
        <4> SUFFICES ASSUME NEW m \in apart PROVE FALSE
          OBVIOUS
        <4>1. m \in DOMAIN p /\ m \in DOMAIN q /\ p[m] # q[m]
          OBVIOUS
        <4>2. m \in 1..(i - 1)
          BY <1>1, <3>1, <4>1
        <4> QED BY <2>3, <4>1, <4>2
      <3> QED BY <1>3, <3>1, <3>2
    <2> QED BY <2>4, <2>5
  <1> QED BY <1>4, <1>5

(* Sequences of words are totally ordered.                                 *)
LEMMA LessThanTransitive ==
  ASSUME NEW p \in Seq(Word), NEW q \in Seq(Word), NEW r \in Seq(Word),
         LessThan(p, q), LessThan(q, r)
  PROVE  LessThan(p, r)
  <1>1. PICK i \in Nat \ {0} : FirstApart(p, q, i)
    BY LessThanFirstApart
  <1>2. PICK k \in Nat \ {0} : FirstApart(q, r, k)
    BY LessThanFirstApart
  <1>3. \A j \in Nat \ {0} : RankAt(p, j) \in Nat /\ RankAt(q, j) \in Nat /\ RankAt(r, j) \in Nat
    BY RankAtFacts
  <1>4. CASE i <= k
    <2>1. RankAt(p, i) < RankAt(r, i)
      <3>1. RankAt(p, i) < RankAt(q, i)
        BY <1>1 DEF FirstApart
      <3>2. RankAt(q, i) <= RankAt(r, i)
        <4>1. CASE i = k
          BY <1>2, <1>3, <4>1 DEF FirstApart
        <4>2. CASE i # k
          <5>1. i \in 1..(k - 1)
            BY <1>4, <4>2
          <5> QED BY <1>2, <1>3, <5>1 DEF FirstApart
        <4> QED BY <4>1, <4>2
      <3> QED BY <1>3, <3>1, <3>2
    <2>2. \A j \in 1..(i - 1) : RankAt(p, j) = RankAt(r, j)
      BY <1>1, <1>2, <1>4 DEF FirstApart
    <2>3. FirstApart(p, r, i)
      BY <2>1, <2>2 DEF FirstApart
    <2> QED BY <2>3, LessThanFirstApart
  <1>5. CASE k < i
    <2>1. RankAt(p, k) < RankAt(r, k)
      <3>1. k \in 1..(i - 1)
        BY <1>5
      <3> QED BY <3>1, <1>1, <1>2, <1>3 DEF FirstApart
    <2>2. \A j \in 1..(k - 1) : RankAt(p, j) = RankAt(r, j)
      <3>1. \A j \in 1..(k - 1) : j \in 1..(i - 1)
        BY <1>5
      <3> QED BY <3>1, <1>1, <1>2 DEF FirstApart
    <2>3. FirstApart(p, r, k)
      BY <2>1, <2>2 DEF FirstApart
    <2> QED BY <2>3, LessThanFirstApart
  <1> QED BY <1>4, <1>5

LEMMA LessThanTotal ==
  ASSUME NEW p \in Seq(Word), NEW q \in Seq(Word)
  PROVE  /\ p = q => ~LessThan(p, q)
         /\ p # q => (LessThan(p, q) <=> ~LessThan(q, p))
  <1>1. \A j \in Nat \ {0} : RankAt(p, j) \in Nat /\ RankAt(q, j) \in Nat
    BY RankAtFacts
  <1>2. ASSUME LessThan(p, q), p = q PROVE FALSE
    <2>1. PICK i \in Nat \ {0} : FirstApart(p, p, i)
      BY <1>2, LessThanFirstApart
    <2> QED BY <1>1, <2>1 DEF FirstApart
  <1>3. ASSUME LessThan(p, q), LessThan(q, p) PROVE FALSE
    BY <1>2, <1>3, LessThanTransitive, LessThanFirstApart, <1>1 DEF FirstApart
  <1>4. ASSUME p # q PROVE LessThan(p, q) \/ LessThan(q, p)
    <2> DEFINE differ == {i \in Nat \ {0} : RankAt(p, i) # RankAt(q, i)}
    <2>1. differ # {}
      <3> SUFFICES ASSUME differ = {} PROVE p = q
        BY <1>4
      <3>1. \A i \in Nat \ {0} : RankAt(p, i) = RankAt(q, i)
        OBVIOUS
      <3>2. \A i \in Nat \ {0} : /\ i \in DOMAIN p <=> i \in DOMAIN q
                                 /\ i \in DOMAIN p => p[i] = q[i]
        BY <3>1, RankAtFacts
      <3>3. DOMAIN p \subseteq Nat \ {0} /\ DOMAIN q \subseteq Nat \ {0}
        OBVIOUS
      <3>4. DOMAIN p = DOMAIN q /\ \A i \in DOMAIN p : p[i] = q[i]
        BY <3>2, <3>3
      <3>5. p = [i \in DOMAIN p |-> p[i]] /\ q = [i \in DOMAIN q |-> q[i]]
        OBVIOUS
      <3> QED BY <3>4, <3>5
    <2>2. differ \in SUBSET Nat
      OBVIOUS
    <2>3. PICK i \in differ : \A j \in differ : i <= j
      <3> HIDE DEF differ
      <3> QED BY <2>1, <2>2, LeastIndex
    <2>4. i \in Nat \ {0} /\ RankAt(p, i) # RankAt(q, i)
      OBVIOUS
    <2>5. ASSUME NEW j \in 1..(i - 1) PROVE RankAt(p, j) = RankAt(q, j)
      <3>1. j \in Nat \ {0} /\ ~(i <= j)
        BY <2>4
      <3> QED BY <2>3, <3>1
    <2>6. RankAt(p, i) < RankAt(q, i) \/ RankAt(q, i) < RankAt(p, i)
      BY <1>1, <2>4
    <2>7. FirstApart(p, q, i) \/ FirstApart(q, p, i)
      BY <2>5, <2>6 DEF FirstApart
    <2> QED BY <2>4, <2>7, LessThanFirstApart
  <1> QED BY <1>2, <1>3, <1>4

-----------------------------------------------------------------------------
(* Entities.                                                               *)


EntityRecord ==
  [name : Seq(Word), dir : Seq(Word), file : Seq(Word), line : Nat,
   inherits : Seq(Seq(STRING)), fields : Seq(STRING), methods : Seq(STRING)]

LEMMA TruncatedFacts ==
  ASSUME NEW S, NEW s \in Seq(S), NEW n \in Nat
  PROVE  /\ Truncated(s, n) \in Seq(S) /\ Len(Truncated(s, n)) <= n
         /\ Len(Truncated(s, n)) <= Len(s)
         /\ \A i \in DOMAIN Truncated(s, n) : i \in DOMAIN s /\ Truncated(s, n)[i] = s[i]
  <1>1. CASE Len(s) <= n
    BY <1>1 DEF Truncated
  <1>2. CASE ~(Len(s) <= n)
    <2>1. Truncated(s, n) = SubSeq(s, 1, n) /\ n \in Nat /\ n < Len(s)
      BY <1>2 DEF Truncated
    <2>2. /\ SubSeq(s, 1, n) \in Seq(S) /\ Len(SubSeq(s, 1, n)) = n
          /\ \A i \in 1..n : SubSeq(s, 1, n)[i] = s[i]
      BY <2>1
    <2> QED BY <2>1, <2>2
  <1> QED BY <1>1, <1>2

LEMMA SourceFileFields ==
  ASSUME NEW f \in SourceFile
  PROVE  /\ f.dir \in Seq(Word) /\ f.base \in Word
         /\ f.types \in Seq(TypeSpec) /\ f.methods \in Seq(MethodDeclaration)
         /\ f.consts \in Seq(Seq(ConstSpec)) /\ f.classes \in Seq(ClassDefinition)
         /\ File(f) \in Seq(Word)
  <1> HIDE DEF Word, TypeSpec, MethodDeclaration, ConstSpec, ClassDefinition
  <1>1. /\ f.dir \in Seq(Word) /\ f.base \in Word
        /\ f.types \in Seq(TypeSpec) /\ f.methods \in Seq(MethodDeclaration)
        /\ f.consts \in Seq(Seq(ConstSpec)) /\ f.classes \in Seq(ClassDefinition)
    BY DEF SourceFile
  <1>2. File(f) \in Seq(Word)
    BY <1>1 DEF File
  <1> QED BY <1>1, <1>2

(* The files that parse are some of the files, each once.                  *)
LEMMA ParsedFacts ==
  ASSUME NEW u \in Units
  PROVE  /\ Parsed(u) \in Seq(SourceFile)
         /\ \A i, j \in DOMAIN Parsed(u) : File(Parsed(u)[i]) = File(Parsed(u)[j]) => i = j
         /\ \A i \in DOMAIN Parsed(u) : Parsed(u)[i] \in ToSet(u.files)
  <1> DEFINE K == {i \in DOMAIN u.files : u.files[i].parses}
  <1>1. u.files \in Seq(SourceFile)
    BY UnitsAreSources
  <1>2. Parsed(u) = Picked(u.files, K)
    BY DEF Parsed, Kept, Picked
  <1>3. K \in SUBSET DOMAIN u.files
    OBVIOUS
  <1> HIDE DEF K
  <1>4. Parsed(u) \in Seq(SourceFile)
    BY <1>1, <1>2, <1>3, PickedSelection
  <1>5. PICK of : IsSelection(of, u.files, Parsed(u), K)
    BY <1>1, <1>2, <1>3, PickedSelection
  <1>6. \A i \in DOMAIN Parsed(u) : of[i] \in DOMAIN u.files /\ Parsed(u)[i] = u.files[of[i]]
    BY <1>3, <1>5 DEF IsSelection
  <1>7. ASSUME NEW i \in DOMAIN Parsed(u), NEW j \in DOMAIN Parsed(u),
               File(Parsed(u)[i]) = File(Parsed(u)[j])
        PROVE  i = j
    <2>1. File(u.files[of[i]]) = File(u.files[of[j]])
      BY <1>6, <1>7
    <2>2. of[i] = of[j]
      BY <1>6, <2>1, UnitsAreSources
    <2> QED BY <1>5, <2>2 DEF IsSelection
  <1>8. \A i \in DOMAIN Parsed(u) : Parsed(u)[i] \in ToSet(u.files)
    BY <1>6 DEF ToSet
  <1> QED BY <1>4, <1>7, <1>8

(* The methods of a file on a receiver.                                    *)
OwnMethods(f, dir, name) ==
  IF f.dir = dir THEN Picked(f.methods, {i \in DOMAIN f.methods : ReceiverText(f.methods[i]) = <<name>>})
  ELSE <<>>

LEMMA GoMethodsFlattened ==
  ASSUME NEW files \in Seq(SourceFile), NEW dir, NEW name
  PROVE  LET own == [i \in DOMAIN files |-> OwnMethods(files[i], dir, name)]
         IN  /\ own \in Seq(Seq(MethodDeclaration)) /\ Len(own) = Len(files)
             /\ GoMethods(files, dir, name) = Mapped(FlattenSeq(own), LAMBDA m : m.name)
  <1> DEFINE own == [i \in DOMAIN files |-> OwnMethods(files[i], dir, name)]
  <1>1. GoMethods(files, dir, name) = Mapped(FlattenSeq(own), LAMBDA m : m.name)
    <2>1. ASSUME NEW f
          PROVE  Kept(f.methods, LAMBDA m : ReceiverText(m) = <<name>>)
                   = Picked(f.methods, {i \in DOMAIN f.methods : ReceiverText(f.methods[i]) = <<name>>})
      BY DEF Kept, Picked
    <2>2. Gathered(files, LAMBDA f : IF f.dir = dir
                                     THEN Kept(f.methods, LAMBDA m : ReceiverText(m) = <<name>>) ELSE <<>>)
            = FlattenSeq(own)
      BY <2>1 DEF Gathered, OwnMethods
    <2> QED BY <2>2 DEF GoMethods
  <1>2. ASSUME NEW i \in DOMAIN own PROVE own[i] \in Seq(MethodDeclaration)
    <2>1. files[i] \in SourceFile
      OBVIOUS
    <2>2. files[i].methods \in Seq(MethodDeclaration)
      BY <2>1, SourceFileFields
    <2>3. Picked(files[i].methods,
                 {k \in DOMAIN files[i].methods : ReceiverText(files[i].methods[k]) = <<name>>})
            \in Seq(MethodDeclaration)
      BY <2>2, PickedSelection
    <2>4. <<>> \in Seq(MethodDeclaration)
      OBVIOUS
    <2> HIDE DEF MethodDeclaration
    <2> QED BY <2>3, <2>4 DEF OwnMethods
  <1>3. DOMAIN own = 1..Len(files) /\ Len(files) \in Nat /\ own = [i \in DOMAIN own |-> own[i]]
    OBVIOUS
  <1> HIDE DEF own
  <1>4. own \in Seq(Seq(MethodDeclaration)) /\ Len(own) = Len(files)
    BY <1>2, <1>3, SequenceOf
  <1> QED BY <1>1, <1>4 DEF own

LEMMA GoMethodsTyped ==
  ASSUME NEW files \in Seq(SourceFile), NEW dir, NEW name
  PROVE  GoMethods(files, dir, name) \in Seq(STRING)
  <1>1. PICK own \in Seq(Seq(MethodDeclaration)) :
          GoMethods(files, dir, name) = Mapped(FlattenSeq(own), LAMBDA m : m.name)
    BY GoMethodsFlattened
  <1>2. FlattenSeq(own) \in Seq(MethodDeclaration)
    BY FlattenedOrigin
  <1> DEFINE flat == FlattenSeq(own)
  <1> DEFINE names == [i \in DOMAIN flat |-> flat[i].name]
  <1>3. GoMethods(files, dir, name) = names
    BY <1>1 DEF Mapped
  <1> HIDE DEF flat
  <1>4. DOMAIN names = 1..Len(flat) /\ Len(flat) \in Nat /\ names = [i \in DOMAIN names |-> names[i]]
    BY <1>2 DEF flat
  <1>5. ASSUME NEW i \in DOMAIN names PROVE names[i] \in STRING
    <2>1. flat[i] \in MethodDeclaration
      BY <1>2 DEF flat
    <2> QED BY <2>1 DEF MethodDeclaration
  <1> HIDE DEF names
  <1>6. names \in Seq(STRING)
    BY <1>4, <1>5, SequenceOf
  <1> QED BY <1>3, <1>6

LEMMA GoEntityTyped ==
  ASSUME NEW files \in Seq(SourceFile), NEW f \in SourceFile, NEW t \in TypeSpec
  PROVE  GoEntity(files, f, t) \in EntityRecord
  <1>1. f.dir \in Seq(Word) /\ File(f) \in Seq(Word)
    BY SourceFileFields
  <1>2. t.name \in Word /\ t.line \in Nat /\ t.fields \in Seq(STRING)
    BY DEF TypeSpec
  <1>3. Truncated(t.fields, MaxFields) \in Seq(STRING)
    BY <1>2, TruncatedFacts DEF MaxFields
  <1>4. Truncated(GoMethods(files, f.dir, t.name), MaxMethods) \in Seq(STRING)
    BY GoMethodsTyped, TruncatedFacts DEF MaxMethods
  <1>5. <<t.name>> \in Seq(Word) /\ <<>> \in Seq(Seq(STRING))
    BY <1>2
  <1> QED BY <1>1, <1>2, <1>3, <1>4, <1>5 DEF GoEntity, EntityRecord

LEMMA PythonEntityTyped ==
  ASSUME NEW f \in SourceFile, NEW c \in ClassDefinition
  PROVE  PythonEntity(f, c) \in EntityRecord
  <1>1. f.dir \in Seq(Word) /\ File(f) \in Seq(Word)
    BY SourceFileFields
  <1>2. /\ c.name \in Word /\ c.line \in Nat /\ c.bases \in Seq(Seq(STRING))
        /\ c.fields \in Seq(STRING) /\ c.methods \in Seq(STRING)
    BY DEF ClassDefinition
  <1>3. Truncated(c.fields, MaxFields) \in Seq(STRING)
    BY <1>2, TruncatedFacts DEF MaxFields
  <1>4. Truncated(c.methods, MaxMethods) \in Seq(STRING)
    BY <1>2, TruncatedFacts DEF MaxMethods
  <1>5. <<c.name>> \in Seq(Word)
    BY <1>2
  <1> QED BY <1>1, <1>2, <1>3, <1>4, <1>5 DEF PythonEntity, EntityRecord

(* What a file reports: one entity for each of some of its declarations.   *)
IsReportOf(of, reported, declared) ==
  /\ of \in [DOMAIN reported -> DOMAIN declared]
  /\ \A k, l \in DOMAIN reported : of[k] = of[l] => k = l

LEMMA GoEntitiesReported ==
  ASSUME NEW files \in Seq(SourceFile), NEW f \in SourceFile
  PROVE  /\ GoEntitiesOf(files, f) \in Seq(EntityRecord)
         /\ \E of : /\ IsReportOf(of, GoEntitiesOf(files, f), f.types)
                    /\ \A k \in DOMAIN GoEntitiesOf(files, f) :
                         GoEntitiesOf(files, f)[k] = GoEntity(files, f, f.types[of[k]])
  <1> DEFINE K == {i \in DOMAIN f.types : f.types[i].exported /\ f.types[i].struct}
  <1> DEFINE structs == Picked(f.types, K)
  <1> DEFINE made == [i \in DOMAIN structs |-> GoEntity(files, f, structs[i])]
  <1> DEFINE L == {i \in DOMAIN made : made[i].methods # <<>> \/ Len(made[i].fields) >= 2}
  <1>1. Kept(f.types, LAMBDA t : t.exported /\ t.struct) = structs
    BY DEF Kept, Picked
  <1>2. Mapped(structs, LAMBDA t : GoEntity(files, f, t)) = made
    BY DEF Mapped
  <1>3. Kept(made, LAMBDA e : e.methods # <<>> \/ Len(e.fields) >= 2) = Picked(made, L)
    <2> HIDE DEF made
    <2> QED BY DEF Kept, Picked
  <1>4. GoEntitiesOf(files, f) = Picked(made, L)
    <2> HIDE DEF structs, made, L
    <2> QED BY <1>1, <1>2, <1>3 DEF GoEntitiesOf
  <1>5. f.types \in Seq(TypeSpec) /\ K \in SUBSET DOMAIN f.types
    BY SourceFileFields
  <1> HIDE DEF K
  <1>6. structs \in Seq(TypeSpec) /\ \E of : IsSelection(of, f.types, structs, K)
    BY <1>5, PickedSelection
  <1> HIDE DEF structs
  <1>7. PICK first : IsSelection(first, f.types, structs, K)
    BY <1>6
  <1>8. made \in Seq(EntityRecord) /\ DOMAIN made = DOMAIN structs
    <2>1. DOMAIN made = 1..Len(structs) /\ Len(structs) \in Nat /\ DOMAIN structs = 1..Len(structs)
      BY <1>6
    <2>2. ASSUME NEW i \in DOMAIN made PROVE made[i] \in EntityRecord
      <3>1. structs[i] \in TypeSpec
        BY <1>6
      <3> QED BY <3>1, GoEntityTyped
    <2>3. made = [i \in DOMAIN made |-> made[i]]
      OBVIOUS
    <2> HIDE DEF made
    <2> QED BY <2>1, <2>2, <2>3, SequenceOf
  <1>9. \A i \in DOMAIN structs : made[i] = GoEntity(files, f, structs[i])
    OBVIOUS
  <1>10. L \in SUBSET DOMAIN made
    OBVIOUS
  <1> HIDE DEF made, L
  <1> DEFINE t == Picked(made, L)
  <1>11. t \in Seq(EntityRecord) /\ \E of : IsSelection(of, made, t, L)
    BY <1>8, <1>10, PickedSelection
  <1>12. PICK second : IsSelection(second, made, t, L)
    BY <1>11
  <1> HIDE DEF t
  <1> DEFINE of == [k \in DOMAIN t |-> first[second[k]]]
  <1>13. \A k \in DOMAIN t : second[k] \in DOMAIN structs /\ t[k] = made[second[k]]
    BY <1>8, <1>10, <1>12 DEF IsSelection
  <1>14. \A i \in DOMAIN structs : first[i] \in DOMAIN f.types /\ structs[i] = f.types[first[i]]
    BY <1>5, <1>7 DEF IsSelection
  <1>15. \A k \in DOMAIN t : of[k] \in DOMAIN f.types /\ t[k] = GoEntity(files, f, f.types[of[k]])
    BY <1>9, <1>13, <1>14
  <1>16. ASSUME NEW k \in DOMAIN t, NEW l \in DOMAIN t, of[k] = of[l] PROVE k = l
    <2>1. second[k] = second[l]
      BY <1>7, <1>13, <1>16 DEF IsSelection
    <2> QED BY <1>12, <2>1 DEF IsSelection
  <1>17. IsReportOf(of, t, f.types)
    BY <1>15, <1>16 DEF IsReportOf
  <1> HIDE DEF of
  <1> QED BY <1>4, <1>11, <1>15, <1>17 DEF t

LEMMA PythonEntitiesReported ==
  ASSUME NEW f \in SourceFile
  PROVE  /\ PythonEntitiesOf(f) \in Seq(EntityRecord)
         /\ \E of : /\ IsReportOf(of, PythonEntitiesOf(f), f.classes)
                    /\ \A k \in DOMAIN PythonEntitiesOf(f) :
                         PythonEntitiesOf(f)[k] = PythonEntity(f, f.classes[of[k]])
  <1> DEFINE reported(c) == /\ ~c.private
                            /\ ~SpelledAsEnum(c)
                            /\ Len(c.methods) >= 2 \/ c.bases # <<>>
  <1> DEFINE K == {i \in DOMAIN f.classes : reported(f.classes[i])}
  <1> DEFINE kept == Picked(f.classes, K)
  <1> DEFINE t == [i \in DOMAIN kept |-> PythonEntity(f, kept[i])]
  <1>1. Kept(f.classes, reported) = kept
    BY DEF Kept, Picked
  <1>2. PythonEntitiesOf(f) = t
    <2>1. PythonEntitiesOf(f) = Mapped(Kept(f.classes, reported), LAMBDA c : PythonEntity(f, c))
      BY DEF PythonEntitiesOf
    <2>2. Mapped(kept, LAMBDA c : PythonEntity(f, c)) = t
      BY DEF Mapped
    <2> HIDE DEF kept, t, reported
    <2> QED BY <1>1, <2>1, <2>2
  <1>3. f.classes \in Seq(ClassDefinition) /\ K \in SUBSET DOMAIN f.classes
    BY SourceFileFields
  <1> HIDE DEF K
  <1>4. kept \in Seq(ClassDefinition) /\ \E of : IsSelection(of, f.classes, kept, K)
    BY <1>3, PickedSelection
  <1> HIDE DEF kept
  <1>5. PICK of : IsSelection(of, f.classes, kept, K)
    BY <1>4
  <1>6. DOMAIN t = DOMAIN kept /\ \A i \in DOMAIN kept : t[i] = PythonEntity(f, kept[i])
    OBVIOUS
  <1>7. t \in Seq(EntityRecord)
    <2>1. DOMAIN t = 1..Len(kept) /\ Len(kept) \in Nat
      BY <1>4
    <2>2. ASSUME NEW i \in DOMAIN t PROVE t[i] \in EntityRecord
      <3>1. kept[i] \in ClassDefinition
        BY <1>4
      <3> QED BY <3>1, PythonEntityTyped
    <2>3. t = [i \in DOMAIN t |-> t[i]]
      OBVIOUS
    <2> HIDE DEF t
    <2> QED BY <2>1, <2>2, <2>3, SequenceOf
  <1> HIDE DEF t
  <1>8. \A k \in DOMAIN t : of[k] \in DOMAIN f.classes /\ kept[k] = f.classes[of[k]]
    BY <1>3, <1>5, <1>6 DEF IsSelection
  <1>9. of \in [DOMAIN t -> DOMAIN f.classes] /\ \A k, l \in DOMAIN t : of[k] = of[l] => k = l
    BY <1>3, <1>5, <1>6 DEF IsSelection
  <1>10. \A k \in DOMAIN t : t[k] = PythonEntity(f, f.classes[of[k]])
    BY <1>6, <1>8
  <1>11. IsReportOf(of, t, f.classes)
    BY <1>9 DEF IsReportOf
  <1> QED BY <1>2, <1>7, <1>10, <1>11

(* Two entities of one name, from one line of one file.                    *)
SameAnchor(a, b) == a.name = b.name /\ a.file = b.file /\ a.line = b.line

LEMMA ReportsStandApart ==
  ASSUME NEW files, NEW ss \in Seq(Seq(EntityRecord)), DOMAIN ss = DOMAIN files,
         \A i, j \in DOMAIN files : File(files[i]) = File(files[j]) => i = j,
         \A i \in DOMAIN files : \A k \in DOMAIN ss[i] : ss[i][k].file = File(files[i]),
         \A i \in DOMAIN files : \A k, l \in DOMAIN ss[i] :
           ss[i][k].name = ss[i][l].name /\ ss[i][k].line = ss[i][l].line => k = l
  PROVE  /\ FlattenSeq(ss) \in Seq(EntityRecord)
         /\ \A k, l \in DOMAIN FlattenSeq(ss) :
              SameAnchor(FlattenSeq(ss)[k], FlattenSeq(ss)[l]) => k = l
  <1> DEFINE t == FlattenSeq(ss)
  <1>1. t \in Seq(EntityRecord) /\ \E at : IsOrigin(at, ss, t, Len(ss))
    BY FlattenedOrigin
  <1> HIDE DEF t
  <1>2. PICK at : IsOrigin(at, ss, t, Len(ss))
    BY <1>1
  <1>3. DOMAIN ss = 1..Len(ss)
    OBVIOUS
  <1>4. ASSUME NEW k \in DOMAIN t
        PROVE  /\ at[k] = <<at[k][1], at[k][2]>>
               /\ at[k][1] \in DOMAIN files /\ at[k][2] \in DOMAIN ss[at[k][1]]
               /\ t[k] = ss[at[k][1]][at[k][2]]
    <2>1. at[k] \in Cells(ss, Len(ss)) /\ t[k] = ss[at[k][1]][at[k][2]]
      BY <1>2 DEF IsOrigin
    <2> QED BY <1>3, <2>1, CellIsPair
  <1>5. ASSUME NEW k \in DOMAIN t, NEW l \in DOMAIN t, SameAnchor(t[k], t[l]) PROVE k = l
    <2>1. File(files[at[k][1]]) = File(files[at[l][1]])
      BY <1>4, <1>5 DEF SameAnchor
    <2>2. at[k][1] = at[l][1]
      BY <1>4, <2>1
    <2> DEFINE i == at[k][1]
    <2> DEFINE p == at[k][2]
    <2> DEFINE q == at[l][2]
    <2>3. /\ at[k] = <<i, p>> /\ at[l] = <<i, q>> /\ i \in DOMAIN files
          /\ p \in DOMAIN ss[i] /\ q \in DOMAIN ss[i] /\ t[k] = ss[i][p] /\ t[l] = ss[i][q]
      <3>1. at[k] = <<at[k][1], at[k][2]>> /\ at[l] = <<at[l][1], at[l][2]>>
        BY <1>4
      <3> QED BY <1>4, <2>2, <3>1
    <2> HIDE DEF i, p, q
    <2>5. p = q
      BY <1>5, <2>3 DEF SameAnchor
    <2>4. at[k] = at[l]
      BY <2>3, <2>5
    <2> QED BY <1>2, <2>4 DEF IsOrigin
  <1> QED BY <1>1, <1>5 DEF t

LEMMA RawEntitiesStandApart ==
  ASSUME NEW u \in Units
  PROVE  /\ RawEntities(u) \in Seq(EntityRecord)
         /\ \A k, l \in DOMAIN RawEntities(u) :
              SameAnchor(RawEntities(u)[k], RawEntities(u)[l]) => k = l
  <1> DEFINE files == Parsed(u)
  <1>1. /\ files \in Seq(SourceFile)
        /\ \A i, j \in DOMAIN files : File(files[i]) = File(files[j]) => i = j
        /\ \A i \in DOMAIN files : files[i] \in ToSet(u.files)
    BY ParsedFacts
  <1> HIDE DEF files
  <1>2. DOMAIN files = 1..Len(files) /\ Len(files) \in Nat /\ \A i \in DOMAIN files : files[i] \in SourceFile
    BY <1>1
  <1>3. CASE u.language = "go"
    <2> DEFINE ss == [i \in DOMAIN files |-> GoEntitiesOf(files, files[i])]
    <2>1. RawEntities(u) = FlattenSeq(ss)
      BY <1>3 DEF RawEntities, GoEntities, Gathered, files
    <2>2. ASSUME NEW i \in DOMAIN files
          PROVE  /\ ss[i] \in Seq(EntityRecord)
                 /\ \A k \in DOMAIN ss[i] : ss[i][k].file = File(files[i])
                 /\ \A k, l \in DOMAIN ss[i] :
                      ss[i][k].name = ss[i][l].name /\ ss[i][k].line = ss[i][l].line => k = l
      <3> DEFINE f == files[i]
      <3> DEFINE t == GoEntitiesOf(files, f)
      <3>1. ss[i] = t /\ f \in SourceFile
        BY <1>2
      <3>2. t \in Seq(EntityRecord)
        BY <1>1, <3>1, GoEntitiesReported
      <3>3. PICK of : /\ IsReportOf(of, t, f.types)
                      /\ \A k \in DOMAIN t : t[k] = GoEntity(files, f, f.types[of[k]])
        BY <1>1, <3>1, GoEntitiesReported
      <3> HIDE DEF t, ss
      <3>4. ASSUME NEW k \in DOMAIN t
            PROVE  /\ t[k].file = File(f) /\ t[k].name = <<f.types[of[k]].name>>
                   /\ t[k].line = f.types[of[k]].line /\ of[k] \in DOMAIN f.types
        BY <3>3 DEF GoEntity, IsReportOf
      <3>5. ASSUME NEW k \in DOMAIN t, NEW l \in DOMAIN t,
                   t[k].name = t[l].name, t[k].line = t[l].line
            PROVE  k = l
        <4>1. /\ f.types[of[k]].name = f.types[of[l]].name
              /\ f.types[of[k]].line = f.types[of[l]].line
          BY <3>4, <3>5
        <4>2. of[k] = of[l]
          <5> HIDE DEF f
          <5>1. f \in ToSet(u.files)
            BY <1>1 DEF f
          <5> QED BY <3>4, <4>1, <5>1, UnitsAreSources
        <4> QED BY <3>3, <4>2 DEF IsReportOf
      <3> QED BY <3>1, <3>2, <3>4, <3>5
    <2>3. ss \in Seq(Seq(EntityRecord)) /\ DOMAIN ss = DOMAIN files
      <3>1. DOMAIN ss = 1..Len(files) /\ ss = [i \in DOMAIN ss |-> ss[i]]
        BY <1>2
      <3> HIDE DEF ss
      <3> QED BY <1>2, <2>2, <3>1, SequenceOf
    <2> HIDE DEF ss
    <2> QED BY <1>1, <2>1, <2>2, <2>3, ReportsStandApart
  <1>4. CASE u.language # "go"
    <2> DEFINE ss == [i \in DOMAIN files |-> PythonEntitiesOf(files[i])]
    <2>1. RawEntities(u) = FlattenSeq(ss)
      BY <1>4 DEF RawEntities, PythonEntities, Gathered, files
    <2>2. ASSUME NEW i \in DOMAIN files
          PROVE  /\ ss[i] \in Seq(EntityRecord)
                 /\ \A k \in DOMAIN ss[i] : ss[i][k].file = File(files[i])
                 /\ \A k, l \in DOMAIN ss[i] :
                      ss[i][k].name = ss[i][l].name /\ ss[i][k].line = ss[i][l].line => k = l
      <3> DEFINE f == files[i]
      <3> DEFINE t == PythonEntitiesOf(f)
      <3>1. ss[i] = t /\ f \in SourceFile
        BY <1>2
      <3>2. t \in Seq(EntityRecord)
        BY <3>1, PythonEntitiesReported
      <3>3. PICK of : /\ IsReportOf(of, t, f.classes)
                      /\ \A k \in DOMAIN t : t[k] = PythonEntity(f, f.classes[of[k]])
        BY <3>1, PythonEntitiesReported
      <3> HIDE DEF t, ss
      <3>4. ASSUME NEW k \in DOMAIN t
            PROVE  /\ t[k].file = File(f) /\ t[k].name = <<f.classes[of[k]].name>>
                   /\ t[k].line = f.classes[of[k]].line /\ of[k] \in DOMAIN f.classes
        BY <3>3 DEF PythonEntity, IsReportOf
      <3>5. ASSUME NEW k \in DOMAIN t, NEW l \in DOMAIN t,
                   t[k].name = t[l].name, t[k].line = t[l].line
            PROVE  k = l
        <4>1. /\ f.classes[of[k]].name = f.classes[of[l]].name
              /\ f.classes[of[k]].line = f.classes[of[l]].line
          BY <3>4, <3>5
        <4>2. of[k] = of[l]
          <5> HIDE DEF f
          <5>1. f \in ToSet(u.files)
            BY <1>1 DEF f
          <5> QED BY <3>4, <4>1, <5>1, UnitsAreSources
        <4> QED BY <3>3, <4>2 DEF IsReportOf
      <3> QED BY <3>1, <3>2, <3>4, <3>5
    <2>3. ss \in Seq(Seq(EntityRecord)) /\ DOMAIN ss = DOMAIN files
      <3>1. DOMAIN ss = 1..Len(files) /\ ss = [i \in DOMAIN ss |-> ss[i]]
        BY <1>2
      <3> HIDE DEF ss
      <3> QED BY <1>2, <2>2, <3>1, SequenceOf
    <2> HIDE DEF ss
    <2> QED BY <1>1, <2>1, <2>2, <2>3, ReportsStandApart
  <1> QED BY <1>3, <1>4

LEMMA ImportanceIsNumber ==
  ASSUME NEW u \in Units, NEW e \in EntityRecord
  PROVE  Importance(u, e) \in Int
  <1>1. Inbound(Parsed(u), e.name[1]) \in Nat
    <2> DEFINE mentions == {i \in DOMAIN Parsed(u) : e.name[1] \in Parsed(u)[i].imports}
    <2>1. DOMAIN Parsed(u) = 1..Len(Parsed(u)) /\ Len(Parsed(u)) \in Nat
      BY ParsedFacts
    <2>2. IsFiniteSet(DOMAIN Parsed(u))
      BY <2>1, FS_Interval
    <2>3. mentions \in SUBSET DOMAIN Parsed(u)
      OBVIOUS
    <2>4. IsFiniteSet(mentions)
      BY <2>2, <2>3, FS_Subset
    <2>5. Cardinality(mentions) \in Nat
      BY <2>4, FS_CardinalityType
    <2> QED BY <2>5 DEF Inbound
  <1>2. Len(e.methods) \in Nat /\ Len(e.fields) \in Nat
    <2>1. e.methods \in Seq(STRING) /\ e.fields \in Seq(STRING)
      BY DEF EntityRecord
    <2> QED BY <2>1
  <1>3. /\ Weights.methodCount \in Int /\ Weights.fieldCount \in Int
        /\ Weights.inboundReferences \in Int
    BY WeightsAreNumbers
  <1> DEFINE inbound == Inbound(Parsed(u), e.name[1])
  <1> HIDE DEF inbound
  <1>4. \A x, y \in Int : x * y \in Int
    OBVIOUS
  <1>5. inbound \in Int
    BY <1>1 DEF inbound
  <1>6. /\ Weights.methodCount * Len(e.methods) \in Int
        /\ Weights.fieldCount * Len(e.fields) \in Int
        /\ Weights.inboundReferences * inbound \in Int
    BY <1>2, <1>3, <1>4, <1>5
  <1> QED BY <1>6 DEF Importance, inbound

LEMMA EntityBeforeFacts ==
  ASSUME NEW u \in Units, NEW a \in EntityRecord, NEW b \in EntityRecord
  PROVE  /\ ~EntityBefore(u, a, a)
         /\ ~SameAnchor(a, b) => (EntityBefore(u, a, b) <=> ~EntityBefore(u, b, a))
  <1>1. Importance(u, a) \in Int /\ Importance(u, b) \in Int
    BY ImportanceIsNumber
  <1>2. \A e \in {a, b} : e.name \in Seq(Word) /\ e.file \in Seq(Word) /\ e.line \in Nat
    BY DEF EntityRecord
  <1>3. /\ ~LessThan(a.name, a.name) /\ ~LessThan(a.file, a.file)
        /\ a.name # b.name => (LessThan(a.name, b.name) <=> ~LessThan(b.name, a.name))
        /\ a.file # b.file => (LessThan(a.file, b.file) <=> ~LessThan(b.file, a.file))
        /\ a.name = b.name => ~LessThan(a.name, b.name) /\ ~LessThan(b.name, a.name)
        /\ a.file = b.file => ~LessThan(a.file, b.file) /\ ~LessThan(b.file, a.file)
    BY <1>2, LessThanTotal
  <1> QED BY <1>1, <1>2, <1>3 DEF EntityBefore, SameAnchor

LEMMA EntityBeforeTransitive ==
  ASSUME NEW u \in Units, NEW a \in EntityRecord, NEW b \in EntityRecord, NEW c \in EntityRecord,
         EntityBefore(u, a, b), EntityBefore(u, b, c)
  PROVE  EntityBefore(u, a, c)
  <1>1. Importance(u, a) \in Int /\ Importance(u, b) \in Int /\ Importance(u, c) \in Int
    BY ImportanceIsNumber
  <1>2. \A e \in {a, b, c} : e.name \in Seq(Word) /\ e.file \in Seq(Word) /\ e.line \in Nat
    BY DEF EntityRecord
  <1>3. /\ LessThan(a.name, b.name) /\ LessThan(b.name, c.name) => LessThan(a.name, c.name)
        /\ LessThan(a.file, b.file) /\ LessThan(b.file, c.file) => LessThan(a.file, c.file)
    BY <1>2, LessThanTransitive
  <1> QED BY <1>1, <1>2, <1>3 DEF EntityBefore

EntityOrder(u, raw) ==
  {p \in (DOMAIN raw) \X (DOMAIN raw) :
     \/ EntityBefore(u, raw[p[1]], raw[p[2]])
     \/ p[1] < p[2] /\ ~EntityBefore(u, raw[p[2]], raw[p[1]])}

LEMMA RankedEntities ==
  ASSUME NEW u \in Units
  PROVE  /\ RankAndTrim(u, RawEntities(u)) \in Seq(EntityRecord)
         /\ Len(RankAndTrim(u, RawEntities(u))) <= TopN
         /\ \A k \in DOMAIN RankAndTrim(u, RawEntities(u)) :
              \E i \in DOMAIN RawEntities(u) : RankAndTrim(u, RawEntities(u))[k] = RawEntities(u)[i]
  <1> DEFINE raw == RawEntities(u)
  <1> DEFINE R == EntityOrder(u, raw)
  <1>1. /\ raw \in Seq(EntityRecord)
        /\ \A k, l \in DOMAIN raw : SameAnchor(raw[k], raw[l]) => k = l
    BY RawEntitiesStandApart
  <1>2. RankAndTrim(u, raw) = Truncated(Sorted(raw, LAMBDA a, b : EntityBefore(u, a, b)), TopN)
    BY DEF RankAndTrim
  <1> HIDE DEF raw
  <1>3. DOMAIN raw = 1..Len(raw) /\ Len(raw) \in Nat /\ \A k \in DOMAIN raw : raw[k] \in EntityRecord
    BY <1>1
  <1>4. \A i, j \in DOMAIN raw : <<j, i>> \in R <=>
          \/ EntityBefore(u, raw[j], raw[i])
          \/ j < i /\ ~EntityBefore(u, raw[i], raw[j])
    BY DEF EntityOrder
  <1> HIDE DEF R
  <1>5. ASSUME NEW i \in DOMAIN raw, NEW j \in DOMAIN raw, i # j
        PROVE  <<j, i>> \in R <=> EntityBefore(u, raw[j], raw[i])
    <2>1. EntityBefore(u, raw[i], raw[j]) <=> ~EntityBefore(u, raw[j], raw[i])
      BY <1>1, <1>3, <1>5, EntityBeforeFacts
    <2> QED BY <1>4, <2>1
  <1>6. \A i \in DOMAIN raw : <<i, i>> \notin R
    BY <1>3, <1>4, EntityBeforeFacts
  <1>7. IsStrictOrder(R, Len(raw))
    <2>1. \A i, j \in 1..Len(raw) : i # j => <<i, j>> \in R \/ <<j, i>> \in R
      BY <1>1, <1>3, <1>5, EntityBeforeFacts
    <2>2. ASSUME NEW i \in 1..Len(raw), NEW j \in 1..Len(raw), NEW k \in 1..Len(raw),
                 <<i, j>> \in R, <<j, k>> \in R
          PROVE  <<i, k>> \in R
      <3>1. i # j /\ j # k
        BY <1>3, <1>6, <2>2
      <3>2. EntityBefore(u, raw[i], raw[j]) /\ EntityBefore(u, raw[j], raw[k])
        BY <1>3, <1>5, <2>2, <3>1
      <3>3. EntityBefore(u, raw[i], raw[k])
        BY <1>3, <3>2, EntityBeforeTransitive
      <3> QED BY <1>3, <1>4, <3>3
    <2> QED BY <1>3, <1>6, <2>1, <2>2 DEF IsStrictOrder
  <1>8. Sorted(raw, LAMBDA a, b : EntityBefore(u, a, b)) = Arranged(raw, R)
    BY DEF Sorted, EntityOrder, R
  <1> DEFINE t == Arranged(raw, R)
  <1>9. t \in Seq(EntityRecord) /\ \E of : IsSelection(of, raw, t, DOMAIN raw)
    BY <1>1, <1>7, ArrangedPermutes
  <1> HIDE DEF t
  <1>10. TopN \in Nat
    BY LimitsArePositive
  <1>11. /\ Truncated(t, TopN) \in Seq(EntityRecord) /\ Len(Truncated(t, TopN)) <= TopN
         /\ \A i \in DOMAIN Truncated(t, TopN) : i \in DOMAIN t /\ Truncated(t, TopN)[i] = t[i]
    BY <1>9, <1>10, TruncatedFacts
  <1>12. \A i \in DOMAIN t : \E j \in DOMAIN raw : t[i] = raw[j]
    BY <1>9 DEF IsSelection
  <1> QED BY <1>2, <1>8, <1>11, <1>12 DEF t, raw

-----------------------------------------------------------------------------
(* Enums.                                                                  *)

EnumRecord ==
  [name : Seq(Word), dir : Seq(Word), file : Seq(Word), members : Seq(STRING)]

(* The block a typed constant of f opens or continues.                     *)
ConstBlock(f, b) ==
  [name |-> <<Typed(b)[1].type>>, dir |-> f.dir, file |-> File(f),
   members |-> Declares(b)]

LEMMA TypedFacts ==
  ASSUME NEW b \in Seq(ConstSpec)
  PROVE  /\ Typed(b) \in Seq(ConstSpec)
         /\ \E of : IsSelection(of, b, Typed(b), {k \in DOMAIN b : b[k].type # Null})
         /\ \A k \in DOMAIN Typed(b) : Typed(b)[k].type \in Word
  <1> DEFINE K == {k \in DOMAIN b : b[k].type # Null}
  <1>1. Typed(b) = Picked(b, K)
    BY DEF Typed, Kept, Picked
  <1>2. Typed(b) \in Seq(ConstSpec) /\ \E of : IsSelection(of, b, Typed(b), K)
    BY <1>1, PickedSelection
  <1>3. ASSUME NEW k \in DOMAIN Typed(b) PROVE Typed(b)[k].type \in Word
    <2>1. PICK i \in K : Typed(b)[k] = b[i]
      BY <1>2 DEF IsSelection
    <2>2. b[i] \in ConstSpec /\ b[i].type # Null
      OBVIOUS
    <2> QED BY <2>1, <2>2 DEF ConstSpec
  <1> QED BY <1>2, <1>3

LEMMA DeclaresNames ==
  ASSUME NEW b \in Seq(ConstSpec)
  PROVE  Declares(b) \in Seq(STRING)
  <1> DEFINE names == [k \in DOMAIN b |-> b[k].names[1]]
  <1>1. DOMAIN names = 1..Len(b) /\ Len(b) \in Nat /\ names = [i \in DOMAIN names |-> names[i]]
    OBVIOUS
  <1>2. ASSUME NEW i \in DOMAIN names PROVE names[i] \in STRING
    <2>1. b[i] \in ConstSpec
      OBVIOUS
    <2>2. b[i].names \in Seq(STRING) /\ b[i].names # <<>>
      BY <2>1 DEF ConstSpec
    <2> QED BY <2>2
  <1>3. Declares(b) = names
    BY DEF Declares, Mapped
  <1> HIDE DEF names
  <1>4. names \in Seq(STRING)
    BY <1>1, <1>2, SequenceOf
  <1> QED BY <1>3, <1>4

LEMMA ConstBlockTyped ==
  ASSUME NEW f \in SourceFile, NEW b \in Seq(ConstSpec), Typed(b) # <<>>
  PROVE  ConstBlock(f, b) \in EnumRecord
  <1>1. Typed(b)[1].type \in Word
    <2>1. 1 \in DOMAIN Typed(b)
      BY TypedFacts
    <2> QED BY <2>1, TypedFacts
  <1>2. Declares(b) \in Seq(STRING)
    BY DeclaresNames
  <1>3. f.dir \in Seq(Word) /\ File(f) \in Seq(Word)
    BY SourceFileFields
  <1>4. <<Typed(b)[1].type>> \in Seq(Word)
    BY <1>1
  <1> QED BY <1>2, <1>3, <1>4 DEF ConstBlock, EnumRecord

LEMMA ConstBlocksReported ==
  ASSUME NEW f \in SourceFile
  PROVE  /\ ConstBlocksOf(f) \in Seq(EnumRecord)
         /\ \E of : /\ IsSelection(of, f.consts,
                                   [k \in DOMAIN ConstBlocksOf(f) |-> f.consts[of[k]]],
                                   {i \in DOMAIN f.consts : Typed(f.consts[i]) # <<>>})
                    /\ \A k \in DOMAIN ConstBlocksOf(f) :
                         ConstBlocksOf(f)[k] = ConstBlock(f, f.consts[of[k]])
  <1> DEFINE K == {i \in DOMAIN f.consts : Typed(f.consts[i]) # <<>>}
  <1> DEFINE kept == Picked(f.consts, K)
  <1> DEFINE t == [i \in DOMAIN kept |-> ConstBlock(f, kept[i])]
  <1>1. Kept(f.consts, LAMBDA b : Typed(b) # <<>>) = kept
    BY DEF Kept, Picked
  <1>2. ConstBlocksOf(f) = t
    <2>1. Mapped(kept, LAMBDA b : [name |-> <<Typed(b)[1].type>>, dir |-> f.dir, file |-> File(f),
                                   members |-> Declares(b)]) = t
      BY DEF Mapped, ConstBlock
    <2> HIDE DEF kept, t
    <2> QED BY <1>1, <2>1 DEF ConstBlocksOf
  <1>3. f.consts \in Seq(Seq(ConstSpec)) /\ K \in SUBSET DOMAIN f.consts
    BY SourceFileFields
  <1>4. kept \in Seq(Seq(ConstSpec)) /\ \E of : IsSelection(of, f.consts, kept, K)
    <2> HIDE DEF K
    <2> QED BY <1>3, PickedSelection
  <1>5. PICK of : IsSelection(of, f.consts, kept, K)
    BY <1>4
  <1> HIDE DEF kept
  <1>6. DOMAIN t = DOMAIN kept /\ \A i \in DOMAIN kept : t[i] = ConstBlock(f, kept[i])
    OBVIOUS
  <1>7. \A k \in DOMAIN kept : of[k] \in K /\ kept[k] = f.consts[of[k]]
    BY <1>5 DEF IsSelection
  <1>8. t \in Seq(EnumRecord)
    <2>1. DOMAIN t = 1..Len(kept) /\ Len(kept) \in Nat
      BY <1>4
    <2>2. ASSUME NEW i \in DOMAIN t PROVE t[i] \in EnumRecord
      <3>1. kept[i] \in Seq(ConstSpec) /\ Typed(kept[i]) # <<>>
        BY <1>4, <1>7
      <3> QED BY <3>1, ConstBlockTyped
    <2>3. t = [i \in DOMAIN t |-> t[i]]
      OBVIOUS
    <2> HIDE DEF t
    <2> QED BY <2>1, <2>2, <2>3, SequenceOf
  <1> HIDE DEF t, K
  <1>9. kept = [k \in DOMAIN t |-> f.consts[of[k]]]
    <2>1. kept = [k \in DOMAIN kept |-> kept[k]]
      BY <1>4
    <2> QED BY <1>6, <1>7, <2>1
  <1>10. \A k \in DOMAIN t : t[k] = ConstBlock(f, f.consts[of[k]])
    BY <1>6, <1>7
  <1>11. IsSelection(of, f.consts, [k \in DOMAIN t |-> f.consts[of[k]]], K)
    BY <1>5, <1>9
  <1> QED BY <1>2, <1>8, <1>10, <1>11 DEF K

LEMMA ConstBlocksTyped ==
  ASSUME NEW files \in Seq(SourceFile)
  PROVE  LET ss == [i \in DOMAIN files |-> ConstBlocksOf(files[i])]
         IN  /\ ss \in Seq(Seq(EnumRecord)) /\ Len(ss) = Len(files)
             /\ ConstBlocks(files) = FlattenSeq(ss)
             /\ ConstBlocks(files) \in Seq(EnumRecord)
  <1> DEFINE ss == [i \in DOMAIN files |-> ConstBlocksOf(files[i])]
  <1>1. ConstBlocks(files) = FlattenSeq(ss)
    BY DEF ConstBlocks, Gathered
  <1>2. DOMAIN ss = 1..Len(files) /\ Len(files) \in Nat /\ ss = [i \in DOMAIN ss |-> ss[i]]
    OBVIOUS
  <1>3. ASSUME NEW i \in DOMAIN ss PROVE ss[i] \in Seq(EnumRecord)
    <2>1. files[i] \in SourceFile
      OBVIOUS
    <2> QED BY <2>1, ConstBlocksReported
  <1> HIDE DEF ss
  <1>4. ss \in Seq(Seq(EnumRecord)) /\ Len(ss) = Len(files)
    BY <1>2, <1>3, SequenceOf
  <1>5. FlattenSeq(ss) \in Seq(EnumRecord)
    BY <1>4, FlattenedOrigin
  <1> QED BY <1>1, <1>4, <1>5 DEF ss

(* The blocks that open an enum, and those that make up one.               *)
Opening(blocks) == {i \in DOMAIN blocks : ~\E j \in 1..(i - 1) : SameEnum(blocks[j], blocks[i])}
Making(blocks, i) == {j \in DOMAIN blocks : SameEnum(blocks[j], blocks[i])}

LEMMA GoEnumFields ==
  ASSUME NEW blocks \in Seq(EnumRecord), NEW i \in DOMAIN blocks
  PROVE  LET same  == Picked(blocks, Making(blocks, i))
             parts == [k \in DOMAIN same |-> same[k].members]
         IN  /\ GoEnum(blocks, i) \in EnumRecord
             /\ GoEnum(blocks, i).name = blocks[i].name
             /\ GoEnum(blocks, i).dir = blocks[i].dir
             /\ GoEnum(blocks, i).members = FlattenSeq(parts)
             /\ parts \in Seq(Seq(STRING)) /\ Len(parts) = Len(same)
  <1> DEFINE same == Picked(blocks, Making(blocks, i))
  <1> DEFINE parts == [k \in DOMAIN same |-> same[k].members]
  <1>1. Kept(blocks, LAMBDA b : SameEnum(b, blocks[i])) = same
    BY DEF Kept, Picked, Making
  <1>2. GoEnum(blocks, i) = [blocks[i] EXCEPT !.members = FlattenSeq(parts)]
    <2>1. Gathered(same, LAMBDA b : b.members) = FlattenSeq(parts)
      BY DEF Gathered
    <2> HIDE DEF same, parts
    <2> QED BY <1>1, <2>1 DEF GoEnum
  <1>3. same \in Seq(EnumRecord)
    <2>1. Making(blocks, i) \in SUBSET DOMAIN blocks
      BY DEF Making
    <2> QED BY <2>1, PickedSelection
  <1>4. parts \in Seq(Seq(STRING)) /\ Len(parts) = Len(same)
    <2> HIDE DEF same
    <2>1. DOMAIN parts = 1..Len(same) /\ Len(same) \in Nat /\ parts = [k \in DOMAIN parts |-> parts[k]]
      BY <1>3
    <2>2. ASSUME NEW k \in DOMAIN parts PROVE parts[k] \in Seq(STRING)
      <3>1. same[k] \in EnumRecord
        BY <1>3
      <3> QED BY <3>1 DEF EnumRecord
    <2> HIDE DEF parts
    <2> QED BY <2>1, <2>2, SequenceOf
  <1>5. FlattenSeq(parts) \in Seq(STRING)
    <2> HIDE DEF parts
    <2> QED BY <1>4, FlattenedOrigin
  <1>6. blocks[i] \in EnumRecord
    OBVIOUS
  <1> DEFINE flat == FlattenSeq(parts)
  <1> HIDE DEF flat, parts, same
  <1>7. /\ GoEnum(blocks, i) \in EnumRecord
        /\ GoEnum(blocks, i).name = blocks[i].name
        /\ GoEnum(blocks, i).dir = blocks[i].dir
        /\ GoEnum(blocks, i).members = flat
    BY <1>2, <1>5, <1>6 DEF EnumRecord, flat
  <1> QED BY <1>4, <1>7 DEF flat, parts, same

LEMMA GoEnumsOpened ==
  ASSUME NEW files \in Seq(SourceFile)
  PROVE  /\ GoEnums(files) \in Seq(EnumRecord)
         /\ \E of :
              /\ of \in [DOMAIN GoEnums(files) -> Opening(ConstBlocks(files))]
              /\ \A k \in DOMAIN GoEnums(files) :
                   GoEnums(files)[k] = GoEnum(ConstBlocks(files), of[k])
              /\ \A k, l \in DOMAIN GoEnums(files) : of[k] = of[l] => k = l
              /\ \A i \in Opening(ConstBlocks(files)) :
                   \E k \in DOMAIN GoEnums(files) : of[k] = i
  <1> DEFINE blocks == ConstBlocks(files)
  <1> DEFINE opens(i) == ~\E j \in 1..(i - 1) : SameEnum(blocks[j], blocks[i])
  <1> DEFINE all == [i \in DOMAIN blocks |-> i]
  <1> DEFINE K == {i \in DOMAIN all : opens(all[i])}
  <1> DEFINE first == Picked(all, K)
  <1> DEFINE t == [k \in DOMAIN first |-> GoEnum(blocks, first[k])]
  <1>1. blocks \in Seq(EnumRecord)
    BY ConstBlocksTyped
  <1>2. GoEnums(files) = t
    <2>1. Kept(all, opens) = first
      BY DEF Kept, Picked
    <2>2. Mapped(first, LAMBDA i : GoEnum(blocks, i)) = t
      BY DEF Mapped
    <2>3. GoEnums(files) = Mapped(Kept(all, opens), LAMBDA i : GoEnum(blocks, i))
      BY DEF GoEnums
    <2> HIDE DEF all, opens, first, t, blocks
    <2> QED BY <2>1, <2>2, <2>3
  <1> HIDE DEF blocks
  <1>3. K = Opening(blocks) /\ K \in SUBSET DOMAIN all
    BY DEF Opening
  <1>4. all \in Seq(Nat)
    <2>1. DOMAIN all = 1..Len(blocks) /\ Len(blocks) \in Nat /\ \A i \in DOMAIN all : all[i] \in Nat
      BY <1>1
    <2>2. all = [i \in DOMAIN all |-> all[i]]
      OBVIOUS
    <2> HIDE DEF all
    <2> QED BY <2>1, <2>2, SequenceOf
  <1>5. \A i \in K : all[i] = i /\ i \in DOMAIN blocks
    OBVIOUS
  <1> HIDE DEF all, K
  <1>6. first \in Seq(Nat) /\ \E of : IsSelection(of, all, first, K)
    BY <1>3, <1>4, PickedSelection
  <1> HIDE DEF first
  <1>7. PICK of : IsSelection(of, all, first, K)
    BY <1>6
  <1>8. \A k \in DOMAIN first : first[k] = of[k] /\ of[k] \in K
    BY <1>5, <1>7 DEF IsSelection
  <1>9. t \in Seq(EnumRecord) /\ DOMAIN t = DOMAIN first
    <2>1. DOMAIN t = 1..Len(first) /\ Len(first) \in Nat /\ t = [i \in DOMAIN t |-> t[i]]
      BY <1>6
    <2>2. ASSUME NEW k \in DOMAIN t PROVE t[k] \in EnumRecord
      <3>1. first[k] \in DOMAIN blocks /\ t[k] = GoEnum(blocks, first[k])
        BY <1>5, <1>8
      <3> QED BY <1>1, <3>1, GoEnumFields
    <2>3. DOMAIN t = DOMAIN first
      OBVIOUS
    <2> HIDE DEF t
    <2> QED BY <2>1, <2>2, <2>3, SequenceOf
  <1>10. \A k \in DOMAIN t : t[k] = GoEnum(blocks, of[k])
    BY <1>8
  <1> HIDE DEF t
  <1>11. /\ of \in [DOMAIN t -> K]
         /\ \A k, l \in DOMAIN t : of[k] = of[l] => k = l
         /\ \A i \in K : \E k \in DOMAIN t : of[k] = i
    BY <1>7, <1>9 DEF IsSelection
  <1> QED BY <1>2, <1>3, <1>9, <1>10, <1>11 DEF blocks

LEMMA PythonEnumsTyped ==
  ASSUME NEW files \in Seq(SourceFile)
  PROVE  PythonEnums(files) \in Seq(EnumRecord)
  <1>1. ASSUME NEW f \in SourceFile PROVE PythonEnumsOf(f) \in Seq(EnumRecord)
    <2> DEFINE enum(c) == [name |-> Append(c.owners, c.name), dir |-> f.dir,
                           file |-> File(f), members |-> c.members]
    <2>1. \E K \in SUBSET DOMAIN f.classes :
            PythonEnumsOf(f) = [i \in DOMAIN Picked(f.classes, K) |-> enum(Picked(f.classes, K)[i])]
      <3> DEFINE kept(c) == /\ \E i \in DOMAIN c.bases : Last(c.bases[i]) \in EnumBases
                            /\ c.members # <<>>
      <3> DEFINE K == {i \in DOMAIN f.classes : kept(f.classes[i])}
      <3>1. Kept(f.classes, kept) = Picked(f.classes, K)
        BY DEF Kept, Picked
      <3>2. PythonEnumsOf(f) = Mapped(Kept(f.classes, kept), enum)
        BY DEF PythonEnumsOf
      <3>3. K \in SUBSET DOMAIN f.classes
        OBVIOUS
      <3> HIDE DEF K, kept
      <3>4. PythonEnumsOf(f) = Mapped(Picked(f.classes, K), enum)
        BY <3>1, <3>2
      <3> QED BY <3>3, <3>4 DEF Mapped
    <2>2. PICK K \in SUBSET DOMAIN f.classes :
            PythonEnumsOf(f) = [i \in DOMAIN Picked(f.classes, K) |-> enum(Picked(f.classes, K)[i])]
      BY <2>1
    <2> DEFINE some == Picked(f.classes, K)
    <2>3. some \in Seq(ClassDefinition)
      BY SourceFileFields, PickedSelection
    <2> DEFINE t == [i \in DOMAIN some |-> enum(some[i])]
    <2>4. PythonEnumsOf(f) = t
      BY <2>2
    <2> HIDE DEF some
    <2>5. DOMAIN t = 1..Len(some) /\ Len(some) \in Nat /\ t = [i \in DOMAIN t |-> t[i]]
      BY <2>3
    <2>6. ASSUME NEW i \in DOMAIN t PROVE t[i] \in EnumRecord
      <3> DEFINE c == some[i]
      <3>1. c \in ClassDefinition
        BY <2>3
      <3> HIDE DEF c
      <3>2. c.owners \in Seq(Word) /\ c.name \in Word /\ c.members \in Seq(STRING)
        BY <3>1 DEF ClassDefinition
      <3>3. f.dir \in Seq(Word) /\ File(f) \in Seq(Word)
        BY SourceFileFields
      <3>4. Append(c.owners, c.name) \in Seq(Word)
        BY <3>2
      <3>5. enum(c) \in EnumRecord
        BY <3>2, <3>3, <3>4 DEF EnumRecord
      <3> QED BY <3>5 DEF c
    <2> HIDE DEF t
    <2> QED BY <2>4, <2>5, <2>6, SequenceOf
  <1> DEFINE ss == [i \in DOMAIN files |-> PythonEnumsOf(files[i])]
  <1>2. PythonEnums(files) = FlattenSeq(ss)
    BY DEF PythonEnums, Gathered
  <1>3. DOMAIN ss = 1..Len(files) /\ Len(files) \in Nat /\ ss = [i \in DOMAIN ss |-> ss[i]]
    OBVIOUS
  <1>4. \A i \in DOMAIN ss : ss[i] \in Seq(EnumRecord)
    BY <1>1
  <1> HIDE DEF ss
  <1>5. ss \in Seq(Seq(EnumRecord))
    BY <1>3, <1>4, SequenceOf
  <1> QED BY <1>2, <1>5, FlattenedOrigin

EnumOrder(s) ==
  {p \in (DOMAIN s) \X (DOMAIN s) :
     \/ LessThan(s[p[1]].name, s[p[2]].name)
     \/ p[1] < p[2] /\ ~LessThan(s[p[2]].name, s[p[1]].name)}

LEMMA EnumsSorted ==
  ASSUME NEW s \in Seq(EnumRecord)
  PROVE  /\ Sorted(s, ByName) \in Seq(EnumRecord)
         /\ \E of : IsSelection(of, s, Sorted(s, ByName), DOMAIN s)
  <1> DEFINE R == EnumOrder(s)
  <1>1. DOMAIN s = 1..Len(s) /\ Len(s) \in Nat /\ \A i \in DOMAIN s : i \in Nat /\ s[i] \in EnumRecord
    OBVIOUS
  <1>2. \A i \in DOMAIN s : s[i].name \in Seq(Word)
    BY <1>1 DEF EnumRecord
  <1>3. \A i, j \in DOMAIN s : <<j, i>> \in R <=>
          \/ LessThan(s[j].name, s[i].name)
          \/ j < i /\ ~LessThan(s[i].name, s[j].name)
    BY DEF EnumOrder
  <1> HIDE DEF R
  <1>4. ASSUME NEW i \in DOMAIN s, NEW j \in DOMAIN s
        PROVE  /\ s[i].name = s[j].name => (<<j, i>> \in R <=> j < i)
               /\ s[i].name # s[j].name => (<<j, i>> \in R <=> LessThan(s[j].name, s[i].name))
               /\ s[i].name # s[j].name =>
                    (LessThan(s[i].name, s[j].name) <=> ~LessThan(s[j].name, s[i].name))
    <2>1. /\ s[i].name = s[j].name => ~LessThan(s[i].name, s[j].name) /\ ~LessThan(s[j].name, s[i].name)
          /\ s[i].name # s[j].name =>
               (LessThan(s[i].name, s[j].name) <=> ~LessThan(s[j].name, s[i].name))
      BY <1>2, LessThanTotal
    <2> QED BY <1>3, <2>1
  <1>5. IsStrictOrder(R, Len(s))
    <2>1. \A i \in 1..Len(s) : <<i, i>> \notin R
      BY <1>1, <1>4
    <2>2. ASSUME NEW i \in 1..Len(s), NEW j \in 1..Len(s), i # j
          PROVE  <<i, j>> \in R \/ <<j, i>> \in R
      BY <1>1, <1>4, <2>2
    <2>3. ASSUME NEW i \in 1..Len(s), NEW j \in 1..Len(s), NEW k \in 1..Len(s),
                 <<i, j>> \in R, <<j, k>> \in R
          PROVE  <<i, k>> \in R
      <3>1. /\ s[i].name \in Seq(Word) /\ s[j].name \in Seq(Word) /\ s[k].name \in Seq(Word)
            /\ i \in DOMAIN s /\ j \in DOMAIN s /\ k \in DOMAIN s
        BY <1>1, <1>2
      <3>2. CASE s[i].name = s[j].name /\ s[j].name = s[k].name
        BY <1>1, <1>4, <2>3, <3>1, <3>2
      <3>3. CASE s[i].name = s[j].name /\ s[j].name # s[k].name
        BY <1>4, <2>3, <3>1, <3>3
      <3>4. CASE s[i].name # s[j].name /\ s[j].name = s[k].name
        BY <1>4, <2>3, <3>1, <3>4
      <3>5. CASE s[i].name # s[j].name /\ s[j].name # s[k].name
        <4>1. LessThan(s[i].name, s[j].name) /\ LessThan(s[j].name, s[k].name)
          BY <1>4, <2>3, <3>1, <3>5
        <4>2. LessThan(s[i].name, s[k].name)
          BY <3>1, <4>1, LessThanTransitive
        <4> QED BY <1>3, <3>1, <4>2
      <3> QED BY <3>2, <3>3, <3>4, <3>5
    <2> QED BY <2>1, <2>2, <2>3 DEF IsStrictOrder
  <1>6. Sorted(s, ByName) = Arranged(s, R)
    BY DEF Sorted, ByName, EnumOrder, R
  <1> QED BY <1>5, <1>6, ArrangedPermutes

-----------------------------------------------------------------------------
(* The build.                                                              *)

(* What has been given so far is what the extractors that resolved give    *)
(* and the fallbacks of the others; the errors list those that threw.      *)
Given == [x \in Extractors |-> IF settled[x] = "resolved" THEN Extracted(unit, x) ELSE Fallback(x)]

BuildInv ==
  /\ unit \in Units
  /\ settled \in [Extractors -> {"running", "resolved", "rejected"}]
  /\ results = Given
  /\ errors \in Seq(Extractors)
  /\ ToSet(errors) = Failed
  /\ \A i, j \in DOMAIN errors : errors[i] = errors[j] => i = j
  /\ overview \in Overview \cup {Null}
  /\ document # Null => /\ \A x \in Extractors : settled[x] # "running"
                        /\ document = Rendered(overview)

LEMMA BuildInit == Init => BuildInv
  <1> SUFFICES ASSUME Init PROVE BuildInv
    OBVIOUS
  <1>1. Failed = {} /\ ToSet(errors) = {}
    BY DEF Init, Failed, ToSet
  <1>2. results = Given
    BY DEF Init, Given
  <1> QED BY <1>1, <1>2 DEF Init, BuildInv

LEMMA BuildNext == BuildInv /\ [Next]_vars => BuildInv'
  <1> SUFFICES ASSUME BuildInv, [Next]_vars PROVE BuildInv'
    OBVIOUS
  <1> USE DEF BuildInv
  <1>1. ASSUME NEW x \in Extractors, Resolve(x) PROVE BuildInv'
    <2>1. /\ settled[x] = "running" /\ settled' = [settled EXCEPT ![x] = "resolved"]
          /\ results' = [results EXCEPT ![x] = Extracted(unit, x)]
          /\ unit' = unit /\ errors' = errors /\ overview' = overview /\ document' = document
      BY <1>1 DEF Resolve
    <2>2. document = Null
      BY <2>1
    <2>3. \A y \in Extractors : settled'[y] = IF y = x THEN "resolved" ELSE settled[y]
      BY <2>1
    <2>4. Failed' = Failed
      BY <2>1, <2>3 DEF Failed
    <2>5. results' = Given'
      <3>1. Given' = [y \in Extractors |-> IF settled'[y] = "resolved" THEN Extracted(unit, y) ELSE Fallback(y)]
        BY <2>1 DEF Given
      <3>2. \A y \in Extractors : results'[y] = IF y = x THEN Extracted(unit, y) ELSE results[y]
        BY <2>1 DEF Given
      <3>3. results' = [y \in Extractors |-> results'[y]]
        BY <2>1 DEF Given
      <3> QED BY <2>3, <3>1, <3>2, <3>3 DEF Given
    <2>6. settled' \in [Extractors -> {"running", "resolved", "rejected"}]
      BY <2>1
    <2> HIDE DEF Extractors
    <2> QED BY <2>1, <2>2, <2>4, <2>5, <2>6 DEF ToSet
  <1>2. ASSUME NEW x \in Extractors, Reject(x) PROVE BuildInv'
    <2>1. /\ settled[x] = "running" /\ settled' = [settled EXCEPT ![x] = "rejected"]
          /\ results' = [results EXCEPT ![x] = Fallback(x)]
          /\ errors' = Append(errors, x)
          /\ unit' = unit /\ overview' = overview /\ document' = document
      BY <1>2 DEF Reject
    <2>2. document = Null
      BY <2>1
    <2>3. \A y \in Extractors : settled'[y] = IF y = x THEN "rejected" ELSE settled[y]
      BY <2>1
    <2>4. Failed' = Failed \cup {x} /\ x \notin Failed
      BY <2>1, <2>3 DEF Failed
    <2>5. results' = Given'
      <3>1. Given' = [y \in Extractors |-> IF settled'[y] = "resolved" THEN Extracted(unit, y) ELSE Fallback(y)]
        BY <2>1 DEF Given
      <3>2. \A y \in Extractors : results'[y] = IF y = x THEN Fallback(y) ELSE results[y]
        BY <2>1 DEF Given
      <3>3. results' = [y \in Extractors |-> results'[y]]
        BY <2>1 DEF Given
      <3> QED BY <2>3, <3>1, <3>2, <3>3 DEF Given
    <2>6. settled' \in [Extractors -> {"running", "resolved", "rejected"}]
      BY <2>1
    <2> HIDE DEF Extractors
    <2>7. /\ errors' \in Seq(Extractors) /\ DOMAIN errors' = DOMAIN errors \cup {Len(errors) + 1}
          /\ Len(errors) + 1 \notin DOMAIN errors
          /\ \A i \in DOMAIN errors : errors'[i] = errors[i]
          /\ errors'[Len(errors) + 1] = x
      BY <2>1
    <2>8. ToSet(errors') = Failed'
      BY <2>4, <2>7 DEF ToSet
    <2>9. \A i \in DOMAIN errors : errors[i] # x
      BY <2>4 DEF ToSet
    <2>10. \A i, j \in DOMAIN errors' : errors'[i] = errors'[j] => i = j
      BY <2>7, <2>9
    <2> QED BY <2>1, <2>2, <2>5, <2>6, <2>7, <2>8, <2>10
  <1>3. ASSUME Render PROVE BuildInv'
    <2>1. PICK text \in Overview \cup {Null} : overview' = text /\ document' = Rendered(text)
      BY <1>3 DEF Render
    <2>2. /\ \A x \in Extractors : settled[x] # "running"
          /\ unit' = unit /\ settled' = settled /\ results' = results /\ errors' = errors
      BY <1>3 DEF Render
    <2>3. Rendered(overview)' = Rendered(text)
      BY <2>1, <2>2 DEF Rendered
    <2>4. Given' = Given /\ Failed' = Failed
      BY <2>2 DEF Given, Failed
    <2> QED BY <2>1, <2>2, <2>3, <2>4 DEF ToSet
  <1>4. CASE UNCHANGED vars
    <2>1. /\ unit' = unit /\ settled' = settled /\ results' = results /\ errors' = errors
          /\ overview' = overview /\ document' = document
      BY <1>4 DEF vars
    <2>2. Rendered(overview)' = Rendered(overview) /\ Given' = Given /\ Failed' = Failed
      BY <2>1 DEF Rendered, Given, Failed
    <2> QED BY <2>1, <2>2 DEF ToSet
  <1> QED BY <1>1, <1>2, <1>3, <1>4 DEF Next

LEMMA BuildInvariant == Spec => []BuildInv
  BY BuildInit, BuildNext, PTL DEF Spec

(* The entities and the enums given are typed.                             *)
LEMMA EntitiesGiven ==
  ASSUME NEW u \in Units
  PROVE  /\ Extracted(u, "entities") \in Seq(EntityRecord)
         /\ Len(Extracted(u, "entities")) <= TopN
  <1>1. Extracted(u, "entities") = RankAndTrim(u, RawEntities(u))
    BY DEF Extracted
  <1> QED BY <1>1, RankedEntities

LEMMA EnumsGiven ==
  ASSUME NEW u \in Units
  PROVE  Extracted(u, "enums") \in Seq(EnumRecord)
  <1>1. Extracted(u, "enums") = Enums(u)
    BY DEF Extracted
  <1> DEFINE some == IF u.language = "go" THEN GoEnums(Parsed(u)) ELSE PythonEnums(Parsed(u))
  <1>2. some \in Seq(EnumRecord)
    BY ParsedFacts, GoEnumsOpened, PythonEnumsTyped
  <1>3. Enums(u) = Sorted(some, ByName)
    BY DEF Enums
  <1> HIDE DEF some
  <1> QED BY <1>1, <1>2, <1>3, EnumsSorted

LEMMA StorageGiven ==
  ASSUME NEW u \in Units
  PROVE  /\ DOMAIN Extracted(u, "storage") = {"tables", "migrations"}
         /\ Len(Extracted(u, "storage").migrations) <= LastN
  <1> DEFINE files == IF u.language = "python" THEN Parsed(u) ELSE <<>>
  <1> DEFINE sorted == Sorted(Migrations(files), ByName)
  <1>1. Extracted(u, "storage") = Storage(u)
    BY DEF Extracted
  <1>2. Storage(u) = [tables |-> Sorted(Tables(files), ByName),
                      migrations |-> Truncated(Reverse(sorted), LastN)]
    BY DEF Storage
  <1>3. files \in Seq(SourceFile)
    BY ParsedFacts
  <1> HIDE DEF files
  <1>4. \E n \in Nat : DOMAIN Migrations(files) = 1..n
    <2> DEFINE kept(f) == /\ MigrationsDir # Null /\ IsPrefix(MigrationsDir, f.dir)
                          /\ f.revision # Null
    <2> DEFINE K == {i \in DOMAIN files : kept(files[i])}
    <2>1. Kept(files, kept) = Picked(files, K)
      <3> HIDE DEF kept
      <3> QED BY DEF Kept, Picked
    <2>2. Migrations(files) = Mapped(Kept(files, kept),
                                     LAMBDA f : [name |-> <<f.revision>>, touches |-> f.touches])
      BY DEF Migrations
    <2>3. DOMAIN Migrations(files) = DOMAIN Picked(files, K)
      <3> HIDE DEF kept, K
      <3> QED BY <2>1, <2>2 DEF Mapped
    <2>4. K \in SUBSET DOMAIN files
      OBVIOUS
    <2> HIDE DEF K
    <2>5. Picked(files, K) \in Seq(SourceFile)
      BY <1>3, <2>4, PickedSelection
    <2> QED BY <2>3, <2>5
  <1>5. PICK n \in Nat : DOMAIN sorted = 1..n
    BY <1>4 DEF Sorted, Arranged
  <1> DEFINE newest == Reverse(sorted)
  <1>6. Len(sorted) = n
    <2> HIDE DEF sorted
    <2>1. sorted = [i \in 1..n |-> sorted[i]]
      BY <1>5 DEF sorted, Sorted, Arranged
    <2> QED BY <1>5
  <1> HIDE DEF sorted
  <1>7. newest \in Seq({newest[i] : i \in 1..n})
    <2>1. newest = [i \in 1..n |-> sorted[(n - i) + 1]]
      BY <1>6 DEF Reverse
    <2> HIDE DEF newest
    <2>2. DOMAIN newest = 1..n /\ newest = [i \in DOMAIN newest |-> newest[i]]
      BY <2>1
    <2>3. \A i \in DOMAIN newest : newest[i] \in {newest[k] : k \in 1..n}
      BY <2>2
    <2> QED BY <2>2, <2>3, SequenceOf
  <1> HIDE DEF newest
  <1>8. Len(Truncated(newest, LastN)) <= LastN
    BY <1>7, TruncatedFacts, LimitsArePositive
  <1> QED BY <1>1, <1>2, <1>8 DEF newest

LEMMA FiniteExtractors == IsFiniteSet(Extractors)
  <1>1. \A S, x : IsFiniteSet(S) => IsFiniteSet(S \cup {x})
    BY FS_AddElement
  <1>2. Extractors = ((({"contexts"} \cup {"entities"}) \cup {"enums"}) \cup {"storage"}) \cup {"workers"}
    BY DEF Extractors
  <1>3. IsFiniteSet({"contexts"})
    BY FS_Singleton
  <1> QED BY <1>1, <1>2, <1>3

LEMMA TypeFromInvariant == BuildInv => TypeOK
  <1> SUFFICES ASSUME BuildInv PROVE TypeOK
    OBVIOUS
  <1>1. /\ unit \in Units /\ settled \in [Extractors -> {"running", "resolved", "rejected"}]
        /\ results = Given /\ errors \in Seq(Extractors)
        /\ \A i, j \in DOMAIN errors : errors[i] = errors[j] => i = j
        /\ overview \in Overview \cup {Null}
    BY DEF BuildInv
  <1>2. DOMAIN results = Extractors
    BY <1>1 DEF Given
  <1>3. \A x \in Extractors : results[x] = Extracted(unit, x) \/ results[x] = Fallback(x)
    BY <1>1 DEF Given
  <1>4. /\ Fallback("entities") = <<>> /\ Fallback("enums") = <<>>
        /\ Fallback("storage") = [tables |-> <<>>, migrations |-> <<>>]
    BY DEF Fallback
  <1>5. "entities" \in Extractors /\ "enums" \in Extractors /\ "storage" \in Extractors
    BY DEF Extractors
  <1>6. TopN \in Nat /\ LastN \in Nat
    BY LimitsArePositive
  <1>7. results.entities \in Seq(EntityRecord) /\ Len(results.entities) <= TopN
    <2>1. CASE results.entities = Extracted(unit, "entities")
      BY <1>1, <2>1, EntitiesGiven
    <2>2. CASE results.entities = <<>>
      BY <1>6, <2>2
    <2> QED BY <1>3, <1>4, <1>5, <2>1, <2>2
  <1>8. results.enums \in Seq(EnumRecord)
    <2>1. CASE results.enums = Extracted(unit, "enums")
      BY <1>1, <2>1, EnumsGiven
    <2>2. CASE results.enums = <<>>
      BY <2>2
    <2> QED BY <1>3, <1>4, <1>5, <2>1, <2>2
  <1>9. Declared(results.entities)
    <2>1. \A i \in DOMAIN results.entities : results.entities[i] \in EntityRecord
      BY <1>7
    <2>2. \A d \in EntityRecord : d.name \in Seq(Word) /\ d.dir \in Seq(Word)
      BY DEF EntityRecord
    <2> QED BY <2>1, <2>2 DEF Declared
  <1>10. Declared(results.enums)
    <2>1. \A i \in DOMAIN results.enums : results.enums[i] \in EnumRecord
      BY <1>8
    <2>2. \A d \in EnumRecord : d.name \in Seq(Word) /\ d.dir \in Seq(Word)
      BY DEF EnumRecord
    <2> QED BY <2>1, <2>2 DEF Declared
  <1>11. DOMAIN results.storage = {"tables", "migrations"} /\ Len(results.storage.migrations) <= LastN
    <2>1. CASE results.storage = Extracted(unit, "storage")
      BY <1>1, <2>1, StorageGiven
    <2>2. CASE results.storage = [tables |-> <<>>, migrations |-> <<>>]
      BY <1>6, <2>2
    <2> QED BY <1>3, <1>4, <1>5, <2>1, <2>2
  <1>12. Len(errors) <= Cardinality(Extractors)
    <2>1. DOMAIN errors = 1..Len(errors) /\ Len(errors) \in Nat
      BY <1>1
    <2>2. errors \in Injection(1..Len(errors), Extractors)
      BY <1>1, <2>1 DEF Injection, IsInjective
    <2> DEFINE n == Len(errors)
    <2> HIDE DEF n
    <2>3. Cardinality(1..n) = n
      <3>1. n \in Nat
        BY <2>1 DEF n
      <3> QED BY <3>1, FS_Interval
    <2> QED BY <2>2, <2>3, FiniteExtractors, FS_Injection DEF n
  <1> HIDE DEF Extractors
  <1> QED BY <1>1, <1>2, <1>7, <1>9, <1>10, <1>11, <1>12 DEF TypeOK

(* In every state of a build the results have the shape the renderer       *)
(* reads: the names and directories of the declarations are words, and no  *)
(* list exceeds its limit.                                                 *)
THEOREM DocumentTyped == Spec => []TypeOK
  BY BuildInvariant, TypeFromInvariant, PTL

-----------------------------------------------------------------------------
(* The document.                                                           *)

ErrorOrder(failed) ==
  {p \in (DOMAIN failed) \X (DOMAIN failed) :
     \/ LessThan(<<failed[p[1]]>>, <<failed[p[2]]>>)
     \/ p[1] < p[2] /\ ~LessThan(<<failed[p[2]]>>, <<failed[p[1]]>>)}

LEMMA SingleWords ==
  ASSUME NEW v \in Word, NEW w \in Word, LessThan(<<v>>, <<w>>)
  PROVE  Position(v) < Position(w)
  <1>1. <<v>> \in Seq(Word) /\ <<w>> \in Seq(Word)
    OBVIOUS
  <1>2. PICK i \in Nat \ {0} : FirstApart(<<v>>, <<w>>, i)
    BY <1>1, LessThanFirstApart
  <1>3. RankAt(<<v>>, i) < RankAt(<<w>>, i)
    BY <1>2 DEF FirstApart
  <1>4. CASE i = 1
    <2>1. RankAt(<<v>>, 1) = Position(v) /\ RankAt(<<w>>, 1) = Position(w)
      BY DEF RankAt
    <2> QED BY <1>3, <1>4, <2>1
  <1>5. CASE i # 1
    <2>1. i \notin DOMAIN <<v>> /\ i \notin DOMAIN <<w>>
      BY <1>5
    <2>2. RankAt(<<v>>, i) = 0 /\ RankAt(<<w>>, i) = 0
      BY <2>1 DEF RankAt
    <2> QED BY <1>3, <2>2
  <1> QED BY <1>4, <1>5

LEMMA ErrorsSorted ==
  ASSUME NEW failed \in Seq(Extractors),
         \A i, j \in DOMAIN failed : failed[i] = failed[j] => i = j
  PROVE  /\ SortedErrors(failed) \in Seq(Extractors)
         /\ ToSet(SortedErrors(failed)) = ToSet(failed)
         /\ \A i, j \in DOMAIN SortedErrors(failed) :
              i < j => Position(SortedErrors(failed)[i]) < Position(SortedErrors(failed)[j])
  <1> DEFINE R == ErrorOrder(failed)
  <1> DEFINE before(i, j) == LessThan(<<failed[i]>>, <<failed[j]>>)
  <1>1. DOMAIN failed = 1..Len(failed) /\ Len(failed) \in Nat
    OBVIOUS
  <1>2. \A i \in DOMAIN failed : failed[i] \in Word /\ <<failed[i]>> \in Seq(Word)
    <2> HIDE DEF Extractors, Word
    <2>1. \A i \in DOMAIN failed : failed[i] \in Word
      BY ExtractorsAreWords
    <2> QED BY <2>1
  <1>3. \A i, j \in DOMAIN failed : <<i, j>> \in R <=> (before(i, j) \/ (i < j /\ ~before(j, i)))
    BY DEF ErrorOrder
  <1> HIDE DEF R
  <1>4. ASSUME NEW i \in DOMAIN failed, NEW j \in DOMAIN failed
        PROVE  /\ i = j => ~before(i, j)
               /\ i # j => (before(i, j) <=> ~before(j, i))
    <2>1. i # j => <<failed[i]>> # <<failed[j]>>
      OBVIOUS
    <2> QED BY <1>2, <2>1, LessThanTotal
  <1>5. ASSUME NEW i \in DOMAIN failed, NEW j \in DOMAIN failed, NEW k \in DOMAIN failed,
               before(i, j), before(j, k)
        PROVE  before(i, k)
    BY <1>2, <1>5, LessThanTransitive
  <1> HIDE DEF before
  <1>6. \A i, j \in DOMAIN failed : <<i, j>> \in R <=> before(i, j)
    <2> SUFFICES ASSUME NEW i \in DOMAIN failed, NEW j \in DOMAIN failed
                 PROVE  <<i, j>> \in R <=> before(i, j)
      OBVIOUS
    <2>1. CASE i = j
      BY <1>1, <1>3, <1>4, <2>1
    <2>2. CASE i # j
      BY <1>3, <1>4, <2>2
    <2> QED BY <2>1, <2>2
  <1>7. IsStrictOrder(R, Len(failed))
    BY <1>1, <1>4, <1>5, <1>6 DEF IsStrictOrder
  <1>8. SortedErrors(failed) = Arranged(failed, R)
    BY DEF SortedErrors, Sorted, ErrorOrder, R
  <1> DEFINE t == Arranged(failed, R)
  <1>9. /\ t \in Seq(Extractors) /\ Len(t) = Len(failed)
        /\ \E of : /\ IsSelection(of, failed, t, DOMAIN failed)
                   /\ \A k, l \in DOMAIN failed : k < l => <<of[k], of[l]>> \in R
    BY <1>7, ArrangedPermutes
  <1> HIDE DEF t
  <1>10. PICK of : /\ IsSelection(of, failed, t, DOMAIN failed)
                   /\ \A k, l \in DOMAIN failed : k < l => <<of[k], of[l]>> \in R
    BY <1>9
  <1>11. /\ \A k \in DOMAIN t : of[k] \in DOMAIN failed /\ t[k] = failed[of[k]]
         /\ \A i \in DOMAIN failed : \E k \in DOMAIN t : of[k] = i
         /\ DOMAIN t = DOMAIN failed
    BY <1>1, <1>9, <1>10 DEF IsSelection
  <1>12. ToSet(t) = ToSet(failed)
    <2>1. ASSUME NEW x \in ToSet(t) PROVE x \in ToSet(failed)
      <3>1. PICK k \in DOMAIN t : x = t[k]
        BY DEF ToSet
      <3>2. of[k] \in DOMAIN failed /\ x = failed[of[k]]
        BY <1>11, <3>1
      <3> QED BY <3>2 DEF ToSet
    <2>2. ASSUME NEW x \in ToSet(failed) PROVE x \in ToSet(t)
      <3>1. PICK i \in DOMAIN failed : x = failed[i]
        BY DEF ToSet
      <3>2. PICK k \in DOMAIN t : of[k] = i
        BY <1>11
      <3>3. x = t[k]
        BY <1>11, <3>1, <3>2
      <3> QED BY <3>3 DEF ToSet
    <2> QED BY <2>1, <2>2
  <1>13. ASSUME NEW i \in DOMAIN t, NEW j \in DOMAIN t, i < j
         PROVE  Position(t[i]) < Position(t[j])
    <2>1. <<of[i], of[j]>> \in R
      BY <1>10, <1>11, <1>13
    <2>2. LessThan(<<failed[of[i]]>>, <<failed[of[j]]>>)
      BY <1>6, <1>11, <2>1 DEF before
    <2>3. Position(failed[of[i]]) < Position(failed[of[j]])
      BY <1>2, <1>11, <2>2, SingleWords
    <2> QED BY <1>11, <2>3
  <1> QED BY <1>8, <1>9, <1>12, <1>13 DEF t

(* A section is a block or nothing, and nothing where the extractor threw. *)
LEMMA SectionIsBlock ==
  ASSUME NEW u, NEW s, NEW gave, NEW text
  PROVE  \/ SectionBlock(u, s, gave, text) = <<>>
         \/ \E b : SectionBlock(u, s, gave, text) = <<b>>
  <1>1. \A rows : Block(s, rows) = <<>> \/ \E b : Block(s, rows) = <<b>>
    BY DEF Block
  <1>2. \E rows : SectionBlock(u, s, gave, text) = Block(s, rows)
    <2> HIDE DEF Block
    <2>1. CASE s = "overview"
      BY <2>1 DEF SectionBlock
    <2>2. CASE s = "contexts"
      BY <2>2 DEF SectionBlock
    <2>3. CASE s = "entities"
      BY <2>3 DEF SectionBlock
    <2>4. CASE s = "enums"
      BY <2>4 DEF SectionBlock
    <2>5. CASE s = "storage"
      BY <2>5 DEF SectionBlock
    <2>6. CASE s = "workers"
      BY <2>6 DEF SectionBlock
    <2>7. CASE s \notin {"overview", "contexts", "entities", "enums", "storage", "workers"}
      BY <2>7 DEF SectionBlock
    <2> QED BY <2>1, <2>2, <2>3, <2>4, <2>5, <2>6, <2>7
  <1> QED BY <1>1, <1>2

LEMMA FailedSectionIsEmpty ==
  ASSUME NEW u, NEW x \in Extractors, NEW gave, gave[x] = Fallback(x), NEW text
  PROVE  SectionBlock(u, x, gave, text) = <<>>
  <1>1. \A s : Block(s, <<>>) = <<>>
    BY DEF Block
  <1>2. x # "storage" => gave[x] = <<>>
    BY DEF Fallback
  <1>3. CASE x = "contexts"
    <2>1. SectionBlock(u, x, gave, text)
            = Block(x, Mapped(gave.contexts, LAMBDA c : [path |-> c.path, role |-> c.role]))
      BY <1>3 DEF SectionBlock
    <2>2. Mapped(<<>>, LAMBDA c : [path |-> c.path, role |-> c.role]) = <<>>
      BY DEF Mapped
    <2>3. gave.contexts = <<>>
      BY <1>2, <1>3
    <2> QED BY <1>1, <2>1, <2>2, <2>3
  <1>4. CASE x = "entities"
    <2>1. SectionBlock(u, x, gave, text) = Block(x, EntityRows(gave.entities))
      BY <1>4 DEF SectionBlock
    <2>2. EntityRows(<<>>) = <<>>
      BY DEF EntityRows
    <2> QED BY <1>1, <1>2, <1>4, <2>1, <2>2
  <1>5. CASE x = "enums"
    <2>1. SectionBlock(u, x, gave, text) = Block(x, EnumRows(gave.enums))
      BY <1>5 DEF SectionBlock
    <2>2. EnumRows(<<>>) = <<>>
      BY DEF EnumRows
    <2> QED BY <1>1, <1>2, <1>5, <2>1, <2>2
  <1>6. CASE x = "storage"
    <2>1. SectionBlock(u, x, gave, text)
            = Block(x, Block("tables", gave.storage.tables)
                         \o Block("migrations", gave.storage.migrations))
      BY <1>6 DEF SectionBlock
    <2>2. gave.storage.tables = <<>> /\ gave.storage.migrations = <<>>
      BY <1>6 DEF Fallback
    <2>3. Block("tables", <<>>) \o Block("migrations", <<>>) = <<>>
      BY <1>1
    <2> QED BY <1>1, <2>1, <2>2, <2>3
  <1>7. CASE x = "workers"
    <2>1. SectionBlock(u, x, gave, text) = Block(x, gave.workers)
      BY <1>7 DEF SectionBlock
    <2> QED BY <1>1, <1>2, <1>7, <2>1
  <1> QED BY <1>3, <1>4, <1>5, <1>6, <1>7 DEF Extractors

LEMMA ReproducibleFromInvariant == BuildInv => DocumentIsReproducible
  <1> SUFFICES ASSUME BuildInv, document # Null PROVE DocumentIsReproducible
    BY DEF DocumentIsReproducible
  <1> DEFINE undisturbed ==
        [x \in Extractors |-> IF x \in Failed THEN Fallback(x) ELSE Extracted(unit, x)]
  <1> DEFINE raw == RawEntities(unit)
  <1> DEFINE listed == IF Failed = {} THEN <<>> ELSE document[1].rows
  <1> DEFINE section(k) == SectionBlock(unit, SectionOrder[k], results, overview)
  <1> DEFINE sections == [k \in DOMAIN SectionOrder |-> section(k)]
  <1>1. /\ \A x \in Extractors : settled[x] # "running"
        /\ document = Block("errors", SortedErrors(errors)) \o FlattenSeq(sections)
        /\ unit \in Units /\ results = Given
        /\ errors \in Seq(Extractors) /\ ToSet(errors) = Failed
        /\ \A i, j \in DOMAIN errors : errors[i] = errors[j] => i = j
        /\ settled \in [Extractors -> {"running", "resolved", "rejected"}]
    BY DEF BuildInv, Rendered
  <1>2. \A x \in Extractors : x \in Failed <=> settled[x] # "resolved"
    <2> HIDE DEF Extractors
    <2> QED BY <1>1 DEF Failed
  <1>3. results = undisturbed
    BY <1>1, <1>2 DEF Given
  <1>4. ASSUME NEW k \in DOMAIN SectionOrder
        PROVE  sections[k] = IF SectionOrder[k] \in Failed THEN <<>>
                             ELSE SectionBlock(unit, SectionOrder[k], undisturbed, overview)
    <2>1. CASE SectionOrder[k] \in Failed
      <3>1. SectionOrder[k] \in Extractors
        BY <2>1 DEF Failed
      <3>2. results[SectionOrder[k]] = Fallback(SectionOrder[k])
        BY <1>3, <2>1, <3>1
      <3> QED BY <2>1, <3>1, <3>2, FailedSectionIsEmpty
    <2>2. CASE SectionOrder[k] \notin Failed
      BY <1>3, <2>2
    <2> QED BY <2>1, <2>2
  <1>5. sections = [k \in DOMAIN SectionOrder |->
                      IF SectionOrder[k] \in Failed THEN <<>>
                      ELSE SectionBlock(unit, SectionOrder[k], undisturbed, overview)]
    BY <1>4
  <1>6. /\ SortedErrors(errors) \in Seq(Extractors)
        /\ ToSet(SortedErrors(errors)) = Failed
        /\ \A i, j \in DOMAIN SortedErrors(errors) :
             i < j => Position(SortedErrors(errors)[i]) < Position(SortedErrors(errors)[j])
    BY <1>1, ErrorsSorted
  <1>7. \E S : FlattenSeq(sections) \in Seq(S)
    <2> DEFINE S == {section(k)[1] : k \in DOMAIN SectionOrder}
    <2>1. ASSUME NEW k \in DOMAIN SectionOrder PROVE sections[k] \in Seq(S)
      <3>1. CASE section(k) = <<>>
        BY <3>1
      <3>2. CASE \E b : section(k) = <<b>>
        <4>1. PICK b : section(k) = <<b>>
          BY <3>2
        <4> HIDE DEF section
        <4>2. b \in S
          BY <4>1
        <4>3. sections[k] = <<b>>
          BY <4>1 DEF sections
        <4> HIDE DEF S, sections
        <4> QED BY <4>2, <4>3
      <3> QED BY <3>1, <3>2, SectionIsBlock
    <2>2. DOMAIN SectionOrder = 1..Len(SectionOrder) /\ Len(SectionOrder) \in Nat
      BY SectionsAreKnown
    <2>3. DOMAIN sections = 1..Len(SectionOrder) /\ sections = [k \in DOMAIN sections |-> sections[k]]
      BY <2>2
    <2> HIDE DEF sections, S, section
    <2>4. sections \in Seq(Seq(S))
      BY <2>1, <2>2, <2>3, SequenceOf
    <2> QED BY <2>4, FlattenedOrigin
  <1> HIDE DEF sections, section, undisturbed
  <1>8. listed = SortedErrors(errors)
    <2>1. CASE Failed = {}
      <3>1. SortedErrors(errors) = <<>>
        BY <1>6, <2>1 DEF ToSet
      <3> QED BY <2>1, <3>1
    <2>2. CASE Failed # {}
      <3>1. SortedErrors(errors) # <<>>
        BY <1>6, <2>2 DEF ToSet
      <3> DEFINE b == [section |-> "errors", rows |-> SortedErrors(errors)]
      <3>2. document = <<b>> \o FlattenSeq(sections)
        BY <1>1, <3>1 DEF Block
      <3>3. b.rows = SortedErrors(errors)
        OBVIOUS
      <3> HIDE DEF b
      <3>4. document[1] = b
        BY <1>7, <3>2
      <3> QED BY <2>2, <3>3, <3>4
    <2> QED BY <2>1, <2>2
  <1> HIDE DEF listed
  <1>9. /\ raw \in Seq(EntityRecord)
        /\ \A k, l \in DOMAIN raw : SameAnchor(raw[k], raw[l]) => k = l
    BY <1>1, RawEntitiesStandApart
  <1>10. ASSUME NEW i \in DOMAIN raw, NEW j \in DOMAIN raw, i # j
         PROVE  EntityBefore(unit, raw[i], raw[j]) <=> ~EntityBefore(unit, raw[j], raw[i])
    <2> HIDE DEF raw
    <2>1. raw[i] \in EntityRecord /\ raw[j] \in EntityRecord /\ ~SameAnchor(raw[i], raw[j])
      BY <1>9, <1>10
    <2> QED BY <1>1, <2>1, EntityBeforeFacts
  <1>11. /\ ToSet(listed) = Failed
         /\ \A i, j \in DOMAIN listed : i < j => Position(listed[i]) < Position(listed[j])
         /\ document = Block("errors", listed) \o FlattenSeq(sections)
    BY <1>1, <1>6, <1>8
  <1> QED BY <1>5, <1>10, <1>11 DEF DocumentIsReproducible, listed, undisturbed

(* However the extractors resolve and throw, the document depends on the   *)
(* unit, the overview and which of them threw alone; no tie among the      *)
(* entities is left to the order of the files.                             *)
THEOREM DocumentReproducible == Spec => []DocumentIsReproducible
  BY BuildInvariant, ReproducibleFromInvariant, PTL

-----------------------------------------------------------------------------
(* Suffixes of a directory.                                                *)

LEMMA SuffixFacts ==
  ASSUME NEW Token, NEW directory \in Seq(Token), NEW depth \in Nat
  PROVE  /\ Suffix(directory, depth) \in Seq(Token)
         /\ depth <= Len(directory) => Len(Suffix(directory, depth)) = depth
         /\ depth >= Len(directory) => Suffix(directory, depth) = directory
  <1>1. CASE depth >= Len(directory)
    BY <1>1 DEF Suffix
  <1>2. CASE depth < Len(directory)
    <2>1. /\ Len(directory) - depth + 1 \in 1..(Len(directory) + 1)
          /\ Len(directory) \in Nat
      BY <1>2
    <2>2. Suffix(directory, depth)
            = SubSeq(directory, Len(directory) - depth + 1, Len(directory))
      BY <1>2 DEF Suffix
    <2> QED
      BY <1>2, <2>1, <2>2
  <1> QED
    BY <1>1, <1>2

LEMMA LeastDepth ==
  ASSUME NEW S, S \subseteq Nat, S # {}
  PROVE  (CHOOSE d \in S : \A e \in S : d <= e) \in S
  <1>1. \E d \in S : \A e \in S : d <= e
    BY LeastIndex
  <1> QED BY <1>1

-----------------------------------------------------------------------------
(* Qualifiers.                                                             *)

(* A qualifier is the end of its directory, and either the whole of it or  *)
(* the end of no other claimant's.                                         *)
LEMMA QualifierFacts ==
  ASSUME NEW Token, NEW declarations,
         \A k \in DOMAIN declarations : declarations[k].dir \in Seq(Token),
         NEW i \in DOMAIN declarations
  PROVE  LET own == Qualifier(declarations, i)
         IN  /\ own \in Seq(Token)
             /\ own = Suffix(declarations[i].dir, Len(own))
             /\ \/ own = declarations[i].dir
                \/ \A j \in Claimants(declarations, i) \ {i} :
                      Suffix(declarations[j].dir, Len(own)) # own
  <1> DEFINE depths == Separating(declarations, i)
             dir == declarations[i].dir
             least == CHOOSE d \in depths : \A e \in depths : d <= e
  <1>1. CASE depths = {}
    <2>1. Qualifier(declarations, i) = dir
      BY <1>1 DEF Qualifier
    <2>2. Suffix(dir, Len(dir)) = dir
      BY DEF Suffix
    <2> QED
      BY <2>1, <2>2
  <1>2. CASE depths # {}
    <2>1. depths \subseteq Nat
      BY DEF Separating
    <2>2. least \in depths
      <3> HIDE DEF depths
      <3> QED BY <1>2, <2>1, LeastDepth
    <2>3. Qualifier(declarations, i) = Suffix(dir, least)
      BY <1>2 DEF Qualifier
    <2>4. /\ least \in 1..Len(dir)
          /\ \A j \in Claimants(declarations, i) \ {i} :
               Suffix(declarations[j].dir, least) # Suffix(dir, least)
      <3> HIDE DEF least
      <3> QED BY <2>2 DEF Separating
    <2>5. Suffix(dir, least) \in Seq(Token) /\ Len(Suffix(dir, least)) = least
      <3> HIDE DEF least
      <3>1. dir \in Seq(Token) /\ least \in Nat /\ least <= Len(dir)
        BY <2>4
      <3> QED BY <3>1, SuffixFacts
    <2> HIDE DEF least
    <2> QED
      BY <2>3, <2>4, <2>5
  <1> QED
    BY <1>1, <1>2

(* Two declarations with one qualified name have one name and one          *)
(* directory.                                                              *)
LEMMA QualifiedNamesTellApart ==
  ASSUME NEW Token, NEW declarations,
         \A k \in DOMAIN declarations : declarations[k].dir \in Seq(Token),
         NEW i \in DOMAIN declarations, NEW j \in DOMAIN declarations,
         QualifiedName(declarations, i) = QualifiedName(declarations, j)
  PROVE  /\ declarations[i].name = declarations[j].name
         /\ declarations[i].dir = declarations[j].dir
  <1>1. declarations[i].name = declarations[j].name
    BY DEF QualifiedName
  <1>2. SUFFICES ASSUME declarations[i].dir # declarations[j].dir
                 PROVE  FALSE
    BY <1>1
  <1>3. /\ j \in Claimants(declarations, i) \ {i}
        /\ i \in Claimants(declarations, j) \ {j}
    BY <1>1, <1>2 DEF Claimants
  <1> DEFINE own == Qualifier(declarations, i)
             other == Qualifier(declarations, j)
  <1>4. own = other
    <2>1. QualifiedName(declarations, i).path = own
      BY <1>3 DEF QualifiedName
    <2>2. QualifiedName(declarations, j).path = other
      BY <1>3 DEF QualifiedName
    <2> QED BY <2>1, <2>2
  <1>5. /\ own = Suffix(declarations[i].dir, Len(own))
        /\ other = Suffix(declarations[j].dir, Len(other))
    BY QualifierFacts
  <1>6. own = declarations[i].dir
    BY <1>3, <1>4, <1>5, QualifierFacts
  <1>7. other = declarations[j].dir
    BY <1>3, <1>4, <1>5, QualifierFacts
  <1> QED
    BY <1>2, <1>4, <1>6, <1>7

-----------------------------------------------------------------------------
(* Texts.                                                                  *)

LEMMA JoinedFacts ==
  ASSUME NEW Token, NEW words \in Seq(Token), NEW mark
  PROVE  /\ Joined(words, mark) \in Seq(Token \cup {mark})
         /\ Len(Joined(words, mark)) = IF words = <<>> THEN 0 ELSE 2 * Len(words) - 1
         /\ \A k \in 1..Len(words) : Joined(words, mark)[2 * k - 1] = words[k]
  <1>1. CASE words = <<>>
    BY <1>1 DEF Joined
  <1>2. CASE words # <<>>
    <2>1. Len(words) \in Nat /\ Len(words) >= 1
      BY <1>2
    <2> DEFINE n == 2 * Len(words) - 1
               f == [k \in 1..n |-> IF k % 2 = 1 THEN words[(k + 1) \div 2] ELSE mark]
    <2>2. Joined(words, mark) = f /\ n \in Nat
      BY <1>2, <2>1 DEF Joined
    <2>3. \A k \in 1..n : k % 2 = 1 => (k + 1) \div 2 \in 1..Len(words)
      BY <2>1
    <2>4. \A k \in 1..n : f[k] \in Token \cup {mark}
      BY <2>3
    <2>5. f \in Seq(Token \cup {mark}) /\ Len(f) = n
      BY <2>2, <2>4
    <2>6. \A k \in 1..Len(words) :
            /\ 2 * k - 1 \in 1..n
            /\ (2 * k - 1) % 2 = 1
            /\ ((2 * k - 1) + 1) \div 2 = k
      BY <2>1
    <2>7. \A k \in 1..Len(words) : f[2 * k - 1] = words[k]
      BY <2>6
    <2> QED
      BY <1>2, <2>2, <2>5, <2>7
  <1> QED
    BY <1>1, <1>2

Text(path, name) ==
  Joined(path, "/") \o (IF path = <<>> THEN <<>> ELSE <<".">>) \o Joined(name, ".")

(* The length of a text, and where each word stands in it.                 *)
Spells(text, path, name) ==
  /\ Len(text) = 2 * Len(path) + (IF name = <<>> THEN 0 ELSE 2 * Len(name) - 1)
  /\ \A k \in 1..Len(path) : text[2 * k - 1] = path[k]
  /\ \A k \in 1..Len(name) : text[2 * Len(path) + 2 * k - 1] = name[k]

LEMMA TextSpells ==
  ASSUME NEW Token, NEW path \in Seq(Token), NEW name \in Seq(Token)
  PROVE  Spells(Text(path, name), path, name)
  <1> DEFINE marked == Token \cup {"/", "."}
             front == Joined(path, "/")
             dot == IF path = <<>> THEN <<>> ELSE <<".">>
             back == Joined(name, ".")
  <1>a. Joined(path, "/") \in Seq(Token \cup {"/"})
    BY JoinedFacts
  <1>b. Joined(name, ".") \in Seq(Token \cup {"."})
    BY JoinedFacts
  <1>1. /\ front \in Seq(marked)
        /\ Len(front) = IF path = <<>> THEN 0 ELSE 2 * Len(path) - 1
        /\ \A k \in 1..Len(path) : front[2 * k - 1] = path[k]
    <2>1. Seq(Token \cup {"/"}) \subseteq Seq(marked)
      OBVIOUS
    <2> QED BY <1>a, <2>1, JoinedFacts
  <1>2. /\ back \in Seq(marked)
        /\ Len(back) = IF name = <<>> THEN 0 ELSE 2 * Len(name) - 1
        /\ \A k \in 1..Len(name) : back[2 * k - 1] = name[k]
    <2>1. Seq(Token \cup {"."}) \subseteq Seq(marked)
      OBVIOUS
    <2> QED BY <1>b, <2>1, JoinedFacts
  <1>3. dot \in Seq(marked) /\ Len(dot) = IF path = <<>> THEN 0 ELSE 1
    <2>1. "." \in marked
      OBVIOUS
    <2>2. <<".">> \in Seq(marked) /\ Len(<<".">>) = 1
      <3> HIDE DEF marked
      <3> QED BY <2>1
    <2>3. <<>> \in Seq(marked) /\ Len(<<>>) = 0
      OBVIOUS
    <2>4. CASE path = <<>>
      BY <2>3, <2>4
    <2>5. CASE path # <<>>
      <3>1. dot = <<".">>
        BY <2>5
      <3> HIDE DEF dot, marked
      <3> QED BY <2>2, <2>5, <3>1
    <2> QED BY <2>4, <2>5
  <1>4. Text(path, name) = (front \o dot) \o back
    BY DEF Text
  <1> HIDE DEF front, dot, back, marked
  <1>5. /\ front \o dot \in Seq(marked)
        /\ Len(front \o dot) = 2 * Len(path)
        /\ \A k \in 1..Len(front) : (front \o dot)[k] = front[k]
    <2>1. /\ Len(path) \in Nat
          /\ path = <<>> => Len(path) = 0
      OBVIOUS
    <2>2. /\ front \o dot \in Seq(marked)
          /\ Len(front \o dot) = Len(front) + Len(dot)
          /\ \A k \in 1..Len(front) : (front \o dot)[k] = front[k]
      <3>1. /\ front \o dot \in Seq(marked)
            /\ Len(front \o dot) = Len(front) + Len(dot)
            /\ \A k \in 1..Len(front) + Len(dot) :
                 (front \o dot)[k] = IF k <= Len(front) THEN front[k] ELSE dot[k - Len(front)]
        BY <1>1, <1>3, ConcatProperties
      <3>2. Len(front) \in Nat /\ Len(dot) \in Nat
        BY <1>1, <1>3
      <3>3. \A k \in 1..Len(front) : k \in 1..Len(front) + Len(dot) /\ k <= Len(front)
        BY <3>2
      <3> QED BY <3>1, <3>3
    <2>3. Len(front) + Len(dot) = 2 * Len(path)
      BY <1>1, <1>3, <2>1
    <2> QED BY <2>2, <2>3
  <1>6. \A k \in 1..Len(path) : 2 * k - 1 \in 1..Len(front)
    BY <1>1
  <1>7. \A k \in 1..Len(name) : 2 * k - 1 \in 1..Len(back)
    BY <1>2
  <1>8. Len((front \o dot) \o back) = 2 * Len(path) + Len(back)
    BY <1>2, <1>5, ConcatProperties
  <1>9. \A k \in 1..Len(path) : ((front \o dot) \o back)[2 * k - 1] = path[k]
    <2> TAKE k \in 1..Len(path)
    <2>1. 2 * k - 1 \in 1..Len(front) /\ 2 * k - 1 \in 1..Len(front \o dot)
      BY <1>5, <1>6
    <2> QED BY <1>1, <1>2, <1>5, <2>1
  <1>10. \A k \in 1..Len(name) : ((front \o dot) \o back)[2 * Len(path) + 2 * k - 1] = name[k]
    <2> TAKE k \in 1..Len(name)
    <2>1. 2 * k - 1 \in 1..Len(back)
      BY <1>7
    <2>2. ((front \o dot) \o back)[Len(front \o dot) + (2 * k - 1)] = back[2 * k - 1]
      BY <1>2, <1>5, <2>1
    <2> QED BY <1>2, <1>5, <2>2
  <1> QED
    BY <1>2, <1>4, <1>8, <1>9, <1>10 DEF Spells

(* A text is read back: one of two that are equal has the words of the     *)
(* other, once it is known how many of them are the name's.                *)
LEMMA TextIsReadBack ==
  ASSUME NEW Token,
         NEW path \in Seq(Token), NEW name \in Seq(Token),
         NEW otherPath \in Seq(Token), NEW otherName \in Seq(Token),
         Len(name) = Len(otherName),
         Text(path, name) = Text(otherPath, otherName)
  PROVE  path = otherPath /\ name = otherName
  <1>1. (name = <<>>) <=> (otherName = <<>>)
    OBVIOUS
  <1> DEFINE text == Text(path, name)
             nameLength == IF name = <<>> THEN 0 ELSE 2 * Len(name) - 1
  <1>2. /\ Len(text) = 2 * Len(path) + nameLength
        /\ \A k \in 1..Len(path) : text[2 * k - 1] = path[k]
        /\ \A k \in 1..Len(name) : text[2 * Len(path) + 2 * k - 1] = name[k]
    <2>1. Spells(text, path, name)
      BY TextSpells
    <2> HIDE DEF text
    <2> QED BY <2>1 DEF Spells
  <1>3. /\ Len(text) = 2 * Len(otherPath) + nameLength
        /\ \A k \in 1..Len(otherPath) : text[2 * k - 1] = otherPath[k]
        /\ \A k \in 1..Len(otherName) :
             text[2 * Len(otherPath) + 2 * k - 1] = otherName[k]
    <2>1. Spells(Text(otherPath, otherName), otherPath, otherName)
      BY TextSpells
    <2>2. Spells(text, otherPath, otherName)
      BY <2>1
    <2>3. nameLength = IF otherName = <<>> THEN 0 ELSE 2 * Len(otherName) - 1
      BY <1>1
    <2> HIDE DEF text, nameLength
    <2> QED BY <2>2, <2>3 DEF Spells
  <1>4. nameLength \in Int /\ Len(path) \in Nat /\ Len(otherPath) \in Nat
    OBVIOUS
  <1> HIDE DEF text, nameLength
  <1>5. Len(path) = Len(otherPath)
    BY <1>2, <1>3, <1>4
  <1>7. \A k \in 1..Len(path) : path[k] = otherPath[k]
    BY <1>2, <1>3, <1>5
  <1>8. \A k \in 1..Len(name) : name[k] = otherName[k]
    BY <1>2, <1>3, <1>5
  <1> QED
    BY <1>5, <1>7, <1>8, SeqEqual

-----------------------------------------------------------------------------
(* However many declarations a section lists, of whatever names and        *)
(* directories, its headings tell them apart, and a name nothing else      *)
(* claims is headed by itself.  (rendering/qualified-name.ts)              *)
THEOREM HeadingsAreUnambiguous ==
  ASSUME NEW Token, NEW declarations,
         \A k \in DOMAIN declarations : /\ declarations[k].name \in Seq(Token)
                                        /\ declarations[k].dir \in Seq(Token)
  PROVE  TellsApart(declarations)
  <1> DEFINE path(k) == QualifiedName(declarations, k).path
             name(k) == declarations[k].name
  <1>1. \A k \in DOMAIN declarations : /\ path(k) \in Seq(Token)
                                       /\ Heading(declarations, k) = Text(path(k), name(k))
                                       /\ QualifiedName(declarations, k)
                                            = [path |-> path(k), name |-> name(k)]
    <2> TAKE k \in DOMAIN declarations
    <2>1. Qualifier(declarations, k) \in Seq(Token)
      BY QualifierFacts
    <2>2. path(k) = IF Claimants(declarations, k) = {k} THEN <<>> ELSE Qualifier(declarations, k)
      BY DEF QualifiedName
    <2>3. path(k) \in Seq(Token)
      BY <2>1, <2>2
    <2>4. QualifiedName(declarations, k).name = name(k)
      BY DEF QualifiedName
    <2>5. Heading(declarations, k) = Text(path(k), name(k))
      BY <2>4 DEF Heading, Text
    <2>6. QualifiedName(declarations, k) = [path |-> path(k), name |-> name(k)]
      BY DEF QualifiedName
    <2> QED BY <2>3, <2>5, <2>6
  <1>2. ASSUME NEW i \in DOMAIN declarations, Claimants(declarations, i) = {i}
        PROVE  Heading(declarations, i) = Joined(name(i), ".")
    <2>1. path(i) = <<>>
      BY <1>2 DEF QualifiedName
    <2>2. Joined(<<>>, "/") = <<>>
      BY DEF Joined
    <2>3. Joined(name(i), ".") \in Seq(Token \cup {"."})
      BY JoinedFacts
    <2> QED
      BY <1>1, <2>1, <2>2, <2>3 DEF Text
  <1>3. ASSUME NEW i \in DOMAIN declarations, NEW j \in DOMAIN declarations,
               Heading(declarations, i) = Heading(declarations, j),
               Len(name(i)) = Len(name(j))
        PROVE  name(i) = name(j) /\ declarations[i].dir = declarations[j].dir
    <2>1. path(i) = path(j) /\ name(i) = name(j)
      <3> HIDE DEF path
      <3> QED BY <1>1, <1>3, TextIsReadBack
    <2>2. QualifiedName(declarations, i) = QualifiedName(declarations, j)
      <3> HIDE DEF path
      <3> QED BY <1>1, <2>1
    <2> QED
      BY <2>2, QualifiedNamesTellApart
  <1> QED
    BY <1>2, <1>3 DEF TellsApart


-----------------------------------------------------------------------------
(* The headings of a document.                                             *)

LEMMA HeadingsFromTypes == TypeOK => HeadingsTellTypesApart
  <1> SUFFICES ASSUME TypeOK PROVE HeadingsTellTypesApart
    OBVIOUS
  <1>1. Declared(results.entities) /\ Declared(results.enums)
    BY DEF TypeOK
  <1>2. TellsApart(results.entities)
    BY <1>1, HeadingsAreUnambiguous DEF Declared
  <1>3. TellsApart(results.enums)
    BY <1>1, HeadingsAreUnambiguous DEF Declared
  <1> QED
    BY <1>2, <1>3 DEF HeadingsTellTypesApart

(* Of whatever units, no two types of different directories that the       *)
(* extractors gave to a document are headed alike in it, and a name that   *)
(* nothing else claims heads its type bare.  (DLT-016)                     *)
THEOREM DocumentTellsTypesApart == Spec => []HeadingsTellTypesApart
  BY DocumentTyped, HeadingsFromTypes, PTL

-----------------------------------------------------------------------------
(* The algebra of flattening.                                              *)

Upto(s, m) == [i \in 1..m |-> s[i]]

LEMMA UptoFacts ==
  ASSUME NEW S, NEW s \in Seq(S)
  PROVE  /\ \A m \in 0..Len(s) : Upto(s, m) \in Seq(S) /\ Len(Upto(s, m)) = m
         /\ \A m \in 0..Len(s) : \A i \in 1..m : Upto(s, m)[i] = s[i]
         /\ Upto(s, 0) = <<>> /\ Upto(s, Len(s)) = s
         /\ \A m \in 0..(Len(s) - 1) : Upto(s, m + 1) = Append(Upto(s, m), s[m + 1])
  <1>1. ASSUME NEW m \in 0..Len(s)
        PROVE  Upto(s, m) \in Seq(S) /\ Len(Upto(s, m)) = m
    BY DEF Upto
  <1>2. \A m \in 0..Len(s) : \A i \in 1..m : Upto(s, m)[i] = s[i]
    BY DEF Upto
  <1>3. Upto(s, 0) = <<>>
    BY <1>1 DEF Upto
  <1>4. Upto(s, Len(s)) = s
    BY DEF Upto
  <1>5. ASSUME NEW m \in 0..(Len(s) - 1)
        PROVE  Upto(s, m + 1) = Append(Upto(s, m), s[m + 1])
    <2>1. /\ m \in Nat /\ m + 1 \in 0..Len(s) /\ m \in 0..Len(s) /\ s[m + 1] \in S
      OBVIOUS
    <2> DEFINE a == Upto(s, m + 1)
               b == Append(Upto(s, m), s[m + 1])
    <2>2. a \in Seq(S) /\ Len(a) = m + 1 /\ \A i \in 1..(m + 1) : a[i] = s[i]
      BY <1>1, <1>2, <2>1
    <2>3. b \in Seq(S) /\ Len(b) = m + 1 /\ \A i \in 1..(m + 1) : b[i] = s[i]
      <3> DEFINE c == Upto(s, m)
      <3>1. c \in Seq(S) /\ Len(c) = m /\ \A i \in 1..m : c[i] = s[i]
        BY <1>1, <1>2, <2>1
      <3> HIDE DEF c
      <3>2. /\ Append(c, s[m + 1]) \in Seq(S) /\ Len(Append(c, s[m + 1])) = m + 1
            /\ \A i \in 1..(m + 1) : Append(c, s[m + 1])[i] = s[i]
        BY <2>1, <3>1
      <3> QED BY <3>2 DEF c
    <2> HIDE DEF a, b
    <2>4. a = b
      BY <2>1, <2>2, <2>3, SeqEqual
    <2> QED BY <2>4 DEF a, b
  <1> QED BY <1>1, <1>2, <1>3, <1>4, <1>5

(* The function FlattenSeq defines is the flattening of every prefix.      *)
LEMMA FlattenedPrefixes ==
  ASSUME NEW S, NEW ss \in Seq(Seq(S)), NEW f, IsFlattening(f, ss, Len(ss)),
         NEW n \in 1..Len(ss)
  PROVE  FlattenSeq(Upto(ss, n)) = f[n]
  <1> DEFINE tt == Upto(ss, n)
  <1> DEFINE g == CHOOSE g : g = [i \in 1..n |-> IF i = 1 THEN tt[i] ELSE g[i - 1] \o tt[i]]
  <1>1. n \in Nat /\ n # 0 /\ Len(tt) = n /\ \A i \in 1..n : tt[i] = ss[i]
    BY UptoFacts
  <1> HIDE DEF tt
  <1>2. \E h : h = [i \in 1..n |-> IF i = 1 THEN tt[i] ELSE h[i - 1] \o tt[i]]
    <2>1. n \in 1..n
      BY <1>1
    <2>2. \E h : IsFlattening(h, tt, n)
      BY <1>1, <2>1, FlatteningExists
    <2> QED BY <2>2 DEF IsFlattening
  <1>3. g = [i \in 1..n |-> IF i = 1 THEN tt[i] ELSE g[i - 1] \o tt[i]]
    BY <1>2
  <1>4. FlattenSeq(tt) = g[n]
    BY <1>1 DEF FlattenSeq
  <1> HIDE DEF g
  <1>5. \A i \in 1..n : f[i] = IF i = 1 THEN ss[i] ELSE f[i - 1] \o ss[i]
    <2>1. f = [i \in 1..Len(ss) |-> IF i = 1 THEN ss[i] ELSE f[i - 1] \o ss[i]]
      BY DEF IsFlattening
    <2>2. \A i \in 1..n : i \in 1..Len(ss)
      OBVIOUS
    <2> QED BY <2>1, <2>2
  <1> DEFINE Bad == {i \in 1..n : g[i] # f[i]}
  <1>6. ASSUME Bad # {} PROVE FALSE
    <2>1. Bad \in SUBSET Nat
      OBVIOUS
    <2> HIDE DEF Bad
    <2>2. PICK i \in Bad : \A j \in Bad : i <= j
      BY <1>6, <2>1, LeastIndex
    <2>3. i \in 1..n /\ g[i] # f[i]
      BY <2>2 DEF Bad
    <2>4. CASE i = 1
      BY <1>1, <1>3, <1>5, <2>3, <2>4
    <2>5. CASE i # 1
      <3>1. i - 1 \in 1..n /\ ~(i <= i - 1)
        BY <2>3, <2>5
      <3>2. g[i - 1] = f[i - 1]
        BY <2>2, <3>1 DEF Bad
      <3>3. g[i] = g[i - 1] \o tt[i]
        BY <1>3, <2>3, <2>5
      <3>4. f[i] = f[i - 1] \o ss[i]
        BY <1>5, <2>3, <2>5
      <3> QED BY <1>1, <2>3, <3>2, <3>3, <3>4
    <2> QED BY <2>4, <2>5
  <1>7. g[n] = f[n]
    BY <1>6
  <1> QED BY <1>4, <1>7 DEF tt

LEMMA FlattenEmpty == FlattenSeq(<<>>) = <<>>
  BY DEF FlattenSeq

LEMMA FlattenStep ==
  ASSUME NEW S, NEW ss \in Seq(Seq(S)), NEW m \in 0..(Len(ss) - 1)
  PROVE  FlattenSeq(Upto(ss, m + 1)) = FlattenSeq(Upto(ss, m)) \o ss[m + 1]
  <1>1. PICK f : IsFlattening(f, ss, Len(ss))
    <2>1. Len(ss) \in Nat /\ Len(ss) \in 1..Len(ss)
      OBVIOUS
    <2> QED BY <2>1, FlatteningExists
  <1>2. m \in Nat /\ m + 1 \in 1..Len(ss) /\ ss[m + 1] \in Seq(S)
    OBVIOUS
  <1>3. FlattenSeq(Upto(ss, m + 1)) = f[m + 1]
    BY <1>1, <1>2, FlattenedPrefixes
  <1>4. f[m + 1] = IF m + 1 = 1 THEN ss[m + 1] ELSE f[(m + 1) - 1] \o ss[m + 1]
    BY <1>1, <1>2 DEF IsFlattening
  <1>5. CASE m = 0
    <2>1. FlattenSeq(Upto(ss, m)) = <<>>
      BY <1>5, UptoFacts, FlattenEmpty
    <2> QED BY <1>2, <1>3, <1>4, <1>5, <2>1
  <1>6. CASE m # 0
    <2>1. m \in 1..Len(ss) /\ (m + 1) - 1 = m /\ m + 1 # 1
      BY <1>2, <1>6
    <2>2. FlattenSeq(Upto(ss, m)) = f[m]
      BY <1>1, <2>1, FlattenedPrefixes
    <2> QED BY <1>3, <1>4, <2>1, <2>2
  <1> QED BY <1>5, <1>6

LEMMA FlattenAppended ==
  ASSUME NEW S, NEW ss \in Seq(Seq(S)), NEW x \in Seq(S)
  PROVE  FlattenSeq(Append(ss, x)) = FlattenSeq(ss) \o x
  <1> DEFINE tt == Append(ss, x)
  <1> DEFINE m == Len(ss)
  <1>1. tt \in Seq(Seq(S)) /\ Len(tt) = m + 1 /\ m \in Nat /\ tt[m + 1] = x
    OBVIOUS
  <1>2. \A i \in 1..m : tt[i] = ss[i]
    OBVIOUS
  <1>3. Upto(tt, m) = Upto(ss, m)
    BY <1>2 DEF Upto
  <1>4. Upto(ss, m) = ss
    BY UptoFacts
  <1> HIDE DEF tt, m
  <1>5. m \in 0..(Len(tt) - 1)
    BY <1>1
  <1>6. Upto(tt, m + 1) = tt
    BY <1>1, UptoFacts
  <1>7. FlattenSeq(tt) = FlattenSeq(ss) \o x
    BY <1>1, <1>3, <1>4, <1>5, <1>6, FlattenStep
  <1> QED BY <1>7 DEF tt

LEMMA FlattenSingle ==
  ASSUME NEW S, NEW x \in Seq(S)
  PROVE  FlattenSeq(<<x>>) = x
  <1>1. <<>> \in Seq(Seq(S)) /\ Append(<<>>, x) = <<x>> /\ <<>> \o x = x
    OBVIOUS
  <1> QED BY <1>1, FlattenAppended, FlattenEmpty

LEMMA FlattenConcat ==
  ASSUME NEW S, NEW ss \in Seq(Seq(S)), NEW tt \in Seq(Seq(S))
  PROVE  FlattenSeq(ss \o tt) = FlattenSeq(ss) \o FlattenSeq(tt)
  <1> DEFINE n == Len(tt)
  <1> DEFINE Bad == {m \in 0..n : FlattenSeq(ss \o Upto(tt, m)) # FlattenSeq(ss) \o FlattenSeq(Upto(tt, m))}
  <1>1. n \in Nat /\ FlattenSeq(ss) \in Seq(S)
    BY FlattenedOrigin
  <1>2. ASSUME Bad # {} PROVE FALSE
    <2>1. Bad \in SUBSET Nat
      OBVIOUS
    <2>2. PICK m \in Bad : \A j \in Bad : m <= j
      <3> HIDE DEF Bad
      <3> QED BY <1>2, <2>1, LeastIndex
    <2>3. m \in 0..n /\ FlattenSeq(ss \o Upto(tt, m)) # FlattenSeq(ss) \o FlattenSeq(Upto(tt, m))
      BY <2>2
    <2>4. m # 0
      <3>1. ss \o <<>> = ss /\ FlattenSeq(ss) \o <<>> = FlattenSeq(ss)
        BY <1>1
      <3>2. Upto(tt, 0) = <<>>
        BY UptoFacts
      <3> QED BY <2>3, <3>1, <3>2, FlattenEmpty
    <2> DEFINE k == m - 1
    <2>5. k \in 0..(n - 1) /\ k + 1 = m /\ k \in 0..n /\ ~(m <= k)
      BY <1>1, <2>3, <2>4
    <2> HIDE DEF k
    <2>6. FlattenSeq(ss \o Upto(tt, k)) = FlattenSeq(ss) \o FlattenSeq(Upto(tt, k))
      BY <2>2, <2>5
    <2> DEFINE part == Upto(tt, k)
    <2>7. /\ part \in Seq(Seq(S)) /\ Upto(tt, m) = Append(part, tt[m]) /\ tt[m] \in Seq(S)
      <3>1. part \in Seq(Seq(S)) /\ Upto(tt, k + 1) = Append(part, tt[k + 1])
        BY <2>5, UptoFacts
      <3>2. m \in 1..n
        BY <1>1, <2>3, <2>4
      <3>3. tt[m] \in Seq(S)
        BY <3>2
      <3> QED BY <2>5, <3>1, <3>3
    <2> HIDE DEF part, Bad
    <2>8. FlattenSeq(Upto(tt, m)) = FlattenSeq(part) \o tt[m] /\ FlattenSeq(part) \in Seq(S)
      BY <2>7, FlattenAppended, FlattenedOrigin
    <2>9. ss \o Append(part, tt[m]) = Append(ss \o part, tt[m]) /\ ss \o part \in Seq(Seq(S))
      BY <2>7
    <2>10. FlattenSeq(Append(ss \o part, tt[m])) = FlattenSeq(ss \o part) \o tt[m]
      BY <2>7, <2>9, FlattenAppended
    <2>11. (FlattenSeq(ss) \o FlattenSeq(part)) \o tt[m] = FlattenSeq(ss) \o (FlattenSeq(part) \o tt[m])
      <3>1. /\ FlattenSeq(ss) \in Seq(S) /\ FlattenSeq(part) \in Seq(S) /\ tt[m] \in Seq(S)
        BY <1>1, <2>7, <2>8
      <3>2. \A a, b, c \in Seq(S) : (a \o b) \o c = a \o (b \o c)
        BY ConcatAssociative
      <3> QED BY ONLY <3>1, <3>2
    <2> QED BY <2>3, <2>6, <2>7, <2>8, <2>9, <2>10, <2>11 DEF part
  <1>3. n \in 0..n /\ Upto(tt, n) = tt
    BY <1>1, UptoFacts
  <1> QED BY <1>2, <1>3

(* What is made of a flattening is the flattening of what is made of its   *)
(* parts.                                                                  *)
Through(g, s) == [k \in DOMAIN s |-> g[s[k]]]

LEMMA ThroughTyped ==
  ASSUME NEW S, NEW T, NEW g \in [S -> T], NEW s \in Seq(S)
  PROVE  Through(g, s) \in Seq(T) /\ Len(Through(g, s)) = Len(s)
  BY DEF Through

LEMMA ThroughConcat ==
  ASSUME NEW S, NEW g, NEW a \in Seq(S), NEW b \in Seq(S)
  PROVE  Through(g, a \o b) = Through(g, a) \o Through(g, b)
  <1> DEFINE T == {g[x] : x \in S}
  <1>t. ASSUME NEW s \in Seq(S)
        PROVE  Through(g, s) \in Seq(T) /\ Len(Through(g, s)) = Len(s)
    BY DEF Through
  <1> HIDE DEF T
  <1> DEFINE l == Through(g, a \o b)
             p == Through(g, a)
             q == Through(g, b)
  <1>1. a \o b \in Seq(S) /\ Len(a \o b) = Len(a) + Len(b) /\ Len(a) \in Nat /\ Len(b) \in Nat
    OBVIOUS
  <1>2. l \in Seq(T) /\ Len(l) = Len(a) + Len(b)
    BY <1>t, <1>1
  <1>3. /\ p \in Seq(T) /\ Len(p) = Len(a) /\ q \in Seq(T) /\ Len(q) = Len(b)
    BY <1>t
  <1>3a. DOMAIN a = 1..Len(a) /\ DOMAIN b = 1..Len(b)
    OBVIOUS
  <1>3b. /\ \A i \in 1..Len(a) : p[i] = g[a[i]]
         /\ \A i \in 1..Len(b) : q[i] = g[b[i]]
    BY <1>3a DEF Through
  <1>4. \A i \in 1..(Len(a) + Len(b)) : l[i] = g[(a \o b)[i]]
    <2>1. DOMAIN (a \o b) = 1..(Len(a) + Len(b))
      BY <1>1
    <2> QED BY <2>1 DEF Through
  <1> HIDE DEF l, p, q
  <1>5. p \o q \in Seq(T) /\ Len(p \o q) = Len(a) + Len(b)
    BY <1>1, <1>3
  <1>6. ASSUME NEW i \in 1..(Len(a) + Len(b)) PROVE l[i] = (p \o q)[i]
    <2>1. CASE i <= Len(a)
      <3>1. i \in 1..Len(a) /\ (a \o b)[i] = a[i] /\ (p \o q)[i] = p[i]
        BY <1>1, <1>3, <2>1
      <3> QED BY <1>3b, <1>4, <3>1
    <2>2. CASE i > Len(a)
      <3>1. /\ i - Len(a) \in 1..Len(b) /\ (a \o b)[i] = b[i - Len(a)]
            /\ (p \o q)[i] = q[i - Len(a)]
        BY <1>1, <1>3, <2>2
      <3>2. q[i - Len(a)] = g[b[i - Len(a)]]
        BY <1>3b, <3>1
      <3>3. l[i] = g[(a \o b)[i]]
        BY <1>4
      <3> QED BY ONLY <3>1, <3>2, <3>3
    <2>3. i <= Len(a) \/ i > Len(a)
      BY <1>1
    <2> QED BY ONLY <2>1, <2>2, <2>3
  <1>7. l = p \o q
    BY <1>2, <1>5, <1>6, SeqEqual
  <1> QED BY <1>7 DEF l, p, q

LEMMA ThroughFew ==
  ASSUME NEW g
  PROVE  /\ Through(g, <<>>) = <<>>
         /\ \A x : Through(g, <<x>>) = <<g[x]>>
  BY DEF Through

LEMMA FlattenThrough ==
  ASSUME NEW S, NEW T, NEW g \in [S -> Seq(T)], NEW ss \in Seq(Seq(S))
  PROVE  FlattenSeq(Through(g, FlattenSeq(ss)))
           = FlattenSeq([i \in DOMAIN ss |-> FlattenSeq(Through(g, ss[i]))])
  <1> DEFINE n == Len(ss)
  <1> DEFINE parts == [i \in DOMAIN ss |-> FlattenSeq(Through(g, ss[i]))]
  <1>1. n \in Nat /\ DOMAIN ss = 1..n /\ \A i \in 1..n : ss[i] \in Seq(S)
    OBVIOUS
  <1>2. parts \in Seq(Seq(T)) /\ Len(parts) = n
    <2>1. DOMAIN parts = 1..n /\ parts = [i \in DOMAIN parts |-> parts[i]]
      BY <1>1
    <2>2. ASSUME NEW i \in DOMAIN parts PROVE parts[i] \in Seq(T)
      <3>1. Through(g, ss[i]) \in Seq(Seq(T))
        BY <1>1, ThroughTyped
      <3> QED BY <3>1, FlattenedOrigin
    <2> HIDE DEF parts
    <2> QED BY <1>1, <2>1, <2>2, SequenceOf
  <1>3. \A i \in 1..n : parts[i] = FlattenSeq(Through(g, ss[i]))
    BY <1>1
  <1>0. /\ \A s \in Seq(S) : Through(g, s) \in Seq(Seq(T))
        /\ \A a, b \in Seq(S) : Through(g, a \o b) = Through(g, a) \o Through(g, b)
    <2>1. \A s \in Seq(S) : Through(g, s) \in Seq(Seq(T))
      <3> DEFINE U == Seq(T)
      <3> HIDE DEF U
      <3>1. g \in [S -> U]
        BY DEF U
      <3>2. \A s \in Seq(S) : Through(g, s) \in Seq(U)
        BY <3>1, ThroughTyped
      <3> QED BY <3>2 DEF U
    <2>2. \A a, b \in Seq(S) : Through(g, a \o b) = Through(g, a) \o Through(g, b)
      BY ThroughConcat
    <2> QED BY <2>1, <2>2
  <1> HIDE DEF parts, n
  <1> DEFINE Bad == {m \in 0..n : FlattenSeq(Through(g, FlattenSeq(Upto(ss, m)))) # FlattenSeq(Upto(parts, m))}
  <1>4. ASSUME Bad # {} PROVE FALSE
    <2>1. Bad \in SUBSET Nat
      OBVIOUS
    <2>2. PICK m \in Bad : \A j \in Bad : m <= j
      <3> HIDE DEF Bad
      <3> QED BY <1>4, <2>1, LeastIndex
    <2>3. m \in 0..n /\ FlattenSeq(Through(g, FlattenSeq(Upto(ss, m)))) # FlattenSeq(Upto(parts, m))
      BY <2>2
    <2>4. m # 0
      <3>1. Upto(ss, 0) = <<>> /\ Upto(parts, 0) = <<>>
        BY <1>2, UptoFacts
      <3>2. Through(g, <<>>) = <<>>
        BY ThroughFew
      <3> QED BY <2>3, <3>1, <3>2, FlattenEmpty
    <2> DEFINE k == m - 1
    <2>5. k \in 0..(n - 1) /\ k + 1 = m /\ k \in 0..n /\ ~(m <= k) /\ m \in 1..n
      BY <1>1, <2>3, <2>4
    <2> HIDE DEF k
    <2>6. FlattenSeq(Through(g, FlattenSeq(Upto(ss, k)))) = FlattenSeq(Upto(parts, k))
      BY <2>2, <2>5
    <2> HIDE DEF Bad
    <2> DEFINE a == FlattenSeq(Upto(ss, k))
    <2>7. FlattenSeq(Upto(ss, m)) = a \o ss[m]
      BY <2>5, FlattenStep DEF n
    <2>8. FlattenSeq(Upto(parts, m)) = FlattenSeq(Upto(parts, k)) \o parts[m]
      BY <1>2, <2>5, FlattenStep
    <2>9. Upto(ss, k) \in Seq(Seq(S))
      BY <2>5, UptoFacts DEF n
    <2>10. a \in Seq(S) /\ ss[m] \in Seq(S)
      BY <1>1, <2>5, <2>9, FlattenedOrigin
    <2> HIDE DEF a
    <2>11. Through(g, a \o ss[m]) = Through(g, a) \o Through(g, ss[m])
      BY <1>0, <2>10
    <2>12. Through(g, a) \in Seq(Seq(T)) /\ Through(g, ss[m]) \in Seq(Seq(T))
      BY <1>0, <2>10
    <2>13. FlattenSeq(Through(g, a) \o Through(g, ss[m]))
             = FlattenSeq(Through(g, a)) \o FlattenSeq(Through(g, ss[m]))
      BY <2>12, FlattenConcat
    <2>14. parts[m] = FlattenSeq(Through(g, ss[m]))
      BY <1>3, <2>5
    <2> QED BY <2>3, <2>6, <2>7, <2>8, <2>11, <2>13, <2>14 DEF a
  <1>5. n \in 0..n /\ Upto(ss, n) = ss /\ Upto(parts, n) = parts
    BY <1>1, <1>2, UptoFacts DEF n
  <1>6. FlattenSeq(Through(g, FlattenSeq(ss))) = FlattenSeq(parts)
    BY <1>4, <1>5
  <1> QED BY <1>6 DEF parts

Where(g, s, K) == [i \in DOMAIN s |-> IF i \in K THEN g[s[i]] ELSE <<>>]

LEMMA PickedThrough ==
  ASSUME NEW S, NEW T, NEW g \in [S -> Seq(T)], NEW s \in Seq(S), NEW K
  PROVE  FlattenSeq(Through(g, Picked(s, K))) = FlattenSeq(Where(g, s, K))
  <1> DEFINE ss == [i \in DOMAIN s |-> IF i \in K THEN <<s[i]>> ELSE <<>>]
  <1> DEFINE l == [i \in DOMAIN ss |-> FlattenSeq(Through(g, ss[i]))]
  <1> DEFINE r == [i \in DOMAIN s |-> IF i \in K THEN g[s[i]] ELSE <<>>]
  <1>1. ss \in Seq(Seq(S)) /\ DOMAIN ss = DOMAIN s
    <2>1. DOMAIN s = 1..Len(s) /\ Len(s) \in Nat /\ \A i \in DOMAIN s : s[i] \in S
      OBVIOUS
    <2>2. DOMAIN ss = 1..Len(s) /\ ss = [i \in DOMAIN ss |-> ss[i]]
      BY <2>1
    <2>3. \A i \in DOMAIN ss : ss[i] \in Seq(S)
      BY <2>1
    <2> HIDE DEF ss
    <2> QED BY <2>1, <2>2, <2>3, SequenceOf
  <1>2. ASSUME NEW i \in DOMAIN s PROVE FlattenSeq(Through(g, ss[i])) = r[i]
    <2>1. s[i] \in S
      OBVIOUS
    <2>2. CASE i \in K
      <3>1. ss[i] = <<s[i]>> /\ r[i] = g[s[i]]
        BY <2>2
      <3>2. Through(g, <<s[i]>>) = <<g[s[i]]>> /\ g[s[i]] \in Seq(T)
        BY <2>1, ThroughFew
      <3> HIDE DEF ss, r
      <3> QED BY <3>1, <3>2, FlattenSingle
    <2>3. CASE i \notin K
      <3>1. ss[i] = <<>> /\ r[i] = <<>>
        BY <2>3
      <3>2. Through(g, <<>>) = <<>>
        BY ThroughFew
      <3> HIDE DEF ss, r
      <3> QED BY <3>1, <3>2, FlattenEmpty
    <2> QED BY <2>2, <2>3
  <1>3. DOMAIN r = DOMAIN s /\ r = [i \in DOMAIN r |-> r[i]]
    OBVIOUS
  <1>4. Picked(s, K) = FlattenSeq(ss)
    BY DEF Picked
  <1> HIDE DEF ss, r
  <1>5. l = r
    BY <1>1, <1>2, <1>3
  <1> HIDE DEF l
  <1>6. FlattenSeq(Through(g, FlattenSeq(ss))) = FlattenSeq(l)
    BY <1>1, FlattenThrough DEF l
  <1> QED BY <1>4, <1>5, <1>6 DEF r, Where

(* A flattening begins where its first part that is not empty does.        *)
LEMMA FlattenedHead ==
  ASSUME NEW S, NEW ss \in Seq(Seq(S)), NEW m \in 1..Len(ss), ss[m] # <<>>,
         \A i \in 1..(m - 1) : ss[i] = <<>>
  PROVE  FlattenSeq(ss) # <<>> /\ FlattenSeq(ss)[1] = ss[m][1]
  <1> DEFINE n == Len(ss)
  <1> DEFINE Good(k) == IF k < m THEN FlattenSeq(Upto(ss, k)) = <<>>
                        ELSE FlattenSeq(Upto(ss, k)) # <<>> /\ FlattenSeq(Upto(ss, k))[1] = ss[m][1]
  <1> DEFINE Bad == {k \in 0..n : ~Good(k)}
  <1>1. n \in Nat /\ m \in 1..n /\ \A k \in 1..n : ss[k] \in Seq(S)
    OBVIOUS
  <1>2. ASSUME Bad # {} PROVE FALSE
    <2>1. Bad \in SUBSET Nat
      OBVIOUS
    <2>2. PICK k \in Bad : \A j \in Bad : k <= j
      <3> HIDE DEF Bad
      <3> QED BY <1>2, <2>1, LeastIndex
    <2>3. k \in 0..n /\ ~Good(k)
      BY <2>2
    <2>4. k # 0
      BY <1>1, <2>3, UptoFacts, FlattenEmpty
    <2> DEFINE j == k - 1
    <2>5. j \in 0..(n - 1) /\ j + 1 = k /\ j \in 0..n /\ ~(k <= j) /\ k \in 1..n
      BY <1>1, <2>3, <2>4
    <2> HIDE DEF j
    <2>6. Good(j)
      BY <2>2, <2>5
    <2> DEFINE a == FlattenSeq(Upto(ss, j))
    <2>7. FlattenSeq(Upto(ss, k)) = a \o ss[k]
      BY <2>5, FlattenStep
    <2>8. Upto(ss, j) \in Seq(Seq(S))
      BY <2>5, UptoFacts
    <2>9. a \in Seq(S) /\ ss[k] \in Seq(S)
      BY <1>1, <2>5, <2>8, FlattenedOrigin
    <2>10. CASE k < m
      <3>1. a = <<>> /\ ss[k] = <<>>
        BY <1>1, <2>5, <2>6, <2>10
      <3>2. <<>> \o <<>> = <<>>
        OBVIOUS
      <3> QED BY <2>3, <2>7, <2>10, <3>1, <3>2
    <2>11. CASE k = m
      <3>1. a = <<>>
        BY <1>1, <2>5, <2>6, <2>11
      <3>2. a \o ss[k] = ss[m]
        BY <2>9, <2>11, <3>1
      <3> QED BY <1>1, <2>3, <2>7, <2>11, <3>2
    <2>12. CASE k > m
      <3>1. a # <<>> /\ a[1] = ss[m][1]
        BY <1>1, <2>5, <2>6, <2>12
      <3> HIDE DEF a
      <3>2. a \o ss[k] # <<>> /\ (a \o ss[k])[1] = a[1]
        BY <2>9, <3>1
      <3>3. ~(k < m)
        BY <1>1, <2>5, <2>12
      <3> QED BY <2>3, <2>7, <3>1, <3>2, <3>3 DEF a
    <2> QED BY <1>1, <2>5, <2>10, <2>11, <2>12
  <1>3. Upto(ss, n) = ss /\ n \in 0..n /\ ~(n < m)
    BY <1>1, UptoFacts
  <1> QED BY <1>2, <1>3

LEMMA NothingIn ==
  ASSUME NEW S, NEW s \in Seq(S), DOMAIN s = {}
  PROVE  s = <<>>
  <1>1. Len(s) \in Nat /\ ~(1 \in 1..Len(s))
    OBVIOUS
  <1>2. Len(s) = 0
    BY <1>1
  <1> QED BY <1>2

LEMMA FlattenEmpties ==
  ASSUME NEW S, NEW ss \in Seq(Seq(S)), \A i \in DOMAIN ss : ss[i] = <<>>
  PROVE  FlattenSeq(ss) = <<>>
  <1>1. FlattenSeq(ss) \in Seq(S)
    BY FlattenedOrigin
  <1>2. PICK at : IsOrigin(at, ss, FlattenSeq(ss), Len(ss))
    BY FlattenedOrigin
  <1>3. DOMAIN ss = 1..Len(ss)
    OBVIOUS
  <1>4. ASSUME NEW k \in DOMAIN FlattenSeq(ss) PROVE FALSE
    <2>1. at[k] \in Cells(ss, Len(ss))
      BY <1>2, <1>4 DEF IsOrigin
    <2>2. at[k][1] \in DOMAIN ss /\ at[k][2] \in DOMAIN ss[at[k][1]]
      BY <1>3, <2>1, CellIsPair
    <2>3. DOMAIN ss[at[k][1]] = {}
      BY <2>2
    <2> QED BY <2>2, <2>3
  <1>5. DOMAIN FlattenSeq(ss) = {}
    BY <1>4
  <1> QED BY <1>1, <1>5, NothingIn

(* The type a block is reported under: that of all its constants, or the   *)
(* first that one of them states; and what the blocks reported under a     *)
(* type declare in a package.                                              *)
BlockType(block) ==
  IF Uniform(block) THEN GoType(block, 1)
  ELSE block[Least({k \in DOMAIN block : block[k].type # Null})].type

BlockConstants(files, dir, type) ==
  FlattenSeq([i \in DOMAIN files |-> IF files[i].dir # dir THEN <<>> ELSE
    FlattenSeq([b \in DOMAIN files[i].consts |->
      IF BlockType(files[i].consts[b]) = type THEN Declares(files[i].consts[b]) ELSE <<>>])])

(* A block is reported under the type its first typed constant states.     *)
LEMMA GoTypeFacts ==
  ASSUME NEW b \in Seq(ConstSpec), NEW m \in DOMAIN b
  PROVE  /\ b[m].type # Null => GoType(b, m) = b[m].type
         /\ (\A k \in DOMAIN b : b[k].type = Null) => GoType(b, m) = Null
  <1> DEFINE stated == {j \in DOMAIN b : j <= m /\ (b[j].type # Null \/ b[j].valued)}
             last == CHOOSE j \in stated : \A i \in stated : i <= j
  <1>1. GoType(b, m) = IF stated = {} THEN Null ELSE b[last].type
    BY DEF GoType
  <1>2. \A i \in DOMAIN b : i \in Nat
    OBVIOUS
  <1>3. ASSUME b[m].type # Null PROVE last = m /\ stated # {}
    <2>1. m \in stated
      BY <1>2, <1>3
    <2>2. \A i \in stated : i \in Nat /\ i <= m
      BY <1>2
    <2> HIDE DEF stated
    <2>3. \E j \in stated : \A i \in stated : i <= j
      BY <2>1, <2>2
    <2>4. last \in stated /\ \A i \in stated : i <= last
      BY <2>3
    <2>5. last \in Nat /\ m \in Nat /\ m <= last /\ last <= m
      BY <2>1, <2>2, <2>4
    <2> HIDE DEF last
    <2> QED BY <2>1, <2>5
  <1>4. ASSUME \A k \in DOMAIN b : b[k].type = Null, stated # {} PROVE b[last].type = Null
    <2>1. stated \in SUBSET Nat
      BY <1>2
    <2>2. \E j \in stated : \A i \in stated : i <= j
      <3> DEFINE Far == {m - i : i \in stated}
      <3>1. Far \in SUBSET Nat /\ Far # {}
        BY <1>2, <1>4
      <3> HIDE DEF Far
      <3>2. PICK d \in Far : \A e \in Far : d <= e
        BY <3>1, LeastIndex
      <3>3. PICK j \in stated : d = m - j
        BY <3>2 DEF Far
      <3>4. \A i \in stated : m - i \in Far
        BY DEF Far
      <3> HIDE DEF stated
      <3>5. m \in Nat /\ \A i \in stated : i <= j
        BY <1>2, <2>1, <3>2, <3>3, <3>4
      <3> QED BY <3>5
    <2>3. last \in DOMAIN b
      BY <2>2
    <2> HIDE DEF last, stated
    <2> QED BY <1>4, <2>3
  <1> HIDE DEF last
  <1>5. b[m].type # Null => GoType(b, m) = b[m].type
    BY <1>1, <1>3
  <1>6. (\A k \in DOMAIN b : b[k].type = Null) => GoType(b, m) = Null
    BY <1>1, <1>4
  <1> QED BY <1>5, <1>6

LEMMA BlockTypeIsFirst ==
  ASSUME NEW b \in Seq(ConstSpec)
  PROVE  /\ Typed(b) = <<>> => BlockType(b) = Null
         /\ Typed(b) # <<>> => Typed(b)[1].type = BlockType(b) /\ BlockType(b) # Null
  <1> DEFINE K == {k \in DOMAIN b : b[k].type # Null}
  <1>1. Typed(b) \in Seq(ConstSpec) /\ \E of : IsSelection(of, b, Typed(b), K)
    BY TypedFacts
  <1>2. CASE K = {}
    <2>1. Typed(b) = <<>>
      <3>1. \A k \in DOMAIN Typed(b) : FALSE
        <4>1. PICK of : of \in [DOMAIN Typed(b) -> K]
          BY <1>1 DEF IsSelection
        <4>2. \A k \in DOMAIN Typed(b) : of[k] \in K
          BY <4>1
        <4> HIDE DEF K
        <4> QED BY <1>2, <4>2
      <3>2. DOMAIN Typed(b) = {}
        BY <3>1
      <3> QED BY <1>1, <3>2, NothingIn
    <2>2. \A k \in DOMAIN b : b[k].type = Null
      BY <1>2
    <2>3. \A k \in DOMAIN b : GoType(b, k) = Null
      BY <2>2, GoTypeFacts
    <2>4. GoType(b, 1) = Null
      <3>1. CASE b = <<>>
        <4>1. {j \in DOMAIN b : j <= 1 /\ (b[j].type # Null \/ b[j].valued)} = {}
          <5>1. DOMAIN b = {}
            BY <3>1
          <5> QED BY <5>1
        <4> QED BY <4>1 DEF GoType
      <3>2. CASE b # <<>>
        <4>1. 1 \in DOMAIN b
          BY <3>2
        <4> QED BY <2>3, <4>1
      <3> QED BY <3>1, <3>2
    <2>5. BlockType(b) = Null
      BY <2>3, <2>4 DEF BlockType, Uniform
    <2> QED BY <2>1, <2>5
  <1>3. CASE K # {}
    <2> DEFINE m == Least(K)
    <2>1. m \in K /\ \A j \in K : m <= j
      <3>1. K \in SUBSET Nat
        OBVIOUS
      <3> HIDE DEF K
      <3> QED BY <1>3, <3>1, LeastFacts
    <2> DEFINE ss == [i \in DOMAIN b |-> IF i \in K THEN <<b[i]>> ELSE <<>>]
    <2>2. Typed(b) = FlattenSeq(ss)
      BY DEF Typed, Kept
    <2> HIDE DEF m
    <2>3. DOMAIN b = 1..Len(b) /\ Len(b) \in Nat /\ m \in 1..Len(b) /\ \A i \in DOMAIN b : b[i] \in ConstSpec
      BY <2>1
    <2>4. ss \in Seq(Seq(ConstSpec)) /\ Len(ss) = Len(b)
      <3>1. DOMAIN ss = 1..Len(b) /\ ss = [i \in DOMAIN ss |-> ss[i]]
        BY <2>3
      <3>2. \A i \in DOMAIN ss : ss[i] \in Seq(ConstSpec)
        <4> HIDE DEF K, ConstSpec
        <4> QED BY <2>3
      <3> HIDE DEF ss
      <3> QED BY <2>3, <3>1, <3>2, SequenceOf
    <2>5. ss[m] = <<b[m]>> /\ \A i \in 1..(m - 1) : ss[i] = <<>>
      <3>1. ss[m] = <<b[m]>>
        BY <2>1
      <3>2. ASSUME NEW i \in 1..(m - 1) PROVE ss[i] = <<>>
        <4>1. i \in DOMAIN b /\ ~(m <= i)
          BY <2>3
        <4>2. i \notin K
          BY <2>1, <4>1
        <4> HIDE DEF K
        <4> QED BY <4>1, <4>2
      <3> QED BY <3>1, <3>2
    <2> HIDE DEF ss
    <2>6. Typed(b) # <<>> /\ Typed(b)[1] = b[m]
      <3>1. ss[m] # <<>> /\ ss[m][1] = b[m]
        BY <2>5
      <3>2. FlattenSeq(ss) # <<>> /\ FlattenSeq(ss)[1] = ss[m][1]
        BY <2>3, <2>4, <2>5, <3>1, FlattenedHead
      <3> QED BY <2>2, <3>1, <3>2
    <2>7. b[m].type # Null /\ GoType(b, m) = b[m].type
      BY <2>1, GoTypeFacts
    <2>8. CASE Uniform(b)
      BY <2>1, <2>6, <2>7, <2>8 DEF BlockType, Uniform
    <2>9. CASE ~Uniform(b)
      BY <2>6, <2>7, <2>9 DEF BlockType, m
    <2> QED BY <2>6, <2>7, <2>8, <2>9
  <1> QED BY <1>2, <1>3

-----------------------------------------------------------------------------
(* What one file adds to an enum.                                          *)

FileConstants(f, dir, type) ==
  IF f.dir # dir THEN <<>>
  ELSE FlattenSeq([b \in DOMAIN f.consts |->
         IF BlockType(f.consts[b]) = type THEN Declares(f.consts[b]) ELSE <<>>])

Reported(dir, type) ==
  [r \in EnumRecord |-> IF r.name = <<type>> /\ r.dir = dir THEN r.members ELSE <<>>]

LEMMA ReportedTyped ==
  ASSUME NEW dir, NEW type
  PROVE  Reported(dir, type) \in [EnumRecord -> Seq(STRING)]
  <1>1. \A r \in EnumRecord : r.members \in Seq(STRING)
    BY DEF EnumRecord
  <1>2. <<>> \in Seq(STRING)
    OBVIOUS
  <1> HIDE DEF EnumRecord
  <1> QED BY <1>1, <1>2 DEF Reported

LEMMA FileBlocksOfType ==
  ASSUME NEW f \in SourceFile, NEW dir, NEW type, type # Null
  PROVE  FlattenSeq(Through(Reported(dir, type), ConstBlocksOf(f))) = FileConstants(f, dir, type)
  <1> DEFINE h == Reported(dir, type)
  <1> DEFINE K == {i \in DOMAIN f.consts : Typed(f.consts[i]) # <<>>}
  <1> DEFINE kept == Picked(f.consts, K)
  <1> DEFINE own == [b \in Seq(ConstSpec) |->
                       IF f.dir = dir /\ BlockType(b) = type THEN Declares(b) ELSE <<>>]
  <1>1. f.consts \in Seq(Seq(ConstSpec)) /\ K \in SUBSET DOMAIN f.consts
    BY SourceFileFields
  <1>2. kept \in Seq(Seq(ConstSpec)) /\ \E of : IsSelection(of, f.consts, kept, K)
    <2> HIDE DEF K
    <2> QED BY <1>1, PickedSelection
  <1>3. \A k \in DOMAIN kept : kept[k] \in Seq(ConstSpec) /\ Typed(kept[k]) # <<>>
    <2>1. PICK of : IsSelection(of, f.consts, kept, K)
      BY <1>2
    <2>2. \A k \in DOMAIN kept : of[k] \in K /\ kept[k] = f.consts[of[k]]
      BY <2>1 DEF IsSelection
    <2> HIDE DEF kept
    <2> QED BY <1>1, <2>2
  <1>4. own \in [Seq(ConstSpec) -> Seq(STRING)]
    <2>1. \A b \in Seq(ConstSpec) : Declares(b) \in Seq(STRING)
      BY DeclaresNames
    <2>2. <<>> \in Seq(STRING)
      OBVIOUS
    <2> HIDE DEF ConstSpec
    <2> QED BY <2>1, <2>2
  <1>5. ConstBlocksOf(f) = [k \in DOMAIN kept |-> ConstBlock(f, kept[k])]
    <2>1. Kept(f.consts, LAMBDA b : Typed(b) # <<>>) = kept
      BY DEF Kept, Picked
    <2>2. Mapped(kept, LAMBDA b : [name |-> <<Typed(b)[1].type>>, dir |-> f.dir, file |-> File(f),
                                   members |-> Declares(b)])
            = [k \in DOMAIN kept |-> ConstBlock(f, kept[k])]
      BY DEF Mapped, ConstBlock
    <2> HIDE DEF kept
    <2> QED BY <2>1, <2>2 DEF ConstBlocksOf
  <1> HIDE DEF kept
  <1>6. ASSUME NEW b \in Seq(ConstSpec), Typed(b) # <<>>
        PROVE  h[ConstBlock(f, b)] = own[b]
    <2>1. ConstBlock(f, b) \in EnumRecord
      BY <1>6, ConstBlockTyped
    <2>2. Typed(b)[1].type = BlockType(b)
      BY <1>6, BlockTypeIsFirst
    <2>3. /\ ConstBlock(f, b).name = <<BlockType(b)>> /\ ConstBlock(f, b).dir = f.dir
          /\ ConstBlock(f, b).members = Declares(b)
      BY <2>2 DEF ConstBlock
    <2>4. h[ConstBlock(f, b)] = IF <<BlockType(b)>> = <<type>> /\ f.dir = dir THEN Declares(b) ELSE <<>>
      <3> HIDE DEF EnumRecord
      <3> QED BY <2>1, <2>3 DEF Reported
    <2>5. <<BlockType(b)>> = <<type>> <=> BlockType(b) = type
      OBVIOUS
    <2> QED BY <2>4, <2>5
  <1>7. Through(h, ConstBlocksOf(f)) = Through(own, kept)
    <2> HIDE DEF h, own
    <2>1. \A k \in DOMAIN kept : h[ConstBlock(f, kept[k])] = own[kept[k]]
      BY <1>3, <1>6
    <2> QED BY <1>5, <2>1 DEF Through
  <1>8. FlattenSeq(Through(own, kept))
          = FlattenSeq([i \in DOMAIN f.consts |-> IF i \in K THEN own[f.consts[i]] ELSE <<>>])
    <2> DEFINE U == Seq(ConstSpec)
               s == f.consts
    <2>1. own \in [U -> Seq(STRING)] /\ s \in Seq(U)
      BY <1>1, <1>4
    <2> HIDE DEF own, K, U, s
    <2>2. FlattenSeq(Through(own, Picked(s, K))) = FlattenSeq(Where(own, s, K))
      BY <2>1, PickedThrough
    <2> QED BY <2>2 DEF kept, s, Where
  <1>9. ASSUME NEW i \in DOMAIN f.consts
        PROVE  (IF i \in K THEN own[f.consts[i]] ELSE <<>>)
                 = IF f.dir = dir /\ BlockType(f.consts[i]) = type THEN Declares(f.consts[i]) ELSE <<>>
    <2>1. f.consts[i] \in Seq(ConstSpec)
      BY <1>1
    <2>2. i \notin K => BlockType(f.consts[i]) = Null
      BY <2>1, BlockTypeIsFirst
    <2> QED BY <2>1, <2>2
  <1> DEFINE parts == [i \in DOMAIN f.consts |->
          IF f.dir = dir /\ BlockType(f.consts[i]) = type THEN Declares(f.consts[i]) ELSE <<>>]
  <1>10. FlattenSeq(Through(h, ConstBlocksOf(f))) = FlattenSeq(parts)
    <2>1. [i \in DOMAIN f.consts |-> IF i \in K THEN own[f.consts[i]] ELSE <<>>] = parts
      <3> HIDE DEF own, K
      <3> QED BY <1>9
    <2> HIDE DEF own, K, parts, h
    <2> QED BY <1>7, <1>8, <2>1
  <1>11. CASE f.dir = dir
    <2>1. parts = [b \in DOMAIN f.consts |->
                     IF BlockType(f.consts[b]) = type THEN Declares(f.consts[b]) ELSE <<>>]
      BY <1>11
    <2> HIDE DEF parts
    <2> QED BY <1>10, <1>11, <2>1 DEF FileConstants
  <1>12. CASE f.dir # dir
    <2>1. parts = [i \in DOMAIN f.consts |-> <<>>]
      BY <1>12
    <2>2. DOMAIN parts = 1..Len(f.consts) /\ Len(f.consts) \in Nat
      BY <1>1
    <2>3. <<>> \in Seq(STRING)
      OBVIOUS
    <2>4. \A i \in DOMAIN parts : parts[i] = <<>>
      BY <2>1
    <2>5. parts = [i \in DOMAIN parts |-> parts[i]]
      OBVIOUS
    <2> HIDE DEF parts
    <2>6. parts \in Seq(Seq(STRING))
      BY <2>2, <2>3, <2>4, <2>5, SequenceOf
    <2>7. FlattenSeq(parts) = <<>>
      BY <2>4, <2>6, FlattenEmpties
    <2> QED BY <1>10, <1>12, <2>7 DEF FileConstants
  <1> QED BY <1>11, <1>12

LEMMA BlocksOfType ==
  ASSUME NEW files \in Seq(SourceFile), NEW dir, NEW type, type # Null
  PROVE  FlattenSeq(Through(Reported(dir, type), ConstBlocks(files))) = BlockConstants(files, dir, type)
  <1> DEFINE h == Reported(dir, type)
             ss == [i \in DOMAIN files |-> ConstBlocksOf(files[i])]
  <1>1. ss \in Seq(Seq(EnumRecord)) /\ ConstBlocks(files) = FlattenSeq(ss) /\ DOMAIN ss = DOMAIN files
    BY ConstBlocksTyped
  <1>2. \A i \in DOMAIN files : ss[i] = ConstBlocksOf(files[i])
    OBVIOUS
  <1> HIDE DEF ss
  <1>3. h \in [EnumRecord -> Seq(STRING)]
    BY ReportedTyped
  <1>4. \A i \in DOMAIN files : FlattenSeq(Through(h, ConstBlocksOf(files[i]))) = FileConstants(files[i], dir, type)
    BY FileBlocksOfType
  <1> HIDE DEF h
  <1>5. FlattenSeq(Through(h, FlattenSeq(ss))) = FlattenSeq([i \in DOMAIN ss |-> FlattenSeq(Through(h, ss[i]))])
    BY <1>1, <1>3, FlattenThrough
  <1>6. [i \in DOMAIN ss |-> FlattenSeq(Through(h, ss[i]))]
          = [i \in DOMAIN files |-> FileConstants(files[i], dir, type)]
    BY <1>1, <1>2, <1>4
  <1>7. BlockConstants(files, dir, type) = FlattenSeq([i \in DOMAIN files |-> FileConstants(files[i], dir, type)])
    BY DEF BlockConstants, FileConstants
  <1> QED BY <1>1, <1>5, <1>6, <1>7 DEF h

-----------------------------------------------------------------------------
(* The enums of a unit.                                                    *)

(* Every block reported was declared, and every typed block is reported.   *)
LEMMA ConstBlocksDeclared ==
  ASSUME NEW files \in Seq(SourceFile)
  PROVE  /\ \A k \in DOMAIN ConstBlocks(files) :
              \E i \in DOMAIN files : \E b \in DOMAIN files[i].consts :
                /\ Typed(files[i].consts[b]) # <<>>
                /\ ConstBlocks(files)[k] = ConstBlock(files[i], files[i].consts[b])
         /\ \A i \in DOMAIN files : \A b \in DOMAIN files[i].consts :
              Typed(files[i].consts[b]) # <<>> =>
                \E k \in DOMAIN ConstBlocks(files) :
                  ConstBlocks(files)[k] = ConstBlock(files[i], files[i].consts[b])
  <1> DEFINE ss == [i \in DOMAIN files |-> ConstBlocksOf(files[i])]
             blocks == ConstBlocks(files)
  <1>1. /\ ss \in Seq(Seq(EnumRecord)) /\ Len(ss) = Len(files) /\ blocks = FlattenSeq(ss)
        /\ DOMAIN files = 1..Len(files)
    BY ConstBlocksTyped
  <1>2. \A i \in DOMAIN files : ss[i] = ConstBlocksOf(files[i])
    OBVIOUS
  <1> HIDE DEF ss, blocks
  <1>3. PICK at : IsOrigin(at, ss, blocks, Len(files))
    BY <1>1, FlattenedOrigin
  <1>4. ASSUME NEW k \in DOMAIN blocks
        PROVE  \E i \in DOMAIN files : \E b \in DOMAIN files[i].consts :
                 /\ Typed(files[i].consts[b]) # <<>>
                 /\ blocks[k] = ConstBlock(files[i], files[i].consts[b])
    <2> DEFINE i == at[k][1]
               c == at[k][2]
    <2>1. at[k] \in Cells(ss, Len(files)) /\ blocks[k] = ss[i][c]
      BY <1>3 DEF IsOrigin
    <2>2. i \in DOMAIN files /\ c \in DOMAIN ss[i]
      BY <1>1, <2>1, CellIsPair
    <2> HIDE DEF i, c
    <2>3. files[i] \in SourceFile /\ ss[i] = ConstBlocksOf(files[i])
      BY <1>2, <2>2
    <2>4. PICK of :
            /\ IsSelection(of, files[i].consts,
                           [l \in DOMAIN ConstBlocksOf(files[i]) |-> files[i].consts[of[l]]],
                           {b \in DOMAIN files[i].consts : Typed(files[i].consts[b]) # <<>>})
            /\ \A l \in DOMAIN ConstBlocksOf(files[i]) :
                 ConstBlocksOf(files[i])[l] = ConstBlock(files[i], files[i].consts[of[l]])
      BY <2>3, ConstBlocksReported
    <2>5. of[c] \in {b \in DOMAIN files[i].consts : Typed(files[i].consts[b]) # <<>>}
      BY <2>2, <2>3, <2>4 DEF IsSelection
    <2>6. blocks[k] = ConstBlock(files[i], files[i].consts[of[c]])
      BY <2>1, <2>2, <2>3, <2>4
    <2> QED BY <2>2, <2>5, <2>6
  <1>5. ASSUME NEW i \in DOMAIN files, NEW b \in DOMAIN files[i].consts, Typed(files[i].consts[b]) # <<>>
        PROVE  \E k \in DOMAIN blocks : blocks[k] = ConstBlock(files[i], files[i].consts[b])
    <2>1. files[i] \in SourceFile /\ ss[i] = ConstBlocksOf(files[i]) /\ i \in 1..Len(files)
      BY <1>1, <1>2
    <2>2. PICK of :
            /\ IsSelection(of, files[i].consts,
                           [l \in DOMAIN ConstBlocksOf(files[i]) |-> files[i].consts[of[l]]],
                           {c \in DOMAIN files[i].consts : Typed(files[i].consts[c]) # <<>>})
            /\ \A l \in DOMAIN ConstBlocksOf(files[i]) :
                 ConstBlocksOf(files[i])[l] = ConstBlock(files[i], files[i].consts[of[l]])
      BY <2>1, ConstBlocksReported
    <2>3. PICK l \in DOMAIN ConstBlocksOf(files[i]) : of[l] = b
      BY <1>5, <2>2 DEF IsSelection
    <2>4. ss[i][l] = ConstBlock(files[i], files[i].consts[b]) /\ l \in DOMAIN ss[i]
      BY <2>1, <2>2, <2>3
    <2>5. <<i, l>> \in Cells(ss, Len(files))
      BY <2>1, <2>4, CellIsPair
    <2>6. PICK k \in DOMAIN blocks : at[k] = <<i, l>>
      BY <1>3, <2>5 DEF IsOrigin
    <2>7. blocks[k] = ss[i][l]
      BY <1>3, <2>6 DEF IsOrigin
    <2> QED BY <2>4, <2>7
  <1> QED BY <1>4, <1>5 DEF blocks

LEMMA BlockAsReported ==
  ASSUME NEW f \in SourceFile, NEW b \in Seq(ConstSpec), Typed(b) # <<>>
  PROVE  /\ ConstBlock(f, b).name = <<BlockType(b)>> /\ BlockType(b) # Null
         /\ ConstBlock(f, b).dir = f.dir
  BY BlockTypeIsFirst DEF ConstBlock

LEMMA GoEnumMembers ==
  ASSUME NEW files \in Seq(SourceFile), NEW i \in DOMAIN ConstBlocks(files)
  PROVE  LET e == GoEnum(ConstBlocks(files), i)
         IN  e.name[1] # Null /\ e.members = BlockConstants(files, e.dir, e.name[1])
  <1> DEFINE blocks == ConstBlocks(files)
             K == Making(blocks, i)
             same == Picked(blocks, K)
             parts == [k \in DOMAIN same |-> same[k].members]
             g == [r \in EnumRecord |-> r.members]
             e == GoEnum(blocks, i)
  <1>1. blocks \in Seq(EnumRecord)
    BY ConstBlocksTyped
  <1>2. PICK type : blocks[i].name = <<type>> /\ type # Null
    <2>1. PICK j \in DOMAIN files : \E b \in DOMAIN files[j].consts :
            /\ Typed(files[j].consts[b]) # <<>>
            /\ blocks[i] = ConstBlock(files[j], files[j].consts[b])
      BY ConstBlocksDeclared
    <2>2. PICK b \in DOMAIN files[j].consts :
            /\ Typed(files[j].consts[b]) # <<>>
            /\ blocks[i] = ConstBlock(files[j], files[j].consts[b])
      BY <2>1
    <2>3. files[j] \in SourceFile
      OBVIOUS
    <2>4. files[j].consts[b] \in Seq(ConstSpec)
      BY <2>3, SourceFileFields
    <2> QED BY <2>2, <2>3, <2>4, BlockAsReported
  <1> DEFINE dir == blocks[i].dir
             h == Reported(dir, type)
  <1>3. e.name = <<type>> /\ e.dir = dir /\ e.members = FlattenSeq(parts)
    BY <1>1, <1>2, GoEnumFields
  <1>4. g \in [EnumRecord -> Seq(STRING)]
    <2>1. \A r \in EnumRecord : r.members \in Seq(STRING)
      BY DEF EnumRecord
    <2> HIDE DEF EnumRecord
    <2> QED BY <2>1
  <1>5. parts = Through(g, same)
    <2>1. same \in Seq(EnumRecord)
      <3>1. K \in SUBSET DOMAIN blocks
        BY DEF Making
      <3> HIDE DEF blocks, K
      <3> QED BY <1>1, <3>1, PickedSelection
    <2> HIDE DEF same, EnumRecord
    <2>2. \A k \in DOMAIN same : same[k] \in EnumRecord
      BY <2>1
    <2>3. \A k \in DOMAIN same : g[same[k]] = same[k].members
      BY <2>2
    <2> HIDE DEF g
    <2> QED BY <2>3 DEF Through
  <1> HIDE DEF parts, e
  <1>6. FlattenSeq(Through(g, same)) = FlattenSeq(Where(g, blocks, K))
    <2> HIDE DEF g, K, blocks
    <2> QED BY <1>1, <1>4, PickedThrough
  <1>7. Where(g, blocks, K) = Through(h, blocks)
    <2>1. ASSUME NEW k \in DOMAIN blocks
          PROVE  (IF k \in K THEN g[blocks[k]] ELSE <<>>) = h[blocks[k]]
      <3>1. blocks[k] \in EnumRecord
        BY <1>1
      <3>2. k \in K <=> blocks[k].name = <<type>> /\ blocks[k].dir = dir
        BY <1>2 DEF Making, SameEnum
      <3> HIDE DEF EnumRecord, K, blocks, dir
      <3>3. g[blocks[k]] = blocks[k].members
        BY <3>1
      <3>4. h[blocks[k]] = IF blocks[k].name = <<type>> /\ blocks[k].dir = dir THEN blocks[k].members ELSE <<>>
        BY <3>1 DEF Reported
      <3> HIDE DEF g, h
      <3> QED BY <3>2, <3>3, <3>4
    <2> HIDE DEF g, h, K, blocks
    <2> QED BY <2>1 DEF Through, Where
  <1>8. FlattenSeq(Through(h, blocks)) = BlockConstants(files, dir, type)
    BY <1>2, BlocksOfType
  <1>9. e.members = BlockConstants(files, dir, type)
    <2> HIDE DEF g, h, K, blocks, same, dir
    <2> QED BY <1>3, <1>5, <1>6, <1>7, <1>8
  <1>10. e.name[1] = type /\ e.name[1] # Null
    BY <1>2, <1>3
  <1>11. e.members = BlockConstants(files, e.dir, e.name[1])
    <2> HIDE DEF dir
    <2> QED BY <1>3, <1>9, <1>10
  <1> QED BY <1>10, <1>11 DEF e, blocks

(* Each enum listed is made where its first block stands.                  *)
IsOpenedAt(of, blocks, sorted) ==
  /\ of \in [DOMAIN sorted -> Opening(blocks)]
  /\ \A k \in DOMAIN sorted : sorted[k] = GoEnum(blocks, of[k])
  /\ \A k, l \in DOMAIN sorted : of[k] = of[l] => k = l
  /\ \A i \in Opening(blocks) : \E k \in DOMAIN sorted : of[k] = i

LEMMA SortedGoEnums ==
  ASSUME NEW files \in Seq(SourceFile)
  PROVE  \E of : IsOpenedAt(of, ConstBlocks(files), Sorted(GoEnums(files), ByName))
  <1> DEFINE enums == GoEnums(files)
             sorted == Sorted(enums, ByName)
             blocks == ConstBlocks(files)
  <1>1. enums \in Seq(EnumRecord)
    BY GoEnumsOpened
  <1>2. PICK at :
          /\ at \in [DOMAIN enums -> Opening(blocks)]
          /\ \A k \in DOMAIN enums : enums[k] = GoEnum(blocks, at[k])
          /\ \A k, l \in DOMAIN enums : at[k] = at[l] => k = l
          /\ \A i \in Opening(blocks) : \E k \in DOMAIN enums : at[k] = i
    BY GoEnumsOpened
  <1>3. PICK of : IsSelection(of, enums, sorted, DOMAIN enums)
    BY <1>1, EnumsSorted
  <1> DEFINE new == [k \in DOMAIN sorted |-> at[of[k]]]
  <1> HIDE DEF enums, sorted, blocks
  <1>4. /\ of \in [DOMAIN sorted -> DOMAIN enums]
        /\ \A k \in DOMAIN sorted : sorted[k] = enums[of[k]]
        /\ \A k, l \in DOMAIN sorted : of[k] = of[l] => k = l
        /\ \A i \in DOMAIN enums : \E k \in DOMAIN sorted : of[k] = i
    BY <1>3 DEF IsSelection
  <1>5. new \in [DOMAIN sorted -> Opening(blocks)]
    BY <1>2, <1>4
  <1>6. \A k \in DOMAIN sorted : sorted[k] = GoEnum(blocks, new[k])
    BY <1>2, <1>4
  <1>7. \A k, l \in DOMAIN sorted : new[k] = new[l] => k = l
    BY <1>2, <1>4
  <1>8. \A i \in Opening(blocks) : \E k \in DOMAIN sorted : new[k] = i
    BY <1>2, <1>4
  <1> HIDE DEF new
  <1>9. IsOpenedAt(new, blocks, sorted)
    BY <1>5, <1>6, <1>7, <1>8 DEF IsOpenedAt
  <1> QED BY <1>9 DEF blocks, sorted, enums

LEMMA GoEnumAt ==
  ASSUME NEW files \in Seq(SourceFile), NEW i \in DOMAIN ConstBlocks(files)
  PROVE  /\ GoEnum(ConstBlocks(files), i).name = ConstBlocks(files)[i].name
         /\ GoEnum(ConstBlocks(files), i).dir = ConstBlocks(files)[i].dir
  <1>1. ConstBlocks(files) \in Seq(EnumRecord)
    BY ConstBlocksTyped
  <1> QED BY <1>1, GoEnumFields

LEMMA GoEnumsApart ==
  ASSUME NEW files \in Seq(SourceFile), NEW sorted, sorted = Sorted(GoEnums(files), ByName),
         NEW k \in DOMAIN sorted, NEW l \in DOMAIN sorted, SameEnum(sorted[k], sorted[l])
  PROVE  k = l
  <1> DEFINE blocks == ConstBlocks(files)
  <1>1. PICK of : IsOpenedAt(of, blocks, sorted)
    BY SortedGoEnums
  <1> DEFINE i == of[k]
             j == of[l]
  <1>2. /\ sorted[k] = GoEnum(blocks, i) /\ sorted[l] = GoEnum(blocks, j)
        /\ i \in Opening(blocks) /\ j \in Opening(blocks)
    BY <1>1 DEF IsOpenedAt
  <1>3. i \in DOMAIN blocks /\ j \in DOMAIN blocks
    BY <1>2 DEF Opening
  <1> HIDE DEF i, j
  <1>4. SameEnum(blocks[i], blocks[j]) /\ SameEnum(blocks[j], blocks[i])
    BY <1>2, <1>3, GoEnumAt DEF SameEnum
  <1>5. i \in Nat /\ j \in Nat /\ 1 <= i /\ 1 <= j
    <2>1. blocks \in Seq(EnumRecord)
      BY ConstBlocksTyped
    <2> HIDE DEF blocks
    <2> QED BY <1>3, <2>1
  <1> HIDE DEF blocks
  <1>6. ~(i < j)
    <2>1. i < j => i \in 1..(j - 1)
      BY <1>5
    <2> QED BY <1>2, <1>4, <2>1 DEF Opening
  <1>7. ~(j < i)
    <2>1. j < i => j \in 1..(i - 1)
      BY <1>5
    <2> QED BY <1>2, <1>4, <2>1 DEF Opening
  <1>8. i = j
    BY <1>5, <1>6, <1>7
  <1> QED BY <1>1, <1>8 DEF IsOpenedAt, i, j

LEMMA GoEnumsOwn ==
  ASSUME NEW files \in Seq(SourceFile), NEW sorted, sorted = Sorted(GoEnums(files), ByName),
         NEW k \in DOMAIN sorted
  PROVE  sorted[k].name[1] # Null /\ sorted[k].members = BlockConstants(files, sorted[k].dir, sorted[k].name[1])
  <1> DEFINE blocks == ConstBlocks(files)
  <1>1. PICK of : IsOpenedAt(of, blocks, sorted)
    BY SortedGoEnums
  <1>2. sorted[k] = GoEnum(blocks, of[k]) /\ of[k] \in DOMAIN blocks
    BY <1>1 DEF IsOpenedAt, Opening
  <1> QED BY <1>2, GoEnumMembers

LEMMA GoEnumsComplete ==
  ASSUME NEW files \in Seq(SourceFile), NEW sorted, sorted = Sorted(GoEnums(files), ByName),
         NEW m \in DOMAIN files, NEW b \in DOMAIN files[m].consts,
         BlockType(files[m].consts[b]) # Null
  PROVE  \E k \in DOMAIN sorted : /\ sorted[k].name = <<BlockType(files[m].consts[b])>>
                                  /\ sorted[k].dir = files[m].dir
  <1> DEFINE blocks == ConstBlocks(files)
             block == files[m].consts[b]
  <1>1. files[m] \in SourceFile /\ block \in Seq(ConstSpec)
    <2>1. files[m] \in SourceFile
      OBVIOUS
    <2> QED BY <2>1, SourceFileFields
  <1>2. Typed(block) # <<>>
    BY <1>1, BlockTypeIsFirst
  <1>3. PICK i \in DOMAIN blocks : blocks[i] = ConstBlock(files[m], block)
    BY <1>2, ConstBlocksDeclared
  <1>4. blocks[i].name = <<BlockType(block)>> /\ blocks[i].dir = files[m].dir
    BY <1>1, <1>2, <1>3, BlockAsReported
  <1>5. blocks \in Seq(EnumRecord)
    BY ConstBlocksTyped
  <1> HIDE DEF blocks, block
  <1> DEFINE S == Making(blocks, i)
  <1>6. S \in SUBSET Nat /\ S # {}
    <2>1. DOMAIN blocks \in SUBSET Nat
      BY <1>5
    <2> QED BY <2>1 DEF Making, SameEnum
  <1>7. PICK first \in S : \A j \in S : first <= j
    <2> HIDE DEF S
    <2> QED BY <1>6, LeastIndex
  <1>8. first \in DOMAIN blocks /\ SameEnum(blocks[first], blocks[i]) /\ first \in Nat
    BY <1>6, <1>7 DEF Making
  <1>9. ASSUME NEW j \in 1..(first - 1), SameEnum(blocks[j], blocks[first])
        PROVE  FALSE
    <2>1. SameEnum(blocks[j], blocks[i])
      BY <1>8, <1>9 DEF SameEnum
    <2>2. j \in DOMAIN blocks /\ ~(first <= j)
      BY <1>5, <1>8
    <2>3. j \in S
      BY <2>1, <2>2 DEF Making
    <2> HIDE DEF S
    <2> QED BY <1>7, <2>2, <2>3
  <1>10. first \in Opening(blocks)
    BY <1>8, <1>9 DEF Opening
  <1> HIDE DEF S
  <1>11. PICK of : IsOpenedAt(of, blocks, sorted)
    BY SortedGoEnums DEF blocks
  <1>12. PICK k \in DOMAIN sorted : of[k] = first
    BY <1>10, <1>11 DEF IsOpenedAt
  <1>13. sorted[k] = GoEnum(blocks, first)
    BY <1>11, <1>12 DEF IsOpenedAt
  <1>14. sorted[k].name = blocks[first].name /\ sorted[k].dir = blocks[first].dir
    BY <1>8, <1>13, GoEnumAt DEF blocks
  <1>15. sorted[k].name = <<BlockType(block)>> /\ sorted[k].dir = files[m].dir
    BY <1>4, <1>8, <1>14 DEF SameEnum
  <1> QED BY <1>15 DEF block

-----------------------------------------------------------------------------
(* The constants of a type that is declared apart are those its blocks     *)
(* report.                                                                 *)

LEMMA FlattenSingles ==
  ASSUME NEW S, NEW ss \in Seq(Seq(S)), \A i \in DOMAIN ss : Len(ss[i]) = 1
  PROVE  FlattenSeq(ss) = [i \in DOMAIN ss |-> ss[i][1]]
  <1> DEFINE n == Len(ss)
             heads == [i \in DOMAIN ss |-> ss[i][1]]
  <1>1. n \in Nat /\ DOMAIN ss = 1..n /\ \A i \in 1..n : ss[i] \in Seq(S)
    OBVIOUS
  <1>2. \A i \in 1..n : ss[i] = <<heads[i]>> /\ heads[i] \in S
    <2> SUFFICES ASSUME NEW i \in 1..n PROVE ss[i] = <<heads[i]>> /\ heads[i] \in S
      OBVIOUS
    <2>1. ss[i] \in Seq(S) /\ Len(ss[i]) = 1 /\ heads[i] = ss[i][1]
      BY <1>1
    <2> HIDE DEF heads, n
    <2> QED BY <2>1
  <1>3. heads = [i \in DOMAIN heads |-> heads[i]] /\ DOMAIN heads = 1..n
    BY <1>1
  <1> HIDE DEF heads, n
  <1>4. heads \in Seq(S) /\ Len(heads) = n
    BY <1>1, <1>2, <1>3, SequenceOf
  <1> DEFINE Bad == {m \in 0..n : FlattenSeq(Upto(ss, m)) # Upto(heads, m)}
  <1>5. ASSUME Bad # {} PROVE FALSE
    <2>1. Bad \in SUBSET Nat
      BY <1>1
    <2>2. PICK m \in Bad : \A k \in Bad : m <= k
      <3> HIDE DEF Bad
      <3> QED BY <1>5, <2>1, LeastIndex
    <2>3. m \in 0..n /\ FlattenSeq(Upto(ss, m)) # Upto(heads, m)
      OBVIOUS
    <2>4. CASE m = 0
      <3>1. Upto(ss, 0) = <<>> /\ Upto(heads, 0) = <<>>
        BY <1>4, UptoFacts
      <3> QED BY <2>3, <2>4, <3>1, FlattenEmpty
    <2>5. CASE m # 0
      <3>1. m - 1 \in 0..(n - 1) /\ m - 1 \in 0..n /\ ~(m <= m - 1) /\ (m - 1) + 1 = m /\ m \in 1..n
        BY <1>1, <2>3, <2>5
      <3>2. m - 1 \notin Bad
        <4> HIDE DEF Bad
        <4> QED BY <2>2, <3>1
      <3>3. FlattenSeq(Upto(ss, m - 1)) = Upto(heads, m - 1)
        BY <3>1, <3>2
      <3> DEFINE p == m - 1
      <3>4. p \in 0..(Len(ss) - 1) /\ p \in 0..(Len(heads) - 1) /\ p + 1 = m
        BY <1>4, <3>1 DEF n
      <3> HIDE DEF p
      <3>5. FlattenSeq(Upto(ss, p + 1)) = FlattenSeq(Upto(ss, p)) \o ss[p + 1]
        BY <3>4, FlattenStep
      <3>6. Upto(heads, p + 1) = Append(Upto(heads, p), heads[p + 1])
        BY <1>4, <3>4, UptoFacts
      <3>7. Upto(heads, p) \in Seq(S)
        <4>1. p \in 0..Len(heads)
          BY <1>1, <1>4, <3>4
        <4> QED BY <1>4, <4>1, UptoFacts
      <3>8. ss[m] = <<heads[m]>> /\ heads[m] \in S
        BY <1>2, <3>1
      <3>9. FlattenSeq(Upto(ss, p)) = Upto(heads, p)
        BY <3>3 DEF p
      <3>10. Upto(heads, p) \o <<heads[m]>> = Append(Upto(heads, p), heads[m])
        BY <3>7, <3>8
      <3> QED BY <2>3, <3>4, <3>5, <3>6, <3>8, <3>9, <3>10
    <2> QED BY <2>4, <2>5
  <1>6. FlattenSeq(Upto(ss, n)) = Upto(heads, n)
    <2>1. n \in 0..n
      BY <1>1
    <2> QED BY <1>5, <2>1
  <1>7. Upto(ss, n) = ss /\ Upto(heads, n) = heads
    BY <1>4, UptoFacts DEF n
  <1> QED BY <1>6, <1>7 DEF heads

(* What the language gives a type in a block.                              *)
OfType(b, type) == [k \in DOMAIN b |-> IF GoType(b, k) = type THEN b[k].names ELSE <<>>]

Apart(b, type) ==
  (\E k \in DOMAIN b : GoType(b, k) = type)
  => Uniform(b) /\ \A k \in DOMAIN b : Len(b[k].names) = 1

LEMMA BlockTypeStated ==
  ASSUME NEW b \in Seq(ConstSpec), BlockType(b) # Null
  PROVE  \E k \in DOMAIN b : GoType(b, k) = BlockType(b)
  <1> DEFINE K == {k \in DOMAIN b : b[k].type # Null}
  <1>1. CASE K = {}
    <2>1. \A k \in DOMAIN b : GoType(b, k) = Null
      BY <1>1, GoTypeFacts
    <2>2. Uniform(b)
      <3>1. CASE b = <<>>
        <4>1. DOMAIN b = {}
          BY <3>1
        <4> QED BY <4>1 DEF Uniform
      <3>2. CASE b # <<>>
        <4>1. 1 \in DOMAIN b
          BY <3>2
        <4> QED BY <2>1, <4>1 DEF Uniform
      <3> QED BY <3>1, <3>2
    <2>3. GoType(b, 1) # Null
      BY <2>2 DEF BlockType
    <2>4. b = <<>>
      <3>1. 1 \notin DOMAIN b
        BY <2>1, <2>3
      <3> QED BY <3>1
    <2>5. {j \in DOMAIN b : j <= 1 /\ (b[j].type # Null \/ b[j].valued)} = {}
      <3>1. DOMAIN b = {}
        BY <2>4
      <3> QED BY <3>1
    <2> QED BY <2>3, <2>5 DEF GoType
  <1>2. CASE K # {}
    <2> DEFINE m == Least(K)
    <2>1. m \in K
      <3>1. K \in SUBSET Nat
        OBVIOUS
      <3> HIDE DEF K
      <3> QED BY <1>2, <3>1, LeastFacts
    <2> HIDE DEF m
    <2>2. m \in DOMAIN b /\ GoType(b, m) = b[m].type
      BY <2>1, GoTypeFacts
    <2>3. CASE Uniform(b)
      BY <2>2, <2>3 DEF BlockType, Uniform
    <2>4. CASE ~Uniform(b)
      BY <2>2, <2>4 DEF BlockType, m
    <2> QED BY <2>2, <2>3, <2>4
  <1> QED BY <1>1, <1>2

LEMMA UniformBlockType ==
  ASSUME NEW b \in Seq(ConstSpec), Uniform(b), NEW k \in DOMAIN b
  PROVE  GoType(b, k) = BlockType(b)
  BY DEF Uniform, BlockType

LEMMA BlockAgrees ==
  ASSUME NEW b \in Seq(ConstSpec), NEW type, type # Null, Apart(b, type)
  PROVE  FlattenSeq(OfType(b, type)) = IF BlockType(b) = type THEN Declares(b) ELSE <<>>
  <1> DEFINE ss == OfType(b, type)
  <1>1. DOMAIN b = 1..Len(b) /\ Len(b) \in Nat /\ \A k \in DOMAIN b : b[k].names \in Seq(STRING)
    <2>1. \A k \in DOMAIN b : b[k] \in ConstSpec
      <3> HIDE DEF ConstSpec
      <3> QED OBVIOUS
    <2>2. \A s \in ConstSpec : s.names \in Seq(STRING)
      BY DEF ConstSpec
    <2> HIDE DEF ConstSpec
    <2> QED BY <2>1, <2>2
  <1>2. /\ DOMAIN ss = DOMAIN b /\ ss = [k \in DOMAIN ss |-> ss[k]]
        /\ \A k \in DOMAIN b : ss[k] = IF GoType(b, k) = type THEN b[k].names ELSE <<>>
    BY DEF OfType
  <1> HIDE DEF ss
  <1>3. ss \in Seq(Seq(STRING))
    <2>1. <<>> \in Seq(STRING)
      OBVIOUS
    <2>2. \A k \in DOMAIN ss : ss[k] \in Seq(STRING)
      BY <1>1, <1>2, <2>1
    <2> QED BY <1>1, <1>2, <2>2, SequenceOf
  <1>4. CASE BlockType(b) = type
    <2>1. Uniform(b) /\ \A k \in DOMAIN b : Len(b[k].names) = 1
      BY <1>4, BlockTypeStated DEF Apart
    <2>2. \A k \in DOMAIN b : ss[k] = b[k].names
      BY <1>2, <1>4, <2>1, UniformBlockType
    <2>3. FlattenSeq(ss) = [k \in DOMAIN ss |-> ss[k][1]]
      <3>1. \A k \in DOMAIN ss : Len(ss[k]) = 1
        BY <1>2, <2>1, <2>2
      <3> QED BY <1>3, <3>1, FlattenSingles
    <2>4. Declares(b) = [k \in DOMAIN b |-> b[k].names[1]]
      BY DEF Declares, Mapped
    <2>5. [k \in DOMAIN ss |-> ss[k][1]] = [k \in DOMAIN b |-> b[k].names[1]]
      BY <1>2, <2>2
    <2> QED BY <1>4, <2>3, <2>4, <2>5 DEF ss
  <1>5. CASE BlockType(b) # type
    <2>1. ASSUME NEW k \in DOMAIN b PROVE GoType(b, k) # type
      <3> SUFFICES ASSUME GoType(b, k) = type PROVE FALSE
        OBVIOUS
      <3>1. Uniform(b)
        BY DEF Apart
      <3> QED BY <1>5, <3>1, UniformBlockType
    <2>2. \A k \in DOMAIN ss : ss[k] = <<>>
      BY <1>2, <2>1
    <2>3. FlattenSeq(ss) = <<>>
      BY <1>3, <2>2, FlattenEmpties
    <2> QED BY <1>5, <2>3 DEF ss
  <1> QED BY <1>4, <1>5

LEMMA ConstantsAreReported ==
  ASSUME NEW files \in Seq(SourceFile), NEW dir, NEW type, type # Null,
         DeclaredApart(files, dir, type)
  PROVE  ConstantsOf(files, dir, type) = BlockConstants(files, dir, type)
  <1> DEFINE block(i, b) == files[i].consts[b]
             here(i) == FlattenSeq([b \in DOMAIN files[i].consts |-> FlattenSeq(OfType(block(i, b), type))])
             reported(i) == FlattenSeq([b \in DOMAIN files[i].consts |->
               IF BlockType(block(i, b)) = type THEN Declares(block(i, b)) ELSE <<>>])
  <1>1. ASSUME NEW i \in DOMAIN files, files[i].dir = dir PROVE here(i) = reported(i)
    <2>1. \A b \in DOMAIN files[i].consts : block(i, b) \in Seq(ConstSpec)
      <3>1. files[i] \in SourceFile
        OBVIOUS
      <3>2. files[i].consts \in Seq(Seq(ConstSpec))
        BY <3>1, SourceFileFields
      <3> HIDE DEF ConstSpec, SourceFile
      <3> QED BY <3>2
    <2>2. \A b \in DOMAIN files[i].consts : Apart(block(i, b), type)
      BY <1>1 DEF DeclaredApart, Apart
    <2> HIDE DEF block
    <2>3. \A b \in DOMAIN files[i].consts :
            FlattenSeq(OfType(block(i, b), type))
              = IF BlockType(block(i, b)) = type THEN Declares(block(i, b)) ELSE <<>>
      BY <2>1, <2>2, BlockAgrees
    <2> QED BY <2>3
  <1>2. ConstantsOf(files, dir, type)
          = FlattenSeq([i \in DOMAIN files |-> IF files[i].dir # dir THEN <<>> ELSE here(i)])
    BY DEF ConstantsOf, OfType
  <1>3. BlockConstants(files, dir, type)
          = FlattenSeq([i \in DOMAIN files |-> IF files[i].dir # dir THEN <<>> ELSE reported(i)])
    BY DEF BlockConstants
  <1> HIDE DEF here, reported
  <1>4. [i \in DOMAIN files |-> IF files[i].dir # dir THEN <<>> ELSE here(i)]
          = [i \in DOMAIN files |-> IF files[i].dir # dir THEN <<>> ELSE reported(i)]
    BY <1>1
  <1> QED BY <1>2, <1>3, <1>4

-----------------------------------------------------------------------------
(* The methods of an entity: every one listed is declared on the type, and *)
(* every one declared is listed, once.                                     *)

OwnAt(f, dir, name) == {k \in DOMAIN f.methods : f.dir = dir /\ ReceiverText(f.methods[k]) = <<name>>}

LEMMA OwnMethodsSelected ==
  ASSUME NEW f \in SourceFile, NEW dir, NEW name
  PROVE  \E of : IsSelection(of, f.methods, OwnMethods(f, dir, name), OwnAt(f, dir, name))
  <1>1. f.methods \in Seq(MethodDeclaration)
    BY SourceFileFields
  <1>2. CASE f.dir = dir
    <2> DEFINE K == {i \in DOMAIN f.methods : ReceiverText(f.methods[i]) = <<name>>}
    <2>1. OwnAt(f, dir, name) = K /\ K \in SUBSET DOMAIN f.methods
      BY <1>2 DEF OwnAt
    <2>2. OwnMethods(f, dir, name) = Picked(f.methods, K)
      BY <1>2 DEF OwnMethods
    <2> HIDE DEF K
    <2> QED BY <1>1, <2>1, <2>2, PickedSelection
  <1>3. CASE f.dir # dir
    <2> DEFINE none == [k \in {} |-> 0]
    <2>1. OwnAt(f, dir, name) = {} /\ OwnMethods(f, dir, name) = <<>>
      BY <1>3 DEF OwnAt, OwnMethods
    <2>2. DOMAIN <<>> = {}
      OBVIOUS
    <2>3. IsSelection(none, f.methods, <<>>, {})
      BY <2>2 DEF IsSelection
    <2> QED BY <2>1, <2>3
  <1> QED BY <1>2, <1>3

WrittenOn(files, dir, name) ==
  UNION {{<<i, k>> : k \in {k \in DOMAIN files[i].methods : ReceiverText(files[i].methods[k]) = <<name>>}} :
           i \in {i \in DOMAIN files : files[i].dir = dir}}

IsMethodAt(at, files, dir, name) ==
  LET given == GoMethods(files, dir, name)
  IN  /\ at \in [DOMAIN given -> WrittenOn(files, dir, name)]
      /\ \A k \in DOMAIN given : given[k] = files[at[k][1]].methods[at[k][2]].name
      /\ \A k, l \in DOMAIN given : at[k] = at[l] => k = l
      /\ \A m \in WrittenOn(files, dir, name) : \E k \in DOMAIN given : at[k] = m

LEMMA WrittenOnPairs ==
  ASSUME NEW files, NEW dir, NEW name
  PROVE  /\ \A m \in WrittenOn(files, dir, name) :
              m = <<m[1], m[2]>> /\ m[1] \in DOMAIN files /\ m[2] \in OwnAt(files[m[1]], dir, name)
         /\ \A i \in DOMAIN files : \A k \in OwnAt(files[i], dir, name) :
              <<i, k>> \in WrittenOn(files, dir, name)
  BY DEF WrittenOn, OwnAt

LEMMA GoMethodsDeclared ==
  ASSUME NEW files \in Seq(SourceFile), NEW dir, NEW name
  PROVE  \E at : IsMethodAt(at, files, dir, name)
  <1> DEFINE own == [i \in DOMAIN files |-> OwnMethods(files[i], dir, name)]
             flat == FlattenSeq(own)
             given == GoMethods(files, dir, name)
             here == WrittenOn(files, dir, name)
             pick == [i \in DOMAIN files |->
                        CHOOSE of : IsSelection(of, files[i].methods, OwnMethods(files[i], dir, name),
                                                OwnAt(files[i], dir, name))]
  <1>1. /\ own \in Seq(Seq(MethodDeclaration)) /\ Len(own) = Len(files)
        /\ given = Mapped(flat, LAMBDA m : m.name)
    BY GoMethodsFlattened
  <1>2. \A i \in DOMAIN files : own[i] = OwnMethods(files[i], dir, name)
    OBVIOUS
  <1>3. \A i \in DOMAIN files : IsSelection(pick[i], files[i].methods, own[i], OwnAt(files[i], dir, name))
    <2>1. ASSUME NEW i \in DOMAIN files
          PROVE  \E of : IsSelection(of, files[i].methods, OwnMethods(files[i], dir, name),
                                     OwnAt(files[i], dir, name))
      <3>1. files[i] \in SourceFile
        OBVIOUS
      <3> QED BY <3>1, OwnMethodsSelected
    <2> QED BY <2>1
  <1> HIDE DEF own, pick
  <1>4. PICK origin : IsOrigin(origin, own, flat, Len(own))
    BY <1>1, FlattenedOrigin
  <1>5. DOMAIN given = DOMAIN flat /\ \A k \in DOMAIN flat : given[k] = flat[k].name
    <2> HIDE DEF flat, given
    <2> QED BY <1>1 DEF Mapped
  <1> HIDE DEF flat, given, here
  <1>6. DOMAIN files = 1..Len(own)
    BY <1>1
  <1> DEFINE at == [k \in DOMAIN given |-> <<origin[k][1], pick[origin[k][1]][origin[k][2]]>>]
  <1>7. ASSUME NEW k \in DOMAIN given
        PROVE  /\ origin[k] = <<origin[k][1], origin[k][2]>>
               /\ origin[k][1] \in DOMAIN files /\ origin[k][2] \in DOMAIN own[origin[k][1]]
               /\ flat[k] = own[origin[k][1]][origin[k][2]]
    <2>1. origin[k] \in Cells(own, Len(own)) /\ flat[k] = own[origin[k][1]][origin[k][2]]
      BY <1>4, <1>5 DEF IsOrigin
    <2> QED BY <1>6, <2>1, CellIsPair
  <1>8. ASSUME NEW k \in DOMAIN given
        PROVE  /\ at[k][1] = origin[k][1] /\ at[k][2] = pick[origin[k][1]][origin[k][2]]
               /\ at[k] \in here /\ at[k][2] \in OwnAt(files[at[k][1]], dir, name)
               /\ given[k] = files[at[k][1]].methods[at[k][2]].name
    <2>1. at[k][1] = origin[k][1] /\ at[k][2] = pick[origin[k][1]][origin[k][2]] /\ at[k] = <<at[k][1], at[k][2]>>
      OBVIOUS
    <2> DEFINE i == origin[k][1]
               j == origin[k][2]
    <2>2. i \in DOMAIN files /\ j \in DOMAIN own[i] /\ flat[k] = own[i][j]
      BY <1>7
    <2>3. at[k][1] = i /\ at[k][2] = pick[i][j]
      BY <2>1
    <2> HIDE DEF i, j, at
    <2>4. pick[i][j] \in OwnAt(files[i], dir, name) /\ own[i][j] = files[i].methods[pick[i][j]]
      BY <1>3, <2>2 DEF IsSelection
    <2>5. at[k] \in here
      <3>1. <<i, pick[i][j]>> \in here
        BY <2>2, <2>4, WrittenOnPairs DEF here
      <3>2. at[k] = <<i, pick[i][j]>>
        BY <2>1, <2>3
      <3> QED BY <3>1, <3>2
    <2>6. given[k] = files[at[k][1]].methods[at[k][2]].name
      BY <1>5, <2>2, <2>3, <2>4
    <2> QED BY <2>1, <2>3, <2>4, <2>5, <2>6 DEF i, j
  <1>9. at = [k \in DOMAIN given |-> at[k]] /\ DOMAIN at = DOMAIN given
    OBVIOUS
  <1> HIDE DEF at
  <1>10. at \in [DOMAIN given -> here]
    BY <1>8, <1>9
  <1>11. ASSUME NEW k \in DOMAIN given, NEW l \in DOMAIN given, at[k] = at[l] PROVE k = l
    <2>1. origin[k][1] = origin[l][1]
      BY <1>8, <1>11
    <2>2. origin[k][2] = origin[l][2]
      <3> DEFINE i == origin[k][1]
      <3>1. pick[i][origin[k][2]] = pick[i][origin[l][2]]
        BY <1>8, <1>11, <2>1
      <3>2. i \in DOMAIN files /\ origin[k][2] \in DOMAIN own[i] /\ origin[l][2] \in DOMAIN own[i]
        BY <1>7, <2>1
      <3> HIDE DEF i
      <3> QED BY <1>3, <3>1, <3>2 DEF IsSelection
    <2>3. origin[k] = origin[l]
      BY <1>7, <2>1, <2>2
    <2> QED BY <1>4, <1>5, <2>3 DEF IsOrigin
  <1>12. ASSUME NEW m \in here PROVE \E k \in DOMAIN given : at[k] = m
    <2>1. m = <<m[1], m[2]>> /\ m[1] \in DOMAIN files /\ m[2] \in OwnAt(files[m[1]], dir, name)
      BY WrittenOnPairs DEF here
    <2>2. PICK j \in DOMAIN own[m[1]] : pick[m[1]][j] = m[2]
      BY <1>3, <2>1 DEF IsSelection
    <2>3. <<m[1], j>> \in Cells(own, Len(own))
      BY <1>6, <2>1, <2>2, CellIsPair
    <2>4. PICK k \in DOMAIN given : origin[k] = <<m[1], j>>
      BY <1>4, <1>5, <2>3 DEF IsOrigin
    <2>5. at[k] = <<m[1], pick[m[1]][j]>>
      BY <2>4 DEF at
    <2> QED BY <2>1, <2>2, <2>5
  <1>13. IsMethodAt(at, files, dir, name)
    BY <1>8, <1>10, <1>11, <1>12 DEF IsMethodAt, given, here
  <1> QED BY <1>13

LEMMA MethodsCounted ==
  ASSUME NEW files \in Seq(SourceFile), NEW dir, NEW name
  PROVE  Len(GoMethods(files, dir, name)) = Cardinality(WrittenOn(files, dir, name))
  <1> DEFINE given == GoMethods(files, dir, name)
             here == WrittenOn(files, dir, name)
  <1>1. PICK at : IsMethodAt(at, files, dir, name)
    BY GoMethodsDeclared
  <1>2. given \in Seq(STRING)
    BY GoMethodsTyped
  <1>3. /\ at \in [DOMAIN given -> here]
        /\ \A k, l \in DOMAIN given : at[k] = at[l] => k = l
        /\ \A m \in here : \E k \in DOMAIN given : at[k] = m
    BY <1>1 DEF IsMethodAt
  <1> HIDE DEF given, here
  <1>4. DOMAIN given = 1..Len(given) /\ Len(given) \in Nat
    BY <1>2
  <1>5. at \in Bijection(1..Len(given), here)
    BY <1>3, <1>4 DEF Bijection, Injection, IsInjective, Surjection
  <1>6. ExistsBijection(1..Len(given), here)
    BY <1>5 DEF ExistsBijection
  <1>7. Cardinality(here) = Len(given)
    BY <1>4, <1>6, FS_CountingElements
  <1> QED BY <1>7 DEF given, here

(* A receiver is written as a bare name when it gives no parameters.       *)
LEMMA BareReceiver ==
  ASSUME NEW m \in MethodDeclaration, NEW name
  PROVE  ReceiverText(m) = <<name>> <=> m.receiver = name /\ m.parameters = <<>>
  <1>1. m.parameters \in Seq(STRING) /\ m.receiver \in STRING
    BY DEF MethodDeclaration
  <1> DEFINE text == <<m.receiver>> \o m.parameters
  <1>2. Len(text) = 1 + Len(m.parameters) /\ text[1] = m.receiver
    BY <1>1
  <1>3. ReceiverText(m) = text
    BY DEF ReceiverText
  <1>4. ASSUME m.receiver = name, m.parameters = <<>> PROVE text = <<name>>
    BY <1>1, <1>4
  <1>5. ASSUME text = <<name>> PROVE m.receiver = name /\ m.parameters = <<>>
    <2>1. Len(text) = 1 /\ text[1] = name
      <3>1. Len(<<name>>) = 1 /\ <<name>>[1] = name
        OBVIOUS
      <3> HIDE DEF text
      <3> QED BY <1>5, <3>1
    <2>2. Len(m.parameters) = 0
      BY <1>1, <1>2, <2>1
    <2> QED BY <1>1, <1>2, <2>1, <2>2
  <1> QED BY <1>3, <1>4, <1>5

LEMMA WrittenAndDeclared ==
  ASSUME NEW files \in Seq(SourceFile), NEW dir, NEW name
  PROVE  /\ WrittenOn(files, dir, name) \subseteq MethodsOn(files, dir, name)
         /\ NotGeneric(files, dir, name) => WrittenOn(files, dir, name) = MethodsOn(files, dir, name)
  <1>1. ASSUME NEW i \in DOMAIN files, NEW k \in DOMAIN files[i].methods
        PROVE  ReceiverText(files[i].methods[k]) = <<name>>
                 <=> files[i].methods[k].receiver = name /\ files[i].methods[k].parameters = <<>>
    <2>1. files[i] \in SourceFile
      OBVIOUS
    <2>2. files[i].methods \in Seq(MethodDeclaration)
      BY <2>1, SourceFileFields
    <2>3. files[i].methods[k] \in MethodDeclaration
      <3> HIDE DEF MethodDeclaration
      <3> QED BY <2>2
    <2> HIDE DEF MethodDeclaration
    <2> QED BY <2>3, BareReceiver
  <1>2. WrittenOn(files, dir, name) \subseteq MethodsOn(files, dir, name)
    BY <1>1 DEF WrittenOn, MethodsOn
  <1>3. ASSUME NotGeneric(files, dir, name), NEW m \in MethodsOn(files, dir, name)
        PROVE  m \in WrittenOn(files, dir, name)
    <2>1. PICK i \in DOMAIN files : \E k \in DOMAIN files[i].methods :
            m = <<i, k>> /\ files[i].dir = dir /\ files[i].methods[k].receiver = name
      BY DEF MethodsOn
    <2>2. PICK k \in DOMAIN files[i].methods :
            m = <<i, k>> /\ files[i].dir = dir /\ files[i].methods[k].receiver = name
      BY <2>1
    <2>3. files[i].methods[k].parameters = <<>>
      BY <1>3, <2>2 DEF NotGeneric
    <2>4. ReceiverText(files[i].methods[k]) = <<name>>
      BY <1>1, <2>2, <2>3
    <2> QED BY <2>2, <2>4 DEF WrittenOn
  <1> QED BY <1>2, <1>3

LEMMA GoEntityMethods ==
  ASSUME NEW files \in Seq(SourceFile), NEW f \in SourceFile, NEW t \in TypeSpec,
         NEW e, e = GoEntity(files, f, t),
         NEW names, names = {files[m[1]].methods[m[2]].name : m \in MethodsOn(files, e.dir, e.name[1])}
  PROVE  /\ ToSet(e.methods) \subseteq names
         /\ NotGeneric(files, e.dir, e.name[1])
              /\ Cardinality(MethodsOn(files, e.dir, e.name[1])) <= MaxMethods
              => ToSet(e.methods) = names
  <1> DEFINE dir == f.dir
             name == t.name
             given == GoMethods(files, dir, name)
             written == WrittenOn(files, dir, name)
             here == MethodsOn(files, dir, name)
             plain == NotGeneric(files, dir, name)
             kept == Truncated(given, MaxMethods)
  <1>1. e.dir = dir /\ e.name[1] = name /\ e.methods = kept
    BY DEF GoEntity
  <1>2. given \in Seq(STRING)
    BY GoMethodsTyped
  <1>3. PICK at : IsMethodAt(at, files, dir, name)
    BY GoMethodsDeclared
  <1>4. Len(given) = Cardinality(written)
    BY MethodsCounted
  <1>5. /\ at \in [DOMAIN given -> written]
        /\ \A k \in DOMAIN given : given[k] = files[at[k][1]].methods[at[k][2]].name
        /\ \A m \in written : \E k \in DOMAIN given : at[k] = m
    BY <1>3 DEF IsMethodAt
  <1>6. names = {files[m[1]].methods[m[2]].name : m \in here}
    BY <1>1
  <1>7. written \subseteq here /\ (plain => written = here)
    BY WrittenAndDeclared
  <1>8. plain <=> NotGeneric(files, e.dir, e.name[1])
    BY <1>1
  <1> HIDE DEF dir, name, given, written, here, plain, kept
  <1>9. MaxMethods \in Nat
    BY DEF MaxMethods
  <1>10. \A i \in DOMAIN kept : i \in DOMAIN given /\ kept[i] = given[i]
    BY <1>2, <1>9, TruncatedFacts DEF kept
  <1>11. ToSet(kept) \subseteq names
    <2>1. \A i \in DOMAIN given : given[i] \in names
      BY <1>5, <1>6, <1>7
    <2> QED BY <1>10, <2>1 DEF ToSet
  <1>12. ASSUME plain, Cardinality(here) <= MaxMethods PROVE names \subseteq ToSet(kept)
    <2>1. kept = given
      BY <1>4, <1>7, <1>12 DEF kept, Truncated
    <2>2. \A m \in here : \E k \in DOMAIN given : given[k] = files[m[1]].methods[m[2]].name
      BY <1>5, <1>7, <1>12
    <2> QED BY <1>6, <2>1, <2>2 DEF ToSet
  <1>13. ToSet(e.methods) \subseteq names
    BY <1>1, <1>11
  <1>14. ASSUME NotGeneric(files, e.dir, e.name[1]),
                Cardinality(MethodsOn(files, e.dir, e.name[1])) <= MaxMethods
         PROVE  ToSet(e.methods) = names
    <2>1. plain /\ Cardinality(here) <= MaxMethods
      BY <1>1, <1>8, <1>14 DEF here
    <2> QED BY <1>1, <1>11, <1>12, <2>1
  <1> QED BY <1>13, <1>14

LEMMA GoEntitiesMade ==
  ASSUME NEW files \in Seq(SourceFile), NEW k \in DOMAIN GoEntities(files)
  PROVE  \E f \in SourceFile : \E t \in TypeSpec : GoEntities(files)[k] = GoEntity(files, f, t)
  <1> DEFINE ss == [i \in DOMAIN files |-> GoEntitiesOf(files, files[i])]
             flat == FlattenSeq(ss)
  <1>1. GoEntities(files) = flat
    BY DEF GoEntities, Gathered
  <1>2. \A i \in DOMAIN files : files[i] \in SourceFile /\ ss[i] = GoEntitiesOf(files, files[i])
    OBVIOUS
  <1>3. ss \in Seq(Seq(EntityRecord)) /\ Len(ss) = Len(files)
    <2>1. DOMAIN ss = 1..Len(files) /\ Len(files) \in Nat /\ ss = [i \in DOMAIN ss |-> ss[i]]
          /\ DOMAIN ss = DOMAIN files
      OBVIOUS
    <2>2. \A i \in DOMAIN ss : ss[i] \in Seq(EntityRecord)
      BY <1>2, <2>1, GoEntitiesReported
    <2> HIDE DEF ss
    <2> QED BY <2>1, <2>2, SequenceOf
  <1> HIDE DEF ss
  <1>4. PICK at : IsOrigin(at, ss, flat, Len(ss))
    BY <1>3, FlattenedOrigin
  <1>5. k \in DOMAIN flat /\ DOMAIN files = 1..Len(ss)
    BY <1>1, <1>3
  <1> HIDE DEF flat
  <1> DEFINE i == at[k][1]
             j == at[k][2]
  <1>6. at[k] \in Cells(ss, Len(ss)) /\ flat[k] = ss[i][j]
    BY <1>4, <1>5 DEF IsOrigin
  <1>7. i \in DOMAIN files /\ j \in DOMAIN ss[i]
    BY <1>5, <1>6, CellIsPair
  <1> HIDE DEF i, j
  <1>8. files[i] \in SourceFile /\ j \in DOMAIN GoEntitiesOf(files, files[i])
        /\ flat[k] = GoEntitiesOf(files, files[i])[j]
    BY <1>2, <1>6, <1>7
  <1>9. PICK of :
          /\ IsReportOf(of, GoEntitiesOf(files, files[i]), files[i].types)
          /\ \A l \in DOMAIN GoEntitiesOf(files, files[i]) :
               GoEntitiesOf(files, files[i])[l] = GoEntity(files, files[i], files[i].types[of[l]])
    BY <1>8, GoEntitiesReported
  <1>10. of[j] \in DOMAIN files[i].types
    BY <1>8, <1>9 DEF IsReportOf
  <1>11. files[i].types[of[j]] \in TypeSpec
    <2>1. files[i].types \in Seq(TypeSpec)
      BY <1>8, SourceFileFields
    <2> HIDE DEF TypeSpec
    <2> QED BY <1>10, <2>1
  <1> QED BY <1>1, <1>8, <1>9, <1>11

-----------------------------------------------------------------------------
(* The members of the types a document lists.                              *)

LEMMA MembersFromInvariant == BuildInv => MembersAreTheTypesOwn
  <1> SUFFICES ASSUME BuildInv, unit.language = "go" PROVE MembersAreTheTypesOwn
    BY DEF MembersAreTheTypesOwn
  <1> DEFINE files == Parsed(unit)
             methods(e) == MethodsOn(files, e.dir, e.name[1])
             names(e) == {files[m[1]].methods[m[2]].name : m \in methods(e)}
             entities == results.entities
             enums == results.enums
             sorted == Sorted(GoEnums(files), ByName)
  <1>1. unit \in Units /\ results = Given /\ {"entities", "enums"} \subseteq Extractors
    BY DEF BuildInv, Extractors
  <1>2. files \in Seq(SourceFile)
    BY <1>1, ParsedFacts
  <1>3. entities = IF settled["entities"] = "resolved" THEN RankAndTrim(unit, RawEntities(unit)) ELSE <<>>
    BY <1>1 DEF Given, Extracted, Fallback
  <1>4. enums = IF settled["enums"] = "resolved" THEN sorted ELSE <<>>
    <2>1. Extracted(unit, "enums") = sorted
      BY DEF Extracted, Enums
    <2> HIDE DEF sorted
    <2> QED BY <1>1, <2>1 DEF Given, Fallback
  <1> HIDE DEF files, entities, enums, sorted
  <1>5. ASSUME NEW e \in ToSet(entities)
        PROVE  /\ ToSet(e.methods) \subseteq names(e)
               /\ NotGeneric(files, e.dir, e.name[1]) /\ Cardinality(methods(e)) <= MaxMethods
                    => ToSet(e.methods) = names(e)
    <2>1. PICK k \in DOMAIN entities : e = entities[k]
      BY DEF ToSet
    <2>2. entities = RankAndTrim(unit, RawEntities(unit))
      <3>1. DOMAIN <<>> = {}
        OBVIOUS
      <3> QED BY <1>3, <2>1, <3>1
    <2>3. PICK i \in DOMAIN RawEntities(unit) : e = RawEntities(unit)[i]
      BY <1>1, <2>1, <2>2, RankedEntities
    <2>4. RawEntities(unit) = GoEntities(files)
      BY DEF RawEntities, files
    <2>5. PICK f \in SourceFile : \E t \in TypeSpec : e = GoEntity(files, f, t)
      BY <1>2, <2>3, <2>4, GoEntitiesMade
    <2>6. PICK t \in TypeSpec : e = GoEntity(files, f, t)
      BY <2>5
    <2> DEFINE ns == names(e)
    <2>7. ns = {files[m[1]].methods[m[2]].name : m \in MethodsOn(files, e.dir, e.name[1])}
      OBVIOUS
    <2> HIDE DEF ns, SourceFile, TypeSpec
    <2>8. /\ ToSet(e.methods) \subseteq ns
          /\ NotGeneric(files, e.dir, e.name[1])
               /\ Cardinality(MethodsOn(files, e.dir, e.name[1])) <= MaxMethods
               => ToSet(e.methods) = ns
      BY <1>2, <2>6, <2>7, GoEntityMethods
    <2> QED BY <2>8 DEF ns
  <1>6. ASSUME NEW i \in DOMAIN enums PROVE enums = sorted /\ i \in DOMAIN sorted
    <2>1. DOMAIN <<>> = {}
      OBVIOUS
    <2> QED BY <1>4, <2>1
  <1>7. \A i, j \in DOMAIN enums : SameEnum(enums[i], enums[j]) => i = j
    BY <1>2, <1>6, GoEnumsApart DEF sorted
  <1>8. ASSUME NEW e \in ToSet(enums), DeclaredApart(files, e.dir, e.name[1])
        PROVE  e.members = ConstantsOf(files, e.dir, e.name[1])
    <2>1. PICK i \in DOMAIN enums : e = enums[i]
      BY DEF ToSet
    <2>2. e.name[1] # Null /\ e.members = BlockConstants(files, e.dir, e.name[1])
      BY <1>2, <1>6, <2>1, GoEnumsOwn DEF sorted
    <2> QED BY <1>2, <1>8, <2>2, ConstantsAreReported
  <1>9. ASSUME settled["enums"] = "resolved", NEW f \in ToSet(files), NEW block \in ToSet(f.consts),
               NEW k \in DOMAIN block, GoType(block, k) # Null,
               DeclaredApart(files, f.dir, GoType(block, k))
        PROVE  \E e \in ToSet(enums) : e.name = <<GoType(block, k)>> /\ e.dir = f.dir
    <2>1. PICK m \in DOMAIN files : f = files[m]
      BY DEF ToSet
    <2>2. PICK b \in DOMAIN files[m].consts : block = files[m].consts[b]
      BY <2>1 DEF ToSet
    <2>3. enums = sorted
      BY <1>4, <1>9
    <2>4. GoType(block, k) = BlockType(files[m].consts[b])
      <3>1. Uniform(block)
        BY <1>9, <2>1, <2>2 DEF DeclaredApart
      <3>2. block \in Seq(ConstSpec)
        <4>1. files[m] \in SourceFile
          BY <1>2
        <4>2. files[m].consts \in Seq(Seq(ConstSpec))
          BY <4>1, SourceFileFields
        <4> HIDE DEF ConstSpec, SourceFile
        <4> QED BY <2>2, <4>2
      <3> QED BY <1>9, <2>2, <3>1, <3>2, UniformBlockType
    <2>5. \E l \in DOMAIN sorted : /\ sorted[l].name = <<BlockType(files[m].consts[b])>>
                                   /\ sorted[l].dir = files[m].dir
      BY <1>2, <1>9, <2>2, <2>4, GoEnumsComplete DEF sorted
    <2>6. PICK l \in DOMAIN sorted : sorted[l].name = <<GoType(block, k)>> /\ sorted[l].dir = f.dir
      BY <2>1, <2>4, <2>5
    <2>7. sorted[l] \in ToSet(enums)
      BY <2>3 DEF ToSet
    <2> QED BY <2>6, <2>7
  <1> QED BY <1>5, <1>7, <1>8, <1>9 DEF MembersAreTheTypesOwn, files, entities, enums

(* A Go type is reported with its own members, whatever its package, its   *)
(* files and its blocks.                                                   *)
THEOREM TypesHaveTheirOwnMembers == Spec => []MembersAreTheTypesOwn
  BY BuildInvariant, MembersFromInvariant, PTL
=============================================================================
