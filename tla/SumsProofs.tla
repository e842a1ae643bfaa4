----------------------------- MODULE SumsProofs -----------------------------
(***************************************************************************)
(* What the proofs of this project need to know about totals.              *)
(***************************************************************************)
EXTENDS Sums, FiniteSetTheorems, WellFoundedInduction, TLAPS

(* A finite column has finitely many units.                                *)
LEMMA UnitsFinite ==
  ASSUME NEW S, IsFiniteSet(S), NEW f \in [S -> Nat]
  PROVE  IsFiniteSet(Units(f))
<1> DEFINE Blocks == {{x} \X (1..f[x]) : x \in S}
           block  == [x \in S |-> {x} \X (1..f[x])]
<1>1. block \in Surjection(S, Blocks)
  BY DEF Surjection
<1>2. IsFiniteSet(Blocks)
  BY <1>1, FS_Surjection
<1>3. ASSUME NEW B \in Blocks
      PROVE  IsFiniteSet(B)
  <2>1. PICK x \in S : B = {x} \X (1..f[x])
    OBVIOUS
  <2>2. IsFiniteSet({x})
    BY FS_Singleton
  <2>3. f[x] \in Int /\ 1 \in Int
    OBVIOUS
  <2>4. IsFiniteSet(1..f[x])
    BY <2>3, FS_Interval
  <2> QED
    BY <2>1, <2>2, <2>4, FS_Product
<1>4. Units(f) = UNION Blocks
  BY DEF Units
<1> QED
  BY <1>2, <1>3, <1>4, FS_UNION

(* A total is a natural number.                                            *)
LEMMA TotalType ==
  ASSUME NEW S, IsFiniteSet(S), NEW f \in [S -> Nat]
  PROVE  Total(f) \in Nat
BY UnitsFinite, FS_CardinalityType DEF Total

(* The total of a column of zeros is zero.                                 *)
LEMMA TotalZero ==
  ASSUME NEW S, NEW f \in [S -> Nat], \A x \in S : f[x] = 0
  PROVE  Total(f) = 0
<1>1. Units(f) = {}
  BY DEF Units
<1> QED
  BY <1>1, FS_EmptySet DEF Total

(* A total splits into the value of one row and the total of the rest.     *)
LEMMA TotalSplit ==
  ASSUME NEW S, IsFiniteSet(S), NEW f \in [S -> Nat], NEW x \in S
  PROVE  Total(f) = f[x] + Total([f EXCEPT ![x] = 0])
<1> DEFINE g   == [f EXCEPT ![x] = 0]
           Own == {x} \X (1..f[x])
<1>1. g \in [S -> Nat] /\ IsFiniteSet(Units(g))
  BY UnitsFinite
<1>2. IsFiniteSet(Own) /\ Cardinality(Own) = f[x]
  <2>1. IsFiniteSet({x}) /\ Cardinality({x}) = 1
    BY FS_Singleton
  <2>2. IsFiniteSet(1..f[x]) /\ Cardinality(1..f[x]) = f[x]
    BY FS_Interval
  <2>3. /\ IsFiniteSet({x} \X (1..f[x]))
        /\ Cardinality({x} \X (1..f[x])) = Cardinality({x}) * Cardinality(1..f[x])
    <3> DEFINE B == 1..f[x]
    <3>1. IsFiniteSet(B)
      BY <2>2
    <3> HIDE DEF B
    <3>2. IsFiniteSet({x} \X B) /\ Cardinality({x} \X B) = Cardinality({x}) * Cardinality(B)
      BY <2>1, <3>1, FS_Product, Zenon
    <3> QED
      BY <3>2 DEF B
  <2> QED
    BY <2>1, <2>2, <2>3
<1>3. Units(f) = Own \cup Units(g)
  <2>1. ASSUME NEW u \in Units(f)
        PROVE  u \in Own \cup Units(g)
    <3>1. PICK y \in S : u \in {y} \X (1..f[y])
      BY DEF Units
    <3>2. CASE y = x
      BY <3>1, <3>2
    <3>3. CASE y # x
      <4>1. g[y] = f[y] /\ y \in DOMAIN g
        BY <3>3
      <4> QED
        BY <3>1, <4>1 DEF Units
    <3> QED
      BY <3>2, <3>3
  <2>2. ASSUME NEW u \in Units(g)
        PROVE  u \in Units(f)
    <3>1. PICK y \in S : u \in {y} \X (1..g[y])
      BY DEF Units
    <3>2. y # x
      BY <3>1
    <3>3. g[y] = f[y]
      BY <3>2
    <3> QED
      BY <3>1, <3>3 DEF Units
  <2>3. Own \subseteq Units(f)
    BY DEF Units
  <2> QED
    BY <2>1, <2>2, <2>3
<1>4. Own \cap Units(g) = {}
  <2>1. ASSUME NEW u \in Own, u \in Units(g)
        PROVE  FALSE
    <3>1. PICK y \in S : u \in {y} \X (1..g[y])
      BY <2>1 DEF Units
    <3>2. y = x /\ g[x] = 0
      BY <2>1, <3>1
    <3> QED
      BY <3>1, <3>2
  <2> QED
    BY <2>1
<1>5. Cardinality(Units(f)) = f[x] + Cardinality(Units(g))
  <2>1. Cardinality(Units(f)) =
          Cardinality(Own) + Cardinality(Units(g)) - Cardinality({})
    BY <1>1, <1>2, <1>3, <1>4, FS_Union
  <2>2. Cardinality(Units(g)) \in Nat
    BY <1>1, FS_CardinalityType
  <2> QED
    BY <1>2, <2>1, <2>2, FS_EmptySet
<1> QED
  BY <1>5 DEF Total

(* Changing one row changes the total by exactly the change of that row.   *)
LEMMA TotalUpdate ==
  ASSUME NEW S, IsFiniteSet(S), NEW f \in [S -> Nat], NEW g \in [S -> Nat],
         NEW x \in S, \A y \in S : y # x => g[y] = f[y]
  PROVE  /\ Total(f) \in Nat
         /\ Total(g) \in Nat
         /\ Total(g) = Total(f) - f[x] + g[x]
         /\ f[x] <= Total(f)
<1> DEFINE h == [f EXCEPT ![x] = 0]
<1>1. h = [g EXCEPT ![x] = 0] /\ h \in [S -> Nat]
  OBVIOUS
<1>2. /\ Total(f) = f[x] + Total(h)
      /\ Total(g) = g[x] + Total(h)
  <2>1. Total(f) = f[x] + Total(h)
    BY TotalSplit
  <2>2. Total(g) = g[x] + Total([g EXCEPT ![x] = 0])
    BY TotalSplit
  <2> QED
    BY <1>1, <2>1, <2>2
<1>3. Total(f) \in Nat /\ Total(g) \in Nat /\ Total(h) \in Nat
  BY <1>1, TotalType
<1>4. f[x] \in Nat /\ g[x] \in Nat
  OBVIOUS
<1> QED
  BY <1>2, <1>3, <1>4

(* A total grows with its rows.                                            *)
LEMMA TotalMonotone ==
  ASSUME NEW S, IsFiniteSet(S), NEW f \in [S -> Nat], NEW g \in [S -> Nat],
         \A x \in S : f[x] <= g[x]
  PROVE  Total(f) <= Total(g)
<1>1. Units(f) \subseteq Units(g)
  <2>1. ASSUME NEW u \in Units(f)
        PROVE  u \in Units(g)
    <3>1. PICK y \in S : u \in {y} \X (1..f[y])
      BY DEF Units
    <3>2. 1..f[y] \subseteq 1..g[y]
      OBVIOUS
    <3>3. u \in {y} \X (1..g[y])
      BY <3>1, <3>2
    <3> QED
      BY <3>3 DEF Units
  <2> QED
    BY <2>1
<1>2. IsFiniteSet(Units(g))
  BY UnitsFinite
<1> QED
  BY <1>1, <1>2, FS_Subset DEF Total

(* The total over rows that are divided between two columns.               *)
LEMMA TotalDivided ==
  ASSUME NEW S, IsFiniteSet(S), NEW f \in [S -> Nat], NEW g \in [S -> Nat], NEW k \in [S -> Nat],
         \A x \in S : (k[x] = f[x] /\ g[x] = 0) \/ (k[x] = g[x] /\ f[x] = 0)
  PROVE  Total(k) = Total(f) + Total(g)
<1>1. IsFiniteSet(Units(f)) /\ IsFiniteSet(Units(g))
  BY UnitsFinite
<1>2. Units(k) = Units(f) \cup Units(g)
  <2>1. ASSUME NEW u
        PROVE  u \in Units(k) <=> \E x \in S : u \in {x} \X (1..k[x])
    BY DEF Units
  <2>2. ASSUME NEW u
        PROVE  /\ u \in Units(f) <=> \E x \in S : u \in {x} \X (1..f[x])
               /\ u \in Units(g) <=> \E x \in S : u \in {x} \X (1..g[x])
    BY DEF Units
  <2>3. ASSUME NEW x \in S
        PROVE  {x} \X (1..k[x]) = ({x} \X (1..f[x])) \cup ({x} \X (1..g[x]))
    <3>1. CASE k[x] = f[x] /\ g[x] = 0
      <4>1. 1..g[x] = {}
        BY <3>1
      <4> QED
        BY <3>1, <4>1
    <3>2. CASE k[x] = g[x] /\ f[x] = 0
      <4>1. 1..f[x] = {}
        BY <3>2
      <4> QED
        BY <3>2, <4>1
    <3> QED
      BY <3>1, <3>2
  <2> QED
    BY <2>1, <2>2, <2>3
<1>3. Units(f) \cap Units(g) = {}
  <2>1. ASSUME NEW x \in S, NEW y \in S, NEW i \in 1..f[x], NEW j \in 1..g[y], x = y
        PROVE  FALSE
    BY <2>1
  <2>2. ASSUME NEW u \in Units(f), u \in Units(g)
        PROVE  FALSE
    <3>1. PICK x \in S : u \in {x} \X (1..f[x])
      BY DEF Units
    <3>2. PICK y \in S : u \in {y} \X (1..g[y])
      BY <2>2 DEF Units
    <3> QED
      BY <2>1, <3>1, <3>2
  <2> QED
    BY <2>2
<1>4. /\ Cardinality(Units(k)) = Cardinality(Units(f)) + Cardinality(Units(g))
                                 - Cardinality(Units(f) \cap Units(g))
      /\ Cardinality(Units(f)) \in Nat /\ Cardinality(Units(g)) \in Nat
  BY <1>1, <1>2, FS_Union, FS_CardinalityType
<1>5. Cardinality(Units(f) \cap Units(g)) = 0
  BY <1>3, FS_EmptySet
<1>6. Cardinality(Units(k)) = Cardinality(Units(f)) + Cardinality(Units(g))
  BY <1>4, <1>5
<1> QED
  BY <1>6 DEF Total

(* The room of the rows before x, in the order R.                          *)
RoomBefore(S, R, room, x) == [y \in S |-> IF <<y, x>> \in R THEN room[y] ELSE 0]

(* A row, and the room before it, is part of the room before a later row.  *)
LEMMA RoomAhead ==
  ASSUME NEW S, IsFiniteSet(S), NEW room \in [S -> Nat], NEW R,
         NEW x \in S, NEW y \in S, <<x, y>> \in R, <<x, x>> \notin R,
         \A z \in S : <<z, x>> \in R => <<z, y>> \in R
  PROVE  Total(RoomBefore(S, R, room, x)) + room[x] <= Total(RoomBefore(S, R, room, y))
<1> DEFINE f == RoomBefore(S, R, room, x)
           g == [f EXCEPT ![x] = room[x]]
           h == RoomBefore(S, R, room, y)
<1>1. f \in [S -> Nat] /\ h \in [S -> Nat] /\ f[x] = 0
  BY DEF RoomBefore
<1>2. g \in [S -> Nat] /\ g[x] = room[x] /\ \A z \in S : z # x => g[z] = f[z]
  BY <1>1
<1>3. \A z \in S : g[z] <= h[z]
  <2> TAKE z \in S
  <2>1. CASE z = x
    BY <2>1, <1>2 DEF RoomBefore
  <2>2. CASE z # x /\ <<z, x>> \in R
    BY <2>2, <1>1, <1>2 DEF RoomBefore
  <2>3. CASE z # x /\ <<z, x>> \notin R
    BY <2>3, <1>1, <1>2 DEF RoomBefore
  <2> QED
    BY <2>1, <2>2, <2>3
<1> HIDE DEF f, g, h
<1>4. Total(g) = Total(f) - f[x] + g[x] /\ Total(f) \in Nat
  BY <1>1, <1>2, TotalUpdate
<1>5. Total(g) <= Total(h)
  BY <1>1, <1>2, <1>3, TotalMonotone
<1>6. Total(f) + room[x] <= Total(h)
  BY <1>1, <1>2, <1>4, <1>5
<1> QED
  BY <1>6 DEF f, h

(* Rows that are filled one after another, in the order R, from an amount  *)
(* n: a row gets at most its room, and gets nothing unless the amount      *)
(* suffices for all the room before it too.  Together they get at most n.  *)
LEMMA TotalFilled ==
  ASSUME NEW S, IsFiniteSet(S), NEW n \in Nat,
         NEW room \in [S -> Nat], NEW give \in [S -> Nat], NEW R,
         \A x \in S : <<x, x>> \notin R,
         \A x, y \in S : x # y => <<x, y>> \in R \/ <<y, x>> \in R,
         \A x, y, z \in S : <<x, y>> \in R /\ <<y, z>> \in R => <<x, z>> \in R,
         \A x \in S : give[x] <= room[x],
         \A x \in S : give[x] > 0 => Total(RoomBefore(S, R, room, x)) + give[x] <= n
  PROVE  Total(give) <= n
<1> DEFINE ahead(x) == RoomBefore(S, R, room, x)
           place == [u \in Units(give) |-> Total(ahead(u[1])) + u[2]]
<1>1. \A x \in S : ahead(x) \in [S -> Nat] /\ Total(ahead(x)) \in Nat
  <2> TAKE x \in S
  <2>1. ahead(x) \in [S -> Nat]
    BY DEF RoomBefore
  <2> QED
    BY <2>1, TotalType
<1>2. ASSUME NEW x \in S, NEW y \in S, <<x, y>> \in R
      PROVE  Total(ahead(x)) + room[x] <= Total(ahead(y))
  <2>1. \A z \in S : <<z, x>> \in R => <<z, y>> \in R
    BY <1>2
  <2> QED
    BY <1>2, <2>1, RoomAhead
<1>3. ASSUME NEW u \in Units(give)
      PROVE  /\ u[1] \in S /\ u[2] \in 1..give[u[1]] /\ u = <<u[1], u[2]>>
             /\ Total(ahead(u[1])) + u[2] \in 1..n
  <2>1. PICK x \in S : u \in {x} \X (1..give[x])
    BY DEF Units
  <2>2. u[1] = x /\ u[2] \in 1..give[x] /\ u = <<u[1], u[2]>>
    BY <2>1
  <2>3. Total(ahead(x)) + give[x] <= n
    BY <2>2
  <2> HIDE DEF ahead
  <2>4. Total(ahead(x)) \in Nat /\ give[x] \in Nat
    BY <1>1
  <2> QED
    BY <2>2, <2>3, <2>4
<1>4. ASSUME NEW u \in Units(give), NEW v \in Units(give), <<u[1], v[1]>> \in R
      PROVE  Total(ahead(u[1])) + u[2] < Total(ahead(v[1])) + v[2]
  <2>1. u[1] \in S /\ v[1] \in S /\ u[2] \in 1..give[u[1]] /\ v[2] \in 1..give[v[1]]
    BY <1>3
  <2>2. Total(ahead(u[1])) + room[u[1]] <= Total(ahead(v[1]))
    BY <1>2, <1>4, <2>1
  <2>3. give[u[1]] <= room[u[1]] /\ room[u[1]] \in Nat /\ give[u[1]] \in Nat /\ give[v[1]] \in Nat
    BY <2>1
  <2> HIDE DEF ahead
  <2>4. Total(ahead(u[1])) \in Nat /\ Total(ahead(v[1])) \in Nat
    BY <1>1, <2>1
  <2> QED
    BY <2>1, <2>2, <2>3, <2>4
<1>5. \A u \in Units(give) : place[u] = Total(ahead(u[1])) + u[2]
  OBVIOUS
<1>6. place \in [Units(give) -> 1..n]
  BY <1>3
<1> HIDE DEF place
<1>7. ASSUME NEW u \in Units(give), NEW v \in Units(give), place[u] = place[v]
      PROVE  u = v
  <2>1. place[u] = Total(ahead(u[1])) + u[2] /\ place[v] = Total(ahead(v[1])) + v[2]
    BY <1>5
  <2> HIDE DEF ahead
  <2>2. u[1] \in S /\ v[1] \in S /\ u[2] \in Int /\ v[2] \in Int
    BY <1>3
  <2>3. PICK a \in Nat, b \in Nat : a = Total(ahead(u[1])) /\ b = Total(ahead(v[1]))
    BY <1>1, <2>2
  <2>4. a + u[2] = b + v[2]
    BY <1>7, <2>1, <2>3
  <2>5. u[1] = v[1]
    <3>1. ASSUME <<u[1], v[1]>> \in R
          PROVE  FALSE
      <4>1. a + u[2] < b + v[2]
        BY <1>4, <2>3, <3>1
      <4> QED
        BY <2>2, <2>4, <4>1
    <3>2. ASSUME <<v[1], u[1]>> \in R
          PROVE  FALSE
      <4>1. b + v[2] < a + u[2]
        BY <1>4, <2>3, <3>2
      <4> QED
        BY <2>2, <2>4, <4>1
    <3> QED
      BY <2>2, <3>1, <3>2
  <2>6. a = b
    BY <2>3, <2>5
  <2>7. u[2] = v[2]
    BY <2>2, <2>4, <2>6
  <2> QED
    BY <1>3, <2>5, <2>7
<1>8. place \in Injection(Units(give), 1..n)
  BY <1>6, <1>7 DEF Injection, IsInjective
<1>9. IsFiniteSet(1..n) /\ Cardinality(1..n) = n
  BY FS_Interval
<1> QED
  BY <1>8, <1>9, FS_Injection DEF Total

(* A set of naturals has a least one.                                      *)
LEMMA LeastNatural ==
  ASSUME NEW N \in SUBSET Nat, N # {}
  PROVE  \E k \in N : \A m \in N : k <= m
<1> DEFINE Less == OpToRel(<, Nat)
<1>1. IsWellFoundedOn(Less, Nat)
  BY NatLessThanWellFounded, Zenon
<1>2. \A w : w \in Less <=> w \in Nat \X Nat /\ w[1] < w[2]
  BY Zenon DEF OpToRel
<1> HIDE DEF Less
<1>3. PICK k \in N : \A m \in N : ~(<<m, k>> \in Less)
  BY <1>1, WFMin
<1>4. \A m \in N : ~(m < k)
  BY <1>2, <1>3
<1> QED
  BY <1>4

(* The first of some rows of a finite table, in the order R: the row with  *)
(* the fewest before it.                                                   *)
LEMMA FirstInOrder ==
  ASSUME NEW S, IsFiniteSet(S), NEW R, NEW T \in SUBSET S, T # {},
         \A x \in S : <<x, x>> \notin R,
         \A x, y, z \in S : <<x, y>> \in R /\ <<y, z>> \in R => <<x, z>> \in R
  PROVE  \E x \in T : \A y \in T : <<y, x>> \notin R
<1> DEFINE ahead(x) == {y \in S : <<y, x>> \in R}
           rank == [x \in T |-> Cardinality(ahead(x))]
           Ranks == {rank[x] : x \in T}
<1>1. \A x \in T : IsFiniteSet(ahead(x)) /\ Cardinality(ahead(x)) \in Nat
  BY FS_Subset, FS_CardinalityType
<1>2. rank \in [T -> Nat] /\ \A x \in T : rank[x] = Cardinality(ahead(x))
  BY <1>1
<1> HIDE DEF rank
<1>3. PICK k \in Ranks : \A m \in Ranks : k <= m
  <2>1. Ranks \in SUBSET Nat /\ Ranks # {}
    BY <1>2
  <2> HIDE DEF Ranks
  <2> QED
    BY <2>1, LeastNatural
<1>4. PICK x \in T : k = rank[x]
  BY <1>3
<1>5. ASSUME NEW y \in T, <<y, x>> \in R
      PROVE  FALSE
  <2>1. ahead(y) \subseteq ahead(x) /\ y \in ahead(x) /\ y \notin ahead(y)
    BY <1>5
  <2>2. rank[y] <= rank[x] /\ rank[y] # rank[x]
    <3>1. IsFiniteSet(ahead(x)) /\ ahead(y) \in SUBSET ahead(x) /\ ahead(x) # ahead(y)
      BY <1>1, <2>1
    <3> HIDE DEF ahead
    <3> QED
      BY <1>2, <3>1, FS_Subset
  <2>3. rank[x] <= rank[y]
    BY <1>3, <1>4
  <2> QED
    BY <1>2, <2>2, <2>3
<1> QED
  BY <1>5

(* Rows filled one after another until the amount is used up: a row that   *)
(* is not full got the rest of the amount.  Then they get all of it, or    *)
(* every row is full.                                                      *)
LEMMA TotalFilledUp ==
  ASSUME NEW S, IsFiniteSet(S), NEW n \in Nat,
         NEW room \in [S -> Nat], NEW give \in [S -> Nat], NEW R,
         \A x \in S : <<x, x>> \notin R,
         \A x, y, z \in S : <<x, y>> \in R /\ <<y, z>> \in R => <<x, z>> \in R,
         \A x \in S : give[x] <= room[x],
         \A x \in S : give[x] < room[x] => n <= Total(RoomBefore(S, R, room, x)) + give[x]
  PROVE  give = room \/ n <= Total(give)
<1> DEFINE T == {x \in S : give[x] < room[x]}
<1>1. CASE T = {}
  <2>1. \A x \in S : give[x] = room[x]
    BY <1>1
  <2> QED
    BY <2>1
<1>2. CASE T # {}
  <2>1. PICK x \in T : \A y \in T : <<y, x>> \notin R
    <3>1. T \in SUBSET S
      OBVIOUS
    <3> HIDE DEF T
    <3> QED
      BY <1>2, <3>1, FirstInOrder
  <2> DEFINE f == RoomBefore(S, R, room, x)
             g == [f EXCEPT ![x] = give[x]]
  <2>2. x \in S /\ n <= Total(f) + give[x]
    OBVIOUS
  <2>3. f \in [S -> Nat] /\ f[x] = 0
    BY <2>2 DEF RoomBefore
  <2>4. g \in [S -> Nat] /\ g[x] = give[x] /\ \A y \in S : y # x => g[y] = f[y]
    BY <2>2, <2>3
  <2>5. \A y \in S : g[y] <= give[y]
    <3> TAKE y \in S
    <3>1. CASE y = x
      BY <2>4, <3>1
    <3>2. CASE y # x /\ <<y, x>> \in R
      <4>1. y \notin T
        BY <2>1, <3>2
      <4>2. give[y] = room[y]
        BY <4>1
      <4> QED
        BY <2>4, <3>2, <4>2 DEF RoomBefore
    <3>3. CASE y # x /\ <<y, x>> \notin R
      BY <2>4, <3>3 DEF RoomBefore
    <3> QED
      BY <3>1, <3>2, <3>3
  <2> HIDE DEF f, g
  <2>6. Total(g) = Total(f) - f[x] + g[x] /\ Total(f) \in Nat /\ Total(g) \in Nat
    BY <2>2, <2>3, <2>4, TotalUpdate
  <2>7. Total(g) <= Total(give)
    BY <2>4, <2>5, TotalMonotone
  <2>8. Total(give) \in Nat
    BY TotalType
  <2> QED
    BY <2>2, <2>3, <2>4, <2>6, <2>7, <2>8
<1> QED
  BY <1>1, <1>2

(* Row y comes next after x: what else is before y is before x, or has no  *)
(* room.                                                                   *)
NextAfter(S, R, room, x, y) ==
    /\ <<x, y>> \in R /\ <<x, x>> \notin R
    /\ \A z \in S : <<z, x>> \in R => <<z, y>> \in R
    /\ \A z \in S : <<z, y>> \in R /\ z # x /\ <<z, x>> \notin R => room[z] = 0

(* The room before a row is the room before the row that precedes it and   *)
(* the room of that row itself.                                            *)
LEMMA RoomOfNext ==
  ASSUME NEW S, IsFiniteSet(S), NEW room \in [S -> Nat], NEW R,
         NEW x \in S, NEW y \in S, NextAfter(S, R, room, x, y)
  PROVE  Total(RoomBefore(S, R, room, y)) = Total(RoomBefore(S, R, room, x)) + room[x]
<1> DEFINE f == RoomBefore(S, R, room, x)
           g == RoomBefore(S, R, room, y)
<1>1. f \in [S -> Nat] /\ g \in [S -> Nat] /\ f[x] = 0 /\ g[x] = room[x]
  BY DEF RoomBefore, NextAfter
<1>2. \A z \in S : z # x => g[z] = f[z]
  BY DEF RoomBefore, NextAfter
<1> HIDE DEF f, g
<1>3. Total(g) = Total(f) - f[x] + g[x] /\ Total(f) \in Nat
  BY <1>1, <1>2, TotalUpdate
<1>4. Total(g) = Total(f) + room[x]
  BY <1>1, <1>3
<1> QED
  BY <1>4 DEF f, g
=============================================================================
