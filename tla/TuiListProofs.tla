--------------------------- MODULE TuiListProofs ---------------------------
(***************************************************************************)
(* Proofs about TuiList, for every catalog, hardware, analysis and user.   *)
(***************************************************************************)
EXTENDS TuiList, TLAPS, FiniteSetTheorems, NaturalsInduction, WellFoundedInduction

-----------------------------------------------------------------------------
(* Sets of numbers and the sequences that list them. *)

(* A set of numbers that is not empty has a least one. *)
LEMMA LeastNumber ==
    ASSUME NEW S, S \subseteq Nat, S # {}
    PROVE  \E x \in S : \A y \in S : x <= y
<1> DEFINE Less == {ss \in Nat \X Nat : ss[1] < ss[2]}
<1>1. \E x \in S : \A y \in S : ~ (<<y, x>> \in Less)
  <2>1. IsWellFoundedOn(Less, Nat)
    BY NatLessThanWellFounded DEF OpToRel
  <2>2. QED
    BY <2>1, WFMin
<1>2. PICK x \in S : \A y \in S : ~ (<<y, x>> \in Less)
  BY <1>1
<1>3. ASSUME NEW y \in S PROVE x <= y
  <2>1. <<y, x>> \in Nat \X Nat /\ ~ (<<y, x>> \in Less)
    BY <1>2
  <2>2. QED
    BY <2>1
<1>4. QED
  BY <1>3

(* How many numbers of a set are not above one of them. *)
UpTo(S, x) == Cardinality({y \in S : y <= x})

(* A greater number of the set has more of them below it. *)
LEMMA UpToGrows ==
    ASSUME NEW S, S \subseteq Nat, IsFiniteSet(S), NEW x \in S, NEW z \in S, x < z
    PROVE  UpTo(S, x) < UpTo(S, z)
<1> DEFINE X == {y \in S : y <= x}
           Z == {y \in S : y <= z}
<1>1. X \subseteq Z /\ z \in Z /\ z \notin X
  <2>1. ASSUME NEW y \in S, y <= x PROVE y <= z
    <3>1. x \in Nat /\ y \in Nat /\ z \in Nat
      OBVIOUS
    <3>2. QED
      BY <2>1, <3>1
  <2>2. x \in Nat /\ z \in Nat
    OBVIOUS
  <2>3. z <= z /\ ~ (z <= x)
    BY <2>2
  <2>4. QED
    BY <2>1, <2>3
<1>2. IsFiniteSet(Z) /\ Z \in SUBSET S
  BY FS_Subset
<1> HIDE DEF X, Z
<1>3. /\ IsFiniteSet(X) /\ Cardinality(X) <= Cardinality(Z)
      /\ Cardinality(Z) = Cardinality(X) => Z = X
  BY <1>1, <1>2, FS_Subset
<1>4. Cardinality(X) \in Nat /\ Cardinality(Z) \in Nat
  BY <1>2, <1>3, FS_CardinalityType
<1>5. Cardinality(X) < Cardinality(Z)
  BY <1>1, <1>3, <1>4
<1>6. QED
  BY <1>5 DEF UpTo, X, Z

(* InOrder lists the numbers of a finite set, each one once: counting is a *)
(* bijection to the places.                                                *)
LEMMA InOrderLists ==
    ASSUME NEW S, S \subseteq Nat, IsFiniteSet(S)
    PROVE  /\ Cardinality(S) \in Nat
           /\ InOrder(S) \in Seq(S) /\ Len(InOrder(S)) = Cardinality(S)
           /\ DOMAIN InOrder(S) = 1..Cardinality(S)
           /\ IsInjective(InOrder(S))
<1> DEFINE n == Cardinality(S)
           N == 1..n
           count == [x \in S |-> UpTo(S, x)]
           s == InOrder(S)
<1>1. n \in Nat
  BY FS_CardinalityType
<1> HIDE DEF n
<1>2. IsFiniteSet(N) /\ Cardinality(N) = n
  BY <1>1, FS_Interval
<1>3. ASSUME NEW x \in S PROVE UpTo(S, x) \in N
  <2> DEFINE X == {y \in S : y <= x}
  <2>1. X \in SUBSET S /\ x \in X
    <3>1. x \in Nat
      OBVIOUS
    <3>2. QED
      BY <3>1
  <2> HIDE DEF X
  <2>2. IsFiniteSet(X) /\ Cardinality(X) <= n
    BY <2>1, FS_Subset DEF n
  <2>3. Cardinality(X) \in Nat /\ Cardinality(X) # 0
    BY <2>1, <2>2, FS_CardinalityType, FS_EmptySet
  <2>4. Cardinality(X) \in 1..n
    BY <1>1, <2>2, <2>3
  <2>5. QED
    BY <2>4 DEF UpTo, X
<1>4. count \in [S -> N] /\ \A x \in S : count[x] = UpTo(S, x)
  BY <1>3
<1> HIDE DEF N, count
<1>5. ASSUME NEW x \in S, NEW z \in S, count[x] = count[z] PROVE x = z
  <2>1. x \in Nat /\ z \in Nat /\ count[x] \in Int
    BY <1>1, <1>4 DEF N
  <2>2. x < z => count[x] < count[z]
    BY <1>4, UpToGrows
  <2>3. z < x => count[z] < count[x]
    BY <1>4, UpToGrows
  <2>4. QED
    BY <1>5, <2>1, <2>2, <2>3
<1>6. count \in Surjection(S, N)
  <2>1. count \in Injection(S, N)
    BY <1>4, <1>5 DEF Injection, IsInjective
  <2>2. QED
    BY <1>2, <2>1, FS_Injection DEF n
<1>7. \A i \in N : \E x \in S : UpTo(S, x) = i
  BY <1>4, <1>6 DEF Surjection
<1>8. s = [i \in N |-> CHOOSE x \in S : UpTo(S, x) = i]
  BY DEF InOrder, UpTo, N, n
<1> HIDE DEF s
<1>9. ASSUME NEW i \in N PROVE s[i] \in S /\ UpTo(S, s[i]) = i
  BY <1>7, <1>8
<1>10. DOMAIN s = N /\ s \in [1..n -> S]
  BY <1>8, <1>9 DEF N
<1>11. s \in Seq(S) /\ Len(s) = n
  BY <1>1, <1>10
<1>12. IsInjective(s)
  BY <1>9, <1>10 DEF IsInjective
<1>13. QED
  BY <1>1, <1>10, <1>11, <1>12 DEF s, n, N

-----------------------------------------------------------------------------
(* The comparator of the table: keys of one length, compared               *)
(* lexicographically, are totally ordered.                                 *)

Keys(n) == [1..n -> Int]

(* No key is below itself. *)
LEMMA LexIrreflexive ==
    ASSUME NEW n \in Nat, NEW k \in Keys(n)
    PROVE  ~ LexLess(k, k)
<1>1. \A i \in 1..n : k[i] \in Int
  BY DEF Keys
<1>2. Len(k) = n
  BY DEF Keys
<1>3. QED
  BY <1>1, <1>2 DEF LexLess

(* Of two keys that differ, one is below the other: their first difference *)
(* decides.                                                                *)
LEMMA LexTotal ==
    ASSUME NEW n \in Nat, NEW k \in Keys(n), NEW l \in Keys(n), k # l
    PROVE  LexLess(k, l) \/ LexLess(l, k)
<1> DEFINE D == {i \in 1..n : k[i] # l[i]}
<1>1. \A i \in 1..n : k[i] \in Int /\ l[i] \in Int
  BY DEF Keys
<1>2. Len(k) = n /\ Len(l) = n
  BY DEF Keys
<1>3. D # {}
  BY DEF Keys
<1>4. PICK i \in D : \A j \in D : i <= j
  <2>1. D \subseteq Nat
    OBVIOUS
  <2>2. QED
    BY <1>3, <2>1, LeastNumber
<1>5. \A j \in 1..(i - 1) : k[j] = l[j]
  <2> SUFFICES ASSUME NEW j \in 1..(i - 1), k[j] # l[j] PROVE FALSE
    OBVIOUS
  <2>1. j \in 1..n /\ ~ (i <= j)
    OBVIOUS
  <2>2. QED
    BY <1>4, <2>1
<1>6. k[i] < l[i] \/ l[i] < k[i]
  BY <1>1
<1>7. QED
  BY <1>2, <1>5, <1>6 DEF LexLess

(* Below is transitive. *)
LEMMA LexTransitive ==
    ASSUME NEW n \in Nat, NEW k \in Keys(n), NEW l \in Keys(n), NEW m \in Keys(n),
           LexLess(k, l), LexLess(l, m)
    PROVE  LexLess(k, m)
<1>1. \A i \in 1..n : k[i] \in Int /\ l[i] \in Int /\ m[i] \in Int
  BY DEF Keys
<1>2. Len(k) = n /\ Len(l) = n
  BY DEF Keys
<1>3. PICK i \in 1..n : k[i] < l[i] /\ \A h \in 1..(i - 1) : k[h] = l[h]
  BY <1>2 DEF LexLess
<1>4. PICK j \in 1..n : l[j] < m[j] /\ \A h \in 1..(j - 1) : l[h] = m[h]
  BY <1>2 DEF LexLess
<1>5. CASE i < j
  <2>1. i \in 1..(j - 1) /\ \A h \in 1..(i - 1) : h \in 1..(j - 1)
    BY <1>5
  <2>2. k[i] < m[i] /\ \A h \in 1..(i - 1) : k[h] = m[h]
    BY <1>3, <1>4, <2>1
  <2>3. QED
    BY <1>2, <2>2 DEF LexLess
<1>6. CASE j < i
  <2>1. j \in 1..(i - 1) /\ \A h \in 1..(j - 1) : h \in 1..(i - 1)
    BY <1>6
  <2>2. k[j] < m[j] /\ \A h \in 1..(j - 1) : k[h] = m[h]
    BY <1>3, <1>4, <2>1
  <2>3. QED
    BY <1>2, <2>2 DEF LexLess
<1>7. CASE i = j
  <2>1. k[i] < m[i] /\ \A h \in 1..(i - 1) : k[h] = m[h]
    <3>1. k[i] \in Int /\ l[i] \in Int /\ m[i] \in Int
      BY <1>1
    <3>2. QED
      BY <1>3, <1>4, <1>7, <3>1
  <2>2. QED
    BY <1>2, <2>1 DEF LexLess
<1>8. QED
  BY <1>5, <1>6, <1>7

-----------------------------------------------------------------------------
(* The sort.  before is a strict order of the positions; a position's      *)
(* place is how many come before it, and no two have the same.             *)

Before(key, i, j) == LexLess(key[i], key[j]) \/ (key[i] = key[j] /\ i < j)

PlaceOf(key, N, i) == 1 + Cardinality({j \in N : Before(key, j, i)})

(* Positions are totally ordered by their keys, equal keys by position. *)
LEMMA BeforeIsOrder ==
    ASSUME NEW n \in Nat, NEW N \in SUBSET Nat, NEW key \in [N -> Keys(n)]
    PROVE  /\ \A i \in N : ~ Before(key, i, i)
           /\ \A i, j \in N : i # j => Before(key, i, j) \/ Before(key, j, i)
           /\ \A h, i, j \in N : Before(key, h, i) /\ Before(key, i, j) => Before(key, h, j)
<1>1. \A i \in N : key[i] \in Keys(n) /\ i \in Nat
  OBVIOUS
<1>2. ASSUME NEW i \in N PROVE ~ Before(key, i, i)
  <2>1. ~ LexLess(key[i], key[i]) /\ ~ (i < i)
    BY <1>1, LexIrreflexive
  <2>2. QED
    BY <2>1 DEF Before
<1>3. ASSUME NEW i \in N, NEW j \in N, i # j
      PROVE  Before(key, i, j) \/ Before(key, j, i)
  <2>1. CASE key[i] = key[j]
    <3>1. i < j \/ j < i
      BY <1>1, <1>3
    <3>2. QED
      BY <2>1, <3>1 DEF Before
  <2>2. CASE key[i] # key[j]
    BY <1>1, <2>2, LexTotal DEF Before
  <2>3. QED
    BY <2>1, <2>2
<1>4. ASSUME NEW h \in N, NEW i \in N, NEW j \in N, Before(key, h, i), Before(key, i, j)
      PROVE  Before(key, h, j)
  <2>1. CASE key[h] = key[i] /\ key[i] = key[j]
    <3>1. h < i /\ i < j
      BY <1>1, <1>4, <2>1, LexIrreflexive DEF Before
    <3>2. QED
      BY <1>1, <2>1, <3>1 DEF Before
  <2>2. CASE key[h] = key[i] /\ key[i] # key[j]
    BY <1>4, <2>2 DEF Before
  <2>3. CASE key[h] # key[i] /\ key[i] = key[j]
    BY <1>4, <2>3 DEF Before
  <2>4. CASE key[h] # key[i] /\ key[i] # key[j]
    <3>1. LexLess(key[h], key[i]) /\ LexLess(key[i], key[j])
      BY <1>4, <2>4 DEF Before
    <3>2. QED
      BY <1>1, <3>1, LexTransitive DEF Before
  <2>5. QED
    BY <2>1, <2>2, <2>3, <2>4
<1>5. QED
  BY <1>2, <1>3, <1>4

(* What is before another has the smaller place. *)
LEMMA PlaceGrows ==
    ASSUME NEW n \in Nat, NEW N \in SUBSET Nat, IsFiniteSet(N), NEW key \in [N -> Keys(n)],
           NEW i \in N, NEW j \in N, Before(key, i, j)
    PROVE  PlaceOf(key, N, i) < PlaceOf(key, N, j)
<1> DEFINE I == {h \in N : Before(key, h, i)}
           J == {h \in N : Before(key, h, j)}
<1>1. I \subseteq J /\ i \in J /\ i \notin I
  BY BeforeIsOrder
<1>2. IsFiniteSet(J) /\ J \in SUBSET N
  BY FS_Subset
<1> HIDE DEF I, J
<1>3. /\ IsFiniteSet(I) /\ Cardinality(I) <= Cardinality(J)
      /\ Cardinality(J) = Cardinality(I) => J = I
  BY <1>1, <1>2, FS_Subset
<1>4. Cardinality(I) \in Nat /\ Cardinality(J) \in Nat
  BY <1>2, <1>3, FS_CardinalityType
<1>5. Cardinality(I) < Cardinality(J)
  BY <1>1, <1>3, <1>4
<1>6. QED
  BY <1>4, <1>5 DEF PlaceOf, I, J

(* Every place is taken by exactly one position. *)
LEMMA PlaceIsBijection ==
    ASSUME NEW n \in Nat, NEW len \in Nat, NEW key \in [1..len -> Keys(n)]
    PROVE  LET place == [i \in 1..len |-> PlaceOf(key, 1..len, i)]
           IN  /\ place \in [1..len -> 1..len]
               /\ \A p \in 1..len : \E i \in 1..len : place[i] = p
               /\ \A i, j \in 1..len : place[i] < place[j] => Before(key, i, j)
<1> DEFINE N == 1..len
           place == [i \in N |-> PlaceOf(key, N, i)]
<1>1. N \in SUBSET Nat /\ IsFiniteSet(N) /\ Cardinality(N) = len
  BY FS_Interval
<1> HIDE DEF N
<1>2. key \in [N -> Keys(n)]
  BY DEF N
<1>3. ASSUME NEW i \in N PROVE PlaceOf(key, N, i) \in N
  <2> DEFINE I == {h \in N : Before(key, h, i)}
  <2>1. I \in SUBSET (N \ {i})
    BY <1>1, <1>2, BeforeIsOrder
  <2> HIDE DEF I
  <2>2. IsFiniteSet(N \ {i}) /\ Cardinality(N \ {i}) = len - 1
    BY <1>1, FS_RemoveElement
  <2>3. IsFiniteSet(I) /\ Cardinality(I) <= len - 1
    BY <2>1, <2>2, FS_Subset
  <2>4. Cardinality(I) \in Nat
    BY <2>3, FS_CardinalityType
  <2>5. 1 + Cardinality(I) \in 1..len
    BY <2>3, <2>4
  <2>6. QED
    BY <2>5 DEF PlaceOf, I, N
<1>4. place \in [N -> N] /\ \A i \in N : place[i] = PlaceOf(key, N, i) /\ place[i] \in Nat
  BY <1>1, <1>3
<1> HIDE DEF place
<1>5. \A i, j \in N : Before(key, i, j) => place[i] < place[j]
  BY <1>1, <1>2, <1>4, PlaceGrows
<1>6. \A i, j \in N : i # j => Before(key, i, j) \/ Before(key, j, i)
  BY <1>1, <1>2, BeforeIsOrder
<1>7. place \in Injection(N, N)
  <2>1. ASSUME NEW i \in N, NEW j \in N, place[i] = place[j] PROVE i = j
    <3>1. ~ (place[i] < place[j]) /\ ~ (place[j] < place[i])
      BY <1>4, <2>1
    <3>2. QED
      BY <1>5, <1>6, <3>1
  <2>2. QED
    BY <1>4, <2>1 DEF Injection, IsInjective
<1>8. place \in Surjection(N, N)
  BY <1>1, <1>7, FS_Injection
<1>9. \A p \in N : \E i \in N : place[i] = p
  BY <1>8 DEF Surjection
<1>10. ASSUME NEW i \in N, NEW j \in N, place[i] < place[j] PROVE Before(key, i, j)
  <2>1. i # j /\ ~ (place[j] < place[i])
    BY <1>4, <1>10
  <2>2. QED
    BY <1>5, <1>6, <2>1
<1>11. QED
  BY <1>4, <1>9, <1>10 DEF N, place

(* How many numbers a column compares. *)
Width(column) == IF column \in {"Score", "Params", "MemPct"} THEN 1 ELSE 2

(* What a column compares are as many numbers for every row. *)
LEMMA ColumnKeyOK ==
    ASSUME NEW a, a.specs \in Specs, a.config \in Configs,
           NEW column \in SortColumns, NEW m \in Models
    PROVE  ColumnKey(a, column, m) \in Keys(Width(column))
<1> DEFINE f == Analysis[a.specs][a.config][m]
           c == Catalog[m]
<1>1. /\ f.score \in Nat /\ f.tps \in Nat /\ f.mem \in Nat /\ f.ctx \in Nat /\ f.use_case \in Nat
      /\ c.provider \in Nat /\ c.params \in Nat /\ c.ctx \in Nat /\ c.date \in Nat
  BY RowAssumption
<1> HIDE DEF f, c
<1>2. \A x \in Int : <<x>> \in [1..1 -> Int]
  OBVIOUS
<1>3. \A x, y \in Int : <<x, y>> \in [1..2 -> Int]
  OBVIOUS
<1>4. \A x \in Nat : -x \in Int /\ x \in Int
  OBVIOUS
<1>5. ColumnKey(a, column, m) =
        CASE column = "Score"       -> <<-f.score>>
          [] column = "Tps"         -> <<-f.tps, -f.score>>
          [] column = "Params"      -> <<-c.params>>
          [] column = "MemPct"      -> <<-f.mem>>
          [] column = "Ctx"         -> <<-f.ctx, -c.ctx>>
          [] column = "ReleaseDate" -> <<-c.date, -f.score>>
          [] column = "UseCase"     -> <<f.use_case, -f.score>>
          [] column = "Provider"    -> <<c.provider, -f.score>>
  BY DEF ColumnKey, FitOf, f, c
<1>6. CASE Width(column) = 1
  <2>1. column \in {"Score", "Params", "MemPct"}
    BY <1>6 DEF Width
  <2>2. ColumnKey(a, column, m) \in {<<-f.score>>, <<-c.params>>, <<-f.mem>>}
    BY <1>5, <2>1
  <2>3. QED
    BY <1>1, <1>2, <1>4, <1>6, <2>2 DEF Keys
<1>7. CASE Width(column) = 2
  <2>1. column \in {"Tps", "Ctx", "ReleaseDate", "UseCase", "Provider"}
    BY <1>7 DEF Width, SortColumns
  <2>2. ColumnKey(a, column, m) \in
            {<<-f.tps, -f.score>>, <<-f.ctx, -c.ctx>>, <<-c.date, -f.score>>,
             <<f.use_case, -f.score>>, <<c.provider, -f.score>>}
    BY <1>5, <2>1
  <2>3. QED
    BY <1>1, <1>3, <1>4, <1>7, <2>2 DEF Keys
<1>8. QED
  BY <1>6, <1>7 DEF Width

(* Two lists of numbers, one after the other. *)
LEMMA Joined ==
    ASSUME NEW s \in Seq(Int), NEW t \in Seq(Int)
    PROVE  /\ s \o t \in Seq(Int) /\ Len(s \o t) = Len(s) + Len(t)
           /\ \A i \in 1..(Len(s) + Len(t)) :
                (s \o t)[i] = IF i <= Len(s) THEN s[i] ELSE t[i - Len(s)]
OBVIOUS

(* The key of a row: its class, then what the column compares. *)
LEMMA RankKeyOK ==
    ASSUME NEW a, a.specs \in Specs, a.config \in Configs, NEW column \in SortColumns,
           NEW first, NEW ascending, NEW m \in Models
    PROVE  LET k == RankKey(a, first, column, ascending, m)
           IN  /\ k \in Keys(3 + Width(column))
               /\ k[1] = IF first /\ ~a.installed[m] THEN 1 ELSE 0
               /\ k[2] = IF FitOf(a, m).level = "TooTight" THEN 1 ELSE 0
<1> DEFINE w == Width(column)
           c == ColumnKey(a, column, m)
           d == IF ascending THEN Negated(c) ELSE c
           r == RankClass(a, first, column, m)
<1>1. w \in Nat
  BY DEF Width
<1>2. c \in Keys(w)
  BY ColumnKeyOK
<1> HIDE DEF w, c
<1>3. d \in Keys(w)
  <2>1. Len(c) = w /\ \A i \in 1..w : c[i] \in Int
    BY <1>1, <1>2 DEF Keys
  <2>2. Negated(c) \in [1..w -> Int]
    BY <1>1, <2>1 DEF Negated
  <2>3. QED
    BY <1>2, <2>2 DEF Keys
<1> HIDE DEF d
<1>4. /\ r \in Seq(Int) /\ Len(r) = 3
      /\ r[1] = IF first /\ ~a.installed[m] THEN 1 ELSE 0
      /\ r[2] = IF FitOf(a, m).level = "TooTight" THEN 1 ELSE 0
  BY DEF RankClass
<1> HIDE DEF r
<1>5. d \in Seq(Int) /\ Len(d) = w
  BY <1>1, <1>3 DEF Keys
<1> DEFINE k == r \o d
<1>6. /\ k \in Seq(Int) /\ Len(k) = Len(r) + Len(d)
      /\ \A i \in 1..(Len(r) + Len(d)) : k[i] = IF i <= Len(r) THEN r[i] ELSE d[i - Len(r)]
  BY <1>4, <1>5, Joined
<1> HIDE DEF k
<1>7. k \in [1..(3 + w) -> Int] /\ k[1] = r[1] /\ k[2] = r[2]
  BY <1>1, <1>4, <1>5, <1>6
<1>8. RankKey(a, first, column, ascending, m) = k
  BY DEF RankKey, r, d, c, k
<1>9. QED
  BY <1>4, <1>7, <1>8 DEF Keys, w

(* rank_models_by_fit_opts_col_dir returns the rows it was given, ordered  *)
(* by their keys.                                                          *)
LEMMA RankSorts ==
    ASSUME NEW a, a.specs \in Specs, a.config \in Configs, NEW column \in SortColumns,
           NEW first, NEW ascending, NEW rows \in Seq(Models)
    PROVE  LET t == rank_models_by_fit_opts_col_dir(a, rows, first, column, ascending)
               k(m) == RankKey(a, first, column, ascending, m)
           IN  /\ t \in Seq(Models) /\ Len(t) = Len(rows)
               /\ ToSet(t) = ToSet(rows)
               /\ \A p, q \in 1..Len(t) : p < q => ~ LexLess(k(t[q]), k(t[p]))
<1> DEFINE len == Len(rows)
           n == 3 + Width(column)
           k(m) == RankKey(a, first, column, ascending, m)
           key == [i \in 1..len |-> k(rows[i])]
           place == [i \in 1..len |-> PlaceOf(key, 1..len, i)]
           at(p) == CHOOSE i \in 1..len : place[i] = p
           t == rank_models_by_fit_opts_col_dir(a, rows, first, column, ascending)
<1>1. len \in Nat /\ n \in Nat /\ \A i \in 1..len : rows[i] \in Models
  BY DEF Width
<1>2. \A m \in Models : k(m) \in Keys(n)
  BY RankKeyOK
<1>3. t = [p \in 1..len |-> rows[at(p)]]
  BY DEF rank_models_by_fit_opts_col_dir, PlaceOf, Before
<1> HIDE DEF n, k, t
<1>4. key \in [1..len -> Keys(n)] /\ \A i \in 1..len : key[i] = k(rows[i])
  BY <1>1, <1>2
<1> HIDE DEF len, key
<1>5. /\ place \in [1..len -> 1..len]
      /\ \A p \in 1..len : \E i \in 1..len : place[i] = p
      /\ \A i, j \in 1..len : place[i] < place[j] => Before(key, i, j)
  BY <1>1, <1>4, PlaceIsBijection
<1> HIDE DEF place
<1>6. \A p \in 1..len : at(p) \in 1..len /\ place[at(p)] = p
  BY <1>5
<1> HIDE DEF at
<1>7. t \in Seq(Models) /\ Len(t) = len /\ DOMAIN t = 1..len
      /\ \A p \in 1..len : t[p] = rows[at(p)]
  BY <1>1, <1>3, <1>6
<1>8. ASSUME NEW p \in 1..len, NEW q \in 1..len, p < q
      PROVE  ~ LexLess(k(t[q]), k(t[p]))
  <2>1. Before(key, at(p), at(q))
    BY <1>5, <1>6, <1>8
  <2>2. /\ at(p) \in 1..len /\ at(q) \in 1..len
        /\ key[at(p)] = k(t[p]) /\ key[at(q)] = k(t[q])
        /\ key[at(p)] \in Keys(n) /\ key[at(q)] \in Keys(n)
    BY <1>4, <1>6, <1>7
  <2>3. ~ (LexLess(key[at(p)], key[at(q)]) /\ LexLess(key[at(q)], key[at(p)]))
    BY <1>1, <2>2, LexTransitive, LexIrreflexive
  <2>4. key[at(p)] = key[at(q)] => ~ LexLess(key[at(q)], key[at(p)])
    BY <1>1, <2>2, LexIrreflexive
  <2>5. QED
    BY <2>1, <2>2, <2>3, <2>4 DEF Before
<1>9. ToSet(t) = ToSet(rows)
  <2>1. ASSUME NEW i \in 1..len PROVE \E p \in 1..len : t[p] = rows[i]
    <3>1. place[i] \in 1..len /\ place[at(place[i])] = place[i] /\ at(place[i]) \in 1..len
      BY <1>5, <1>6
    <3>2. \A h, j \in 1..len : place[h] = place[j] => h = j
      <4>1. place \in Surjection(1..len, 1..len)
        BY <1>5 DEF Surjection
      <4>2. place \in Injection(1..len, 1..len)
        BY <1>1, <4>1, FS_Interval, FS_Surjection
      <4>3. QED
        BY <1>5, <4>2 DEF Injection, IsInjective
    <3>3. at(place[i]) = i
      BY <3>1, <3>2
    <3>4. QED
      BY <1>7, <3>1, <3>3
  <2>2. ToSet(rows) = {rows[i] : i \in 1..len} /\ ToSet(t) = {t[i] : i \in 1..len}
    BY <1>7 DEF ToSet, len
  <2>3. \A p \in 1..len : t[p] \in {rows[i] : i \in 1..len}
    BY <1>6, <1>7
  <2>4. \A i \in 1..len : rows[i] \in {t[p] : p \in 1..len}
    BY <2>1
  <2>5. QED
    BY <2>2, <2>3, <2>4
<1>10. QED
  BY <1>7, <1>8, <1>9 DEF len, k, t

-----------------------------------------------------------------------------
(* The invariant: what every App the handlers pass on satisfies.           *)

AppFields ==
    {"mode", "should_quit", "query", "all_fits", "filtered", "row", "selected", "cursor",
     "provider_search", "fit_filter", "availability", "tp_filter", "installed_first",
     "sort_column", "sort_ascending", "view", "mark", "compare_models", "compare_scroll",
     "plan_model_idx", "anchor", "select_column", "range", "filter_field",
     "filter_sort_ascending", "filter_snapshot", "specs", "sim_active", "config", "found",
     "available", "installed", "bench"}

Benches == [show : BOOLEAN, detail : BOOLEAN, running : BOOLEAN, confirm : BOOLEAN]

Views == {"detail", "compare", "multi", "plan", "downloads"}

(* The hardware, the configuration and the column there is an analysis and *)
(* a comparison for, and filters of their kinds.                           *)
TypesOK(a) ==
    /\ DOMAIN a = AppFields
    /\ a.specs \in Specs /\ a.config \in Configs /\ a.installed \in [Models -> BOOLEAN]
    /\ a.sort_column \in SortColumns /\ a.select_column \in 1..14
    /\ a.fit_filter \in FitFilters /\ a.availability \in Availabilities
    /\ a.sort_ascending \in BOOLEAN /\ a.filter_sort_ascending \in BOOLEAN
    /\ a.installed_first \in BOOLEAN /\ a.bench \in Benches
    /\ a.range \in [RangeFields -> Ranges \cup {None}]
    /\ a.tp_filter \in TpFilters /\ a.query \in Queries
    /\ DOMAIN a.selected = Popups
    /\ \A p \in Popups : a.selected[p] \subseteq 1..Len(Lists[p])

(* The rows shown, the selection, the comparison and the plan. *)
RowsOK(a) ==
    /\ a.all_fits \in Seq(Models)
    /\ a.filtered \in Seq(1..Len(a.all_fits))
    /\ a.row \in Nat /\ a.row < MaxOf(1, Len(a.filtered))
    /\ a.compare_models \in Seq(1..Len(a.all_fits))
    /\ a.mode = "Plan" => a.plan_model_idx \in 1..Len(a.all_fits)

(* How many entries a popup shows under a search of the provider popup. *)
Entries(q, p) == Len(Shown([provider_search |-> q], p))

CursorsOK(a) ==
    /\ a.cursor \in [Popups -> Nat]
    /\ \A p \in Popups : a.cursor[p] < MaxOf(1, Entries(a.provider_search, p))

(* The program runs; its mode and what is on the screen. *)
ViewOK(a) ==
    /\ a.should_quit = FALSE
    /\ a.view \in [Views -> BOOLEAN]
    /\ a.mode = "Plan" <=> a.view["plan"]
    /\ a.mode = "DownloadManager" <=> a.view["downloads"]
    /\ a.mode = "Visual" <=> a.anchor # None
    /\ a.mode = "Visual" => a.anchor \in Nat
    /\ a.mode = "FilterPopup" <=> a.filter_snapshot # None
    /\ a.filter_snapshot \in FilterSnapshots \cup {None}

(* No model that cannot run stands above one that can, but for installed   *)
(* ones that come first.                                                   *)
OrderOK(a) ==
    \A i, j \in 1..Len(a.all_fits) :
        (i < j /\ FitOf(a, a.all_fits[i]).level = "TooTight"
               /\ FitOf(a, a.all_fits[j]).level # "TooTight")
        => a.installed_first /\ a.installed[a.all_fits[i]] /\ ~a.installed[a.all_fits[j]]

AppOK(a) == TypesOK(a) /\ RowsOK(a) /\ CursorsOK(a) /\ ViewOK(a) /\ OrderOK(a)

(* The names of the fields are fields. *)
LEMMA Fields ==
    /\ "mode" \in AppFields /\ "should_quit" \in AppFields /\ "query" \in AppFields
    /\ "all_fits" \in AppFields /\ "filtered" \in AppFields /\ "row" \in AppFields
    /\ "selected" \in AppFields /\ "cursor" \in AppFields /\ "provider_search" \in AppFields
    /\ "fit_filter" \in AppFields /\ "availability" \in AppFields /\ "tp_filter" \in AppFields
    /\ "installed_first" \in AppFields /\ "sort_column" \in AppFields
    /\ "sort_ascending" \in AppFields /\ "view" \in AppFields /\ "mark" \in AppFields
    /\ "compare_models" \in AppFields /\ "compare_scroll" \in AppFields
    /\ "plan_model_idx" \in AppFields /\ "anchor" \in AppFields
    /\ "select_column" \in AppFields /\ "range" \in AppFields /\ "filter_field" \in AppFields
    /\ "filter_sort_ascending" \in AppFields /\ "filter_snapshot" \in AppFields
    /\ "specs" \in AppFields /\ "sim_active" \in AppFields /\ "config" \in AppFields
    /\ "found" \in AppFields /\ "available" \in AppFields /\ "installed" \in AppFields
    /\ "bench" \in AppFields
BY DEF AppFields

-----------------------------------------------------------------------------
(* What the invariant needs of the operators it does not look into.        *)

(* The next one in a cycle is one of the cycle. *)
LEMMA NextInCycle ==
    ASSUME NEW S, NEW cycle \in Seq(S), Len(cycle) > 0, NEW x
    PROVE  (\E j \in 1..Len(cycle) : x = cycle[j]) => NextIn(cycle, x) \in S
<1> DEFINE i == CHOOSE i \in 1..Len(cycle) : cycle[i] = x
<1>1. Len(cycle) \in Nat \ {0}
  OBVIOUS
<1>2. ASSUME NEW j \in 1..Len(cycle), x = cycle[j] PROVE NextIn(cycle, x) \in S
  <2>1. i \in 1..Len(cycle)
    BY <1>2
  <2> HIDE DEF i
  <2>2. (i % Len(cycle)) + 1 \in 1..Len(cycle)
    BY <1>1, <2>1
  <2>3. cycle[(i % Len(cycle)) + 1] \in S
    BY <2>2
  <2>4. QED
    BY <2>3 DEF NextIn, i
<1>3. QED
  BY <1>1, <1>2

(* The cycles of the fit filter, of the availability and of the columns    *)
(* stay among their values.                                                *)
LEMMA Cycles ==
    /\ \A f \in FitFilters : FitFilterNext(f) \in FitFilters
    /\ \A f \in Availabilities : AvailabilityNext(f) \in Availabilities
    /\ \A f \in TpFilters : TpFilterNext(f) \in TpFilters
    /\ \A c \in SortColumns : SortColumnNext(c) \in SortColumns
<1>1. ASSUME NEW f \in FitFilters PROVE FitFilterNext(f) \in FitFilters
  <2> DEFINE c == <<"All", "Runnable", "Perfect", "Good", "Marginal", "TooTight", "TurboQuantFit">>
  <2>1. c \in Seq(FitFilters) /\ Len(c) = 7
    BY DEF FitFilters
  <2>2. \E j \in 1..7 : f = c[j]
    BY DEF FitFilters
  <2> HIDE DEF c
  <2>3. NextIn(c, f) \in FitFilters
    BY <2>1, <2>2, NextInCycle
  <2>4. QED
    BY <2>3 DEF FitFilterNext, c
<1>2. ASSUME NEW f \in Availabilities PROVE AvailabilityNext(f) \in Availabilities
  <2> DEFINE c == <<"All", "HasGguf", "Installed">>
  <2>1. c \in Seq(Availabilities) /\ Len(c) = 3
    BY DEF Availabilities
  <2>2. \E j \in 1..3 : f = c[j]
    BY DEF Availabilities
  <2> HIDE DEF c
  <2>3. NextIn(c, f) \in Availabilities
    BY <2>1, <2>2, NextInCycle
  <2>4. QED
    BY <2>3 DEF AvailabilityNext, c
<1>3. ASSUME NEW f \in SortColumns PROVE SortColumnNext(f) \in SortColumns
  <2> DEFINE c == <<"Score", "Tps", "MemPct", "Ctx", "ReleaseDate", "UseCase", "Provider", "Params">>
  <2>1. c \in Seq(SortColumns) /\ Len(c) = 8
    BY DEF SortColumns
  <2>2. \E j \in 1..8 : f = c[j]
    BY DEF SortColumns
  <2> HIDE DEF c
  <2>3. NextIn(c, f) \in SortColumns
    BY <2>1, <2>2, NextInCycle
  <2>4. QED
    BY <2>3 DEF SortColumnNext, c
<1>4. ASSUME NEW f \in TpFilters PROVE TpFilterNext(f) \in TpFilters
  <2> DEFINE c == <<"All", "Tp2", "Tp3", "Tp4">>
  <2>1. c \in Seq(TpFilters) /\ Len(c) = 4
    BY DEF TpFilters
  <2>2. \E j \in 1..Len(c) : f = c[j]
    BY DEF TpFilters
  <2> HIDE DEF c
  <2>3. NextIn(c, f) \in TpFilters
    <3>1. Len(c) > 0
      BY <2>1
    <3>2. QED
      BY <2>1, <2>2, <3>1, NextInCycle
  <2>4. QED
    BY <2>3 DEF TpFilterNext, c
<1>5. QED
  BY <1>1, <1>2, <1>3, <1>4

-----------------------------------------------------------------------------
(* The lists of the popups. *)

(* The values of a function on a finite set. *)
LEMMA FiniteValues ==
    ASSUME NEW f, IsFiniteSet(DOMAIN f)
    PROVE  IsFiniteSet({f[x] : x \in DOMAIN f})
<1> DEFINE g == [x \in DOMAIN f |-> f[x]]
           T == {f[x] : x \in DOMAIN f}
<1>1. g \in Surjection(DOMAIN f, T)
  BY DEF Surjection
<1>2. QED
  BY <1>1, FS_Surjection

(* A list has numbered entries, no two of them the same. *)
IsList(s) == s \in Seq({s[i] : i \in 1..Len(s)}) /\ IsInjective(s)

(* Any order of a finite set is a list of it. *)
LEMMA AnyOrder ==
    ASSUME NEW S, IsFiniteSet(S)
    PROVE  SetToSeq(S) \in Seq(S) /\ IsInjective(SetToSeq(S)) /\ Len(SetToSeq(S)) \in Nat
<1>1. Cardinality(S) \in Nat /\ ExistsBijection(1..Cardinality(S), S)
  BY FS_CardinalityType
<1>2. PICK f : f \in Bijection(1..Cardinality(S), S)
  BY <1>1 DEF ExistsBijection
<1>3. f \in [1..Cardinality(S) -> S] /\ IsInjective(f)
  BY <1>2 DEF Bijection, Injection
<1>4. SetToSeq(S) \in [1..Cardinality(S) -> S] /\ IsInjective(SetToSeq(S))
  BY <1>3 DEF SetToSeq
<1>5. QED
  BY <1>1, <1>4

(* A sequence over some set is a sequence over its values. *)
LEMMA OverValues ==
    ASSUME NEW S, NEW s \in Seq(S), IsInjective(s)
    PROVE  IsList(s) /\ Len(s) \in Nat /\ DOMAIN s = 1..Len(s)
BY DEF IsList

(* Two lists without a common entry make one. *)
LEMMA JoinedLists ==
    ASSUME NEW S, NEW T, S \cap T = {}, NEW s \in Seq(S), NEW t \in Seq(T),
           IsInjective(s), IsInjective(t)
    PROVE  s \o t \in Seq(S \cup T) /\ IsInjective(s \o t)
<1> DEFINE u == s \o t
<1>1. /\ Len(s) \in Nat /\ Len(t) \in Nat /\ DOMAIN s = 1..Len(s) /\ DOMAIN t = 1..Len(t)
      /\ s \in Seq(S \cup T) /\ t \in Seq(S \cup T)
  OBVIOUS
<1>2. /\ u \in Seq(S \cup T) /\ Len(u) = Len(s) + Len(t) /\ DOMAIN u = 1..(Len(s) + Len(t))
      /\ \A i \in 1..(Len(s) + Len(t)) : u[i] = IF i <= Len(s) THEN s[i] ELSE t[i - Len(s)]
  BY <1>1
<1> HIDE DEF u
<1>3. ASSUME NEW i \in DOMAIN u
      PROVE  \/ i \in 1..Len(s) /\ u[i] = s[i] /\ u[i] \in S
             \/ i - Len(s) \in 1..Len(t) /\ u[i] = t[i - Len(s)] /\ u[i] \in T
  <2>1. i \in 1..(Len(s) + Len(t)) /\ u[i] = IF i <= Len(s) THEN s[i] ELSE t[i - Len(s)]
    BY <1>2
  <2>2. CASE i <= Len(s)
    <3>1. i \in 1..Len(s)
      BY <1>1, <2>1, <2>2
    <3>2. QED
      BY <2>1, <2>2, <3>1
  <2>3. CASE ~ (i <= Len(s))
    <3>1. i - Len(s) \in 1..Len(t)
      BY <1>1, <2>1, <2>3
    <3>2. QED
      BY <2>1, <2>3, <3>1
  <2>4. QED
    BY <2>2, <2>3
<1>4. ASSUME NEW i \in DOMAIN u, NEW j \in DOMAIN u, u[i] = u[j] PROVE i = j
  <2>1. CASE i \in 1..Len(s) /\ u[i] = s[i] /\ u[i] \in S
    <3>1. j \in 1..Len(s) /\ u[j] = s[j]
      BY <1>3, <1>4, <2>1
    <3>2. QED
      BY <1>1, <1>4, <2>1, <3>1 DEF IsInjective
  <2>2. CASE i - Len(s) \in 1..Len(t) /\ u[i] = t[i - Len(s)] /\ u[i] \in T
    <3>1. j - Len(s) \in 1..Len(t) /\ u[j] = t[j - Len(s)]
      BY <1>3, <1>4, <2>2
    <3>2. i - Len(s) = j - Len(s)
      BY <1>1, <1>4, <2>2, <3>1 DEF IsInjective
    <3>3. i \in Int /\ j \in Int
      BY <1>1, <1>2
    <3>4. QED
      BY <1>1, <3>2, <3>3
  <2>3. QED
    BY <1>3, <2>1, <2>2
<1>5. QED
  BY <1>2, <1>4 DEF u, IsInjective

(* Every popup has a list of entries, none of them twice. *)
LEMMA ListsOK ==
    ASSUME NEW p \in Popups
    PROVE  IsList(Lists[p]) /\ Len(Lists[p]) \in Nat /\ DOMAIN Lists[p] = 1..Len(Lists[p])
<1> DEFINE rows == ToSet(Rankable[RealSpecs])
           fit(m) == Analysis[RealSpecs][Baseline][m]
           license == {Catalog[m].license : m \in rows}
           used == [m \in rows |-> {Catalog[m].provider} \cup Catalog[m].gguf]
           providers == UNION {{Catalog[m].provider} \cup Catalog[m].gguf : m \in rows}
           cases == {fit(m).use_case : m \in rows}
           quants == {fit(m).quant : m \in rows}
<1>1. IsFiniteSet(rows) /\ rows \subseteq Models
  <2> DEFINE s == Rankable[RealSpecs]
  <2>1. s \in Seq(Models) /\ DOMAIN s = 1..Len(s) /\ Len(s) \in Nat
    BY ListAssumption
  <2>2. IsFiniteSet(DOMAIN s)
    BY <2>1, FS_Interval
  <2> HIDE DEF s
  <2>3. ToSet(s) = {s[i] : i \in DOMAIN s} /\ ToSet(s) \subseteq Models
    BY <2>1 DEF ToSet
  <2>4. QED
    BY <2>2, <2>3, FiniteValues DEF s
<1> HIDE DEF rows
<1>2. /\ IsFiniteSet(license) /\ IsFiniteSet(cases) /\ IsFiniteSet(quants)
      /\ IsFiniteSet({used[m] : m \in rows})
  <2> DEFINE l == [m \in rows |-> Catalog[m].license]
             c == [m \in rows |-> fit(m).use_case]
             q == [m \in rows |-> fit(m).quant]
  <2>1. license = {l[m] : m \in DOMAIN l}
    OBVIOUS
  <2>2. cases = {c[m] : m \in DOMAIN c}
    OBVIOUS
  <2>3. quants = {q[m] : m \in DOMAIN q}
    OBVIOUS
  <2>4. DOMAIN l = rows /\ DOMAIN c = rows /\ DOMAIN q = rows /\ DOMAIN used = rows
    OBVIOUS
  <2> HIDE DEF l, c, q, license, cases, quants, used
  <2>5. QED
    BY <1>1, <2>1, <2>2, <2>3, <2>4, FiniteValues
<1>3. IsFiniteSet(providers) /\ providers \subseteq Nat
  <2>1. \A m \in rows : used[m] = {Catalog[m].provider} \cup Catalog[m].gguf
    OBVIOUS
  <2>2. ASSUME NEW m \in rows PROVE IsFiniteSet(used[m]) /\ used[m] \subseteq Nat
    <3>1. IsFiniteSet(Catalog[m].gguf) /\ {Catalog[m].provider} \cup Catalog[m].gguf \subseteq Nat
      BY <1>1, RowAssumption
    <3>2. IsFiniteSet(Catalog[m].gguf \cup {Catalog[m].provider})
      BY <3>1, FS_AddElement
    <3>3. used[m] = Catalog[m].gguf \cup {Catalog[m].provider}
      BY <2>1
    <3>4. QED
      BY <3>1, <3>2, <3>3
  <2>3. providers = UNION {used[m] : m \in rows}
    OBVIOUS
  <2> HIDE DEF used, providers
  <2>4. \A T \in {used[m] : m \in rows} : IsFiniteSet(T)
    BY <2>2
  <2>5. IsFiniteSet(providers)
    BY <1>2, <2>3, <2>4, FS_UNION
  <2>6. providers \subseteq Nat
    BY <2>2, <2>3
  <2>7. QED
    BY <2>5, <2>6
<1>4. cases \subseteq Nat
  BY <1>1, RowAssumption, ListAssumption
<1>5. Lists = [x \in Popups |->
        CASE x = "Provider"     -> InOrder(providers)
          [] x = "UseCase"      -> InOrder(cases)
          [] x = "Capability"   -> Capabilities
          [] x = "Quant"        -> SetToSeq(quants)
          [] x = "RunMode"      -> <<"GPU", "MoE", "CPU+GPU", "CPU">>
          [] x = "ParamsBucket" -> <<"<3B", "3-7B", "7-14B", "14-30B", "30-70B", "70B+">>
          [] x = "License"      -> SetToSeq(license \ {"Unknown"})
                                    \o SetToSeq(license \cap {"Unknown"})
          [] x = "Runtime"      -> <<"llama.cpp", "MLX", "vLLM">>]
  BY DEF Lists, rows
<1> HIDE DEF providers, cases, quants, license
<1>6. CASE p = "Provider"
  <2>1. InOrder(providers) \in Seq(providers) /\ IsInjective(InOrder(providers))
    BY <1>3, InOrderLists
  <2>2. Lists[p] = InOrder(providers)
    BY <1>5, <1>6
  <2>3. QED
    BY <2>1, <2>2, OverValues
<1>7. CASE p = "UseCase"
  <2>1. InOrder(cases) \in Seq(cases) /\ IsInjective(InOrder(cases))
    BY <1>2, <1>4, InOrderLists
  <2>2. Lists[p] = InOrder(cases)
    BY <1>5, <1>7
  <2>3. QED
    BY <2>1, <2>2, OverValues
<1>8. CASE p = "Capability"
  <2>1. Lists[p] = Capabilities
    BY <1>5, <1>8
  <2>2. QED
    BY <2>1, ListAssumption, OverValues
<1>9. CASE p = "Quant"
  <2>1. Lists[p] = SetToSeq(quants)
    BY <1>5, <1>9
  <2>2. QED
    BY <1>2, <2>1, AnyOrder, OverValues
<1>10. CASE p = "RunMode"
  <2> DEFINE s == <<"GPU", "MoE", "CPU+GPU", "CPU">>
             S == {"GPU", "MoE", "CPU+GPU", "CPU"}
  <2>1. Lists[p] = s
    BY <1>5, <1>10
  <2>2. s \in Seq(S) /\ DOMAIN s = 1..4
    OBVIOUS
  <2>3. \A i, j \in 1..4 : s[i] = s[j] => i = j
    OBVIOUS
  <2> HIDE DEF s, S
  <2>4. QED
    BY <2>1, <2>2, <2>3, OverValues DEF IsInjective
<1>11. CASE p = "ParamsBucket"
  <2> DEFINE s == <<"<3B", "3-7B", "7-14B", "14-30B", "30-70B", "70B+">>
             S == {"<3B", "3-7B", "7-14B", "14-30B", "30-70B", "70B+"}
  <2>1. Lists[p] = s
    BY <1>5, <1>11
  <2>2. s \in Seq(S) /\ DOMAIN s = 1..6
    OBVIOUS
  <2>3. \A i, j \in 1..6 : s[i] = s[j] => i = j
    OBVIOUS
  <2> HIDE DEF s, S
  <2>4. QED
    BY <2>1, <2>2, <2>3, OverValues DEF IsInjective
<1>12. CASE p = "License"
  <2> DEFINE S == license \ {"Unknown"}
             T == license \cap {"Unknown"}
  <2>1. Lists[p] = SetToSeq(S) \o SetToSeq(T)
    BY <1>5, <1>12
  <2>2. IsFiniteSet(S) /\ IsFiniteSet(T) /\ S \cap T = {}
    BY <1>2, FS_Subset
  <2> HIDE DEF S, T
  <2> DEFINE s == SetToSeq(S)
             t == SetToSeq(T)
  <2>3. s \in Seq(S) /\ IsInjective(s) /\ t \in Seq(T) /\ IsInjective(t)
    BY <2>2, AnyOrder
  <2> HIDE DEF s, t
  <2>4. s \o t \in Seq(S \cup T) /\ IsInjective(s \o t)
    BY <2>2, <2>3, JoinedLists
  <2>5. QED
    BY <2>1, <2>4, OverValues DEF s, t
<1>13. CASE p = "Runtime"
  <2> DEFINE s == <<"llama.cpp", "MLX", "vLLM">>
             S == {"llama.cpp", "MLX", "vLLM"}
  <2>1. Lists[p] = s
    BY <1>5, <1>13
  <2>2. s \in Seq(S) /\ DOMAIN s = 1..3
    OBVIOUS
  <2>3. \A i, j \in 1..3 : s[i] = s[j] => i = j
    OBVIOUS
  <2> HIDE DEF s, S
  <2>4. QED
    BY <2>1, <2>2, <2>3, OverValues DEF IsInjective
<1>14. QED
  BY <1>6, <1>7, <1>8, <1>9, <1>10, <1>11, <1>12, <1>13 DEF Popups

(* The entries a popup shows are entries of its list, all of them when     *)
(* there is no search.                                                     *)
LEMMA EntriesOK ==
    ASSUME NEW a, NEW p \in Popups
    PROVE  /\ Shown(a, p) \in Seq(1..Len(Lists[p]))
           /\ Len(Shown(a, p)) = Entries(a.provider_search, p)
           /\ Entries(a.provider_search, p) \in Nat
           /\ Entries(a.provider_search, p) <= Entries(None, p)
<1> DEFINE L == 1..Len(Lists[p])
           S(q) == {i \in 1..Len(Lists["Provider"]) : q = None \/ Lists["Provider"][i] = q}
<1>1. Len(Lists[p]) \in Nat
  BY ListsOK
<1>2. Len(Lists["Provider"]) \in Nat
  BY ListsOK DEF Popups
<1>3. CASE p # "Provider"
  <2> DEFINE s == [i \in L |-> i]
  <2>1. Shown(a, p) = s /\ Entries(None, p) = Len(s) /\ Entries(a.provider_search, p) = Len(s)
    BY <1>3 DEF Shown, Entries
  <2>2. s \in Seq(L) /\ Len(s) \in Nat
    BY <1>1
  <2>3. QED
    BY <2>1, <2>2
<1>4. CASE p = "Provider"
  <2>1. L = 1..Len(Lists["Provider"])
    BY <1>4
  <2>2. ASSUME NEW q
        PROVE  /\ S(q) \subseteq L /\ IsFiniteSet(S(q)) /\ Cardinality(S(q)) <= Cardinality(S(None))
               /\ InOrder(S(q)) \in Seq(S(q)) /\ Len(InOrder(S(q))) = Cardinality(S(q))
               /\ Cardinality(S(q)) \in Nat
    <3>1. IsFiniteSet(L) /\ L \subseteq Nat
      BY <1>1, FS_Interval
    <3>2. S(q) \in SUBSET L /\ S(None) = L
      BY <2>1
    <3> HIDE DEF S, L
    <3>3. IsFiniteSet(S(q)) /\ Cardinality(S(q)) <= Cardinality(S(None)) /\ S(q) \subseteq Nat
      BY <3>1, <3>2, FS_Subset
    <3>4. QED
      BY <3>2, <3>3, InOrderLists
  <2>3. \A b : Shown(b, p) = InOrder(S(b.provider_search))
    BY <1>4 DEF Shown, ProviderEntries
  <2>4. \A q : Entries(q, p) = Len(InOrder(S(q)))
    <3> TAKE q
    <3>1. [provider_search |-> q].provider_search = q
      OBVIOUS
    <3> HIDE DEF S
    <3>2. QED
      BY <2>3, <3>1 DEF Entries
  <2> HIDE DEF S, L
  <2>5. Shown(a, p) \in Seq(L)
    BY <2>2, <2>3
  <2>6. QED
    BY <2>2, <2>3, <2>4, <2>5 DEF L
<1>5. QED
  BY <1>3, <1>4

-----------------------------------------------------------------------------
(* Filtering and sorting. *)

(* What apply_filters needs of the App: its selection may be anywhere. *)
Filterable(a) ==
    /\ TypesOK(a)
    /\ a.all_fits \in Seq(Models) /\ a.row \in Nat
    /\ a.compare_models \in Seq(1..Len(a.all_fits))
    /\ a.mode = "Plan" => a.plan_model_idx \in 1..Len(a.all_fits)

(* The two show the same views and popups. *)
SameScreen(a, b) ==
    /\ b.mode = a.mode /\ b.view = a.view /\ b.anchor = a.anchor
    /\ b.filter_snapshot = a.filter_snapshot /\ b.should_quit = a.should_quit
    /\ b.cursor = a.cursor /\ b.provider_search = a.provider_search

(* The rows that match are rows. *)
LEMMA MatchingRowsOK ==
    ASSUME NEW a, a.all_fits \in Seq(Models)
    PROVE  MatchingRows(a) \in Seq(1..Len(a.all_fits))
<1> DEFINE L == 1..Len(a.all_fits)
           S == {i \in L : Matches(a, a.all_fits[i])}
<1>1. L \subseteq Nat /\ IsFiniteSet(L)
  <2>1. Len(a.all_fits) \in Nat
    OBVIOUS
  <2>2. QED
    BY <2>1, FS_Interval
<1>2. S \in SUBSET L
  OBVIOUS
<1> HIDE DEF L, S
<1>3. IsFiniteSet(S) /\ S \subseteq Nat
  BY <1>1, <1>2, FS_Subset
<1>4. InOrder(S) \in Seq(S)
  BY <1>3, InOrderLists
<1>5. InOrder(S) \in Seq(L)
  BY <1>2, <1>4
<1>6. QED
  BY <1>5 DEF MatchingRows, S, L

(* Filtering leaves a selection in the list, and everything else alone. *)
LEMMA Filtered ==
    ASSUME NEW a, Filterable(a)
    PROVE  LET b == apply_filters(a)
           IN  /\ TypesOK(b) /\ RowsOK(b) /\ SameScreen(a, b)
               /\ OrderOK(a) => OrderOK(b)
               /\ b.filtered = MatchingRows(a)
<1> DEFINE rows == MatchingRows(a)
           row  == ClampRow(a.row, Len(rows))
           b    == [a EXCEPT !.filtered = rows, !.row = row]
<1>1. rows \in Seq(1..Len(a.all_fits))
  BY MatchingRowsOK DEF Filterable
<1>2. apply_filters(a) = b
  BY Fields DEF apply_filters, ShowRows, Filterable, TypesOK
<1> HIDE DEF rows
<1>3. row \in Nat /\ row < MaxOf(1, Len(rows))
  <2>1. Len(rows) \in Nat /\ a.row \in Nat
    BY <1>1 DEF Filterable
  <2>2. QED
    BY <2>1 DEF ClampRow, MinOf, MaxOf
<1> HIDE DEF row
<1>4. TypesOK(b) /\ RowsOK(b) /\ SameScreen(a, b) /\ b.filtered = rows
  BY <1>1, <1>3, Fields DEF Filterable, TypesOK, RowsOK, SameScreen
<1>5. OrderOK(a) => OrderOK(b)
  BY Fields DEF Filterable, TypesOK, OrderOK, FitOf
<1>6. QED
  BY <1>2, <1>4, <1>5 DEF rows

(* A sorted table has what cannot run at its end. *)
LEMMA RankedOrder ==
    ASSUME NEW a, TypesOK(a), NEW first \in BOOLEAN, NEW column \in SortColumns,
           NEW ascending, NEW rows \in Seq(Models), NEW b,
           b.all_fits = rank_models_by_fit_opts_col_dir(a, rows, first, column, ascending),
           b.specs = a.specs, b.config = a.config, b.installed = a.installed,
           first => b.installed_first
    PROVE  OrderOK(b)
<1> DEFINE t == b.all_fits
           k(m) == RankKey(a, first, column, ascending, m)
           n == 3 + Width(column)
<1>1. /\ t \in Seq(Models)
      /\ \A p, q \in 1..Len(t) : p < q => ~ LexLess(k(t[q]), k(t[p]))
  BY RankSorts DEF TypesOK
<1>2. \A m \in Models :
        /\ k(m) \in Keys(n)
        /\ k(m)[1] = IF first /\ ~a.installed[m] THEN 1 ELSE 0
        /\ k(m)[2] = IF FitOf(a, m).level = "TooTight" THEN 1 ELSE 0
  BY RankKeyOK DEF TypesOK
<1>3. n \in Nat /\ n >= 2 /\ 1 \in 1..n /\ 2 \in 1..n
  BY DEF Width
<1> HIDE DEF t, k, n
<1>4. ASSUME NEW i \in 1..Len(t), NEW j \in 1..Len(t), i < j,
             FitOf(b, t[i]).level = "TooTight", FitOf(b, t[j]).level # "TooTight"
      PROVE  b.installed_first /\ b.installed[t[i]] /\ ~b.installed[t[j]]
  <2>1. t[i] \in Models /\ t[j] \in Models
    BY <1>1
  <2>2. FitOf(a, t[i]).level = "TooTight" /\ FitOf(a, t[j]).level # "TooTight"
    BY <1>4 DEF FitOf
  <2> DEFINE x == k(t[i])
             y == k(t[j])
  <2>3. /\ x \in Keys(n) /\ y \in Keys(n) /\ x[2] = 1 /\ y[2] = 0
        /\ x[1] = IF first /\ ~a.installed[t[i]] THEN 1 ELSE 0
        /\ y[1] = IF first /\ ~a.installed[t[j]] THEN 1 ELSE 0
        /\ ~ LexLess(y, x)
    BY <1>1, <1>2, <1>4, <2>1, <2>2
  <2> HIDE DEF x, y
  <2>4. Len(y) = n
    BY <1>3, <2>3 DEF Keys
  <2>5. ~ (y[1] < x[1])
    <3>1. \A h \in 1..(1 - 1) : y[h] = x[h]
      OBVIOUS
    <3>2. QED
      BY <1>3, <2>3, <2>4, <3>1 DEF LexLess
  <2>6. ~ (y[1] = x[1])
    <3>1. 2 - 1 = 1 /\ \A h \in 1..1 : h = 1
      OBVIOUS
    <3>2. y[1] = x[1] => \A h \in 1..(2 - 1) : y[h] = x[h]
      BY <3>1
    <3>3. QED
      BY <1>3, <2>3, <2>4, <3>2 DEF LexLess
  <2>7. first /\ ~a.installed[t[j]] /\ a.installed[t[i]]
    BY <2>1, <2>3, <2>5, <2>6 DEF TypesOK
  <2>8. QED
    BY <2>7
<1>5. QED
  BY <1>4 DEF OrderOK, t

(* Sorting and filtering again leaves a table in order. *)
LEMMA Resorted ==
    ASSUME NEW a, Filterable(a)
    PROVE  LET b == re_sort(a)
           IN  TypesOK(b) /\ RowsOK(b) /\ SameScreen(a, b) /\ OrderOK(b)
<1> DEFINE t == rank_models_by_fit_opts_col_dir(a, a.all_fits, a.installed_first,
                                                a.sort_column, a.sort_ascending)
           c == [a EXCEPT !.all_fits = t]
<1>1. re_sort(a) = apply_filters(c)
  BY Fields DEF re_sort, Filterable, TypesOK
<1>2. t \in Seq(Models) /\ Len(t) = Len(a.all_fits)
  BY RankSorts DEF Filterable, TypesOK
<1>3. OrderOK(c)
  <2>1. /\ c.all_fits = t /\ c.specs = a.specs /\ c.config = a.config
        /\ c.installed = a.installed /\ c.installed_first = a.installed_first
    BY Fields DEF Filterable, TypesOK
  <2> HIDE DEF c
  <2>2. /\ a.sort_column \in SortColumns /\ a.all_fits \in Seq(Models) /\ TypesOK(a)
        /\ a.installed_first \in BOOLEAN
    BY DEF Filterable, TypesOK
  <2>3. QED
    BY <2>1, <2>2, RankedOrder
<1> HIDE DEF t
<1>4. Filterable(c) /\ SameScreen(a, c)
  BY <1>2, Fields DEF Filterable, TypesOK, SameScreen
<1> HIDE DEF c
<1>5. QED
  BY <1>1, <1>3, <1>4, Filtered DEF SameScreen

(* A table ranked anew by score. *)
LEMMA Rebuilt ==
    ASSUME NEW a, TypesOK(a), a.row \in Nat, a.compare_models = <<>>, a.mode # "Plan"
    PROVE  LET b == ScoreRanked(a)
           IN  TypesOK(b) /\ RowsOK(b) /\ SameScreen(a, b) /\ OrderOK(b)
<1> DEFINE rows == Rankable[a.specs]
           t == rank_models_by_fit_opts_col_dir(a, rows, FALSE, "Score", FALSE)
           c == [a EXCEPT !.all_fits = t]
<1>1. ScoreRanked(a) = apply_filters(c)
  BY DEF ScoreRanked, rank_models_by_fit
<1>2. rows \in Seq(Models) /\ "Score" \in SortColumns
  BY ListAssumption DEF TypesOK, SortColumns
<1> HIDE DEF rows
<1>3. t \in Seq(Models)
  BY <1>2, RankSorts DEF TypesOK
<1>4. OrderOK(c)
  <2>1. /\ c.all_fits = t /\ c.specs = a.specs /\ c.config = a.config
        /\ c.installed = a.installed
    BY Fields DEF TypesOK
  <2> HIDE DEF c
  <2>2. QED
    BY <1>2, <2>1, RankedOrder
<1> HIDE DEF t
<1>5. Filterable(c) /\ SameScreen(a, c)
  <2>1. <<>> \in Seq(1..Len(t))
    OBVIOUS
  <2>2. QED
    BY <1>3, <2>1, Fields DEF Filterable, TypesOK, SameScreen
<1> HIDE DEF c
<1>6. QED
  BY <1>1, <1>4, <1>5, Filtered DEF SameScreen

(* Cursors and views depend on what is on the screen only. *)
LEMMA SameScreenOK ==
    ASSUME NEW a, NEW b, SameScreen(a, b)
    PROVE  (CursorsOK(a) => CursorsOK(b)) /\ (ViewOK(a) => ViewOK(b))
BY DEF SameScreen, CursorsOK, ViewOK

(* An App that can be filtered is in order once it is. *)
LEMMA FilteredOK ==
    ASSUME NEW a, Filterable(a), CursorsOK(a), ViewOK(a), OrderOK(a)
    PROVE  AppOK(apply_filters(a))
BY Filtered, SameScreenOK DEF AppOK

(* An App that can be filtered is in order once it is sorted. *)
LEMMA ResortedOK ==
    ASSUME NEW a, Filterable(a), CursorsOK(a), ViewOK(a)
    PROVE  AppOK(re_sort(a))
BY Resorted, SameScreenOK DEF AppOK

-----------------------------------------------------------------------------
(* The handlers. *)

(* Moving the selection keeps it in the list. *)
LEMMA Moved ==
    ASSUME NEW a, AppOK(a)
    PROVE  \A r \in Nat : r < MaxOf(1, Len(a.filtered)) => AppOK([a EXCEPT !.row = r])
BY Fields DEF AppOK, TypesOK, RowsOK, CursorsOK, ViewOK, OrderOK, FitOf

(* So do all keys that move it. *)
LEMMA Moves ==
    ASSUME NEW a, AppOK(a)
    PROVE  /\ AppOK(move_up(a)) /\ AppOK(move_down(a))
           /\ \A k \in NavigationKeys : AppOK(Navigate(a, k))
<1> DEFINE n == Len(a.filtered)
<1>1. a.row \in Nat /\ n \in Nat /\ a.row < MaxOf(1, n) /\ (a.filtered = <<>> <=> n = 0)
  BY DEF AppOK, RowsOK
<1> HIDE DEF n
<1>2. \A d \in Nat : MaxOf(0, a.row - d) \in Nat /\ MaxOf(0, a.row - d) < MaxOf(1, n)
  BY <1>1 DEF MaxOf
<1>3. \A d \in Nat : RowDown(a, d) \in Nat /\ RowDown(a, d) < MaxOf(1, n)
  BY <1>1 DEF RowDown, MinOf, MaxOf, n
<1>4. LET r == IF a.filtered # <<>> /\ a.row = n - 1 THEN 0 ELSE MaxOf(0, n - 1)
      IN  r \in Nat /\ r < MaxOf(1, n)
  BY <1>1 DEF MaxOf
<1>5. AppOK(move_up(a)) /\ AppOK(page_up(a)) /\ AppOK(half_page_up(a))
  BY <1>2, Moved DEF move_up, page_up, half_page_up, n
<1>6. AppOK(move_down(a)) /\ AppOK(page_down(a)) /\ AppOK(half_page_down(a))
  BY <1>3, Moved DEF move_down, page_down, half_page_down, n
<1>7. AppOK(cycle_top_bottom(a))
  BY <1>4, Moved DEF cycle_top_bottom, n
<1>8. QED
  BY <1>5, <1>6, <1>7 DEF Navigate, NavigationKeys

(* What filters and sorts by something else. *)
LEMMA Refilters ==
    ASSUME NEW a, AppOK(a)
    PROVE  /\ AppOK(cycle_fit_filter(a)) /\ AppOK(cycle_availability_filter(a))
           /\ AppOK(cycle_tp_filter(a)) /\ \A q \in Queries : AppOK(SearchEdit(a, q))
           /\ AppOK(cycle_sort_column(a)) /\ AppOK(toggle_installed_first(a))
           /\ \A c \in SortColumns : AppOK(set_or_toggle_sort(a, c))
<1> USE Fields DEF AppOK, TypesOK, RowsOK, CursorsOK, ViewOK, Filterable
<1>1. AppOK(cycle_fit_filter(a))
  <2> DEFINE b == [a EXCEPT !.fit_filter = FitFilterNext(a.fit_filter)]
  <2>1. Filterable(b) /\ CursorsOK(b) /\ ViewOK(b)
    BY Cycles
  <2>2. OrderOK(b)
    BY DEF OrderOK, FitOf
  <2>3. QED
    BY <2>1, <2>2, FilteredOK DEF cycle_fit_filter
<1>2. AppOK(cycle_availability_filter(a))
  <2> DEFINE b == [a EXCEPT !.availability = AvailabilityNext(a.availability)]
  <2>1. Filterable(b) /\ CursorsOK(b) /\ ViewOK(b)
    BY Cycles
  <2>2. OrderOK(b)
    BY DEF OrderOK, FitOf
  <2>3. QED
    BY <2>1, <2>2, FilteredOK DEF cycle_availability_filter
<1>3. AppOK(cycle_tp_filter(a))
  <2> DEFINE b == [a EXCEPT !.tp_filter = TpFilterNext(a.tp_filter)]
  <2>1. Filterable(b) /\ CursorsOK(b) /\ ViewOK(b)
    BY Cycles
  <2>2. OrderOK(b)
    BY DEF OrderOK, FitOf
  <2>3. QED
    BY <2>1, <2>2, FilteredOK DEF cycle_tp_filter
<1>4. ASSUME NEW q \in Queries PROVE AppOK(SearchEdit(a, q))
  <2> DEFINE b == [a EXCEPT !.query = q, !.row = 0]
  <2>1. Filterable(b) /\ CursorsOK(b) /\ ViewOK(b)
    OBVIOUS
  <2>2. OrderOK(b)
    BY DEF OrderOK, FitOf
  <2>3. QED
    BY <2>1, <2>2, FilteredOK DEF SearchEdit
<1>5. AppOK(cycle_sort_column(a))
  <2> DEFINE b == [a EXCEPT !.sort_column = SortColumnNext(a.sort_column), !.sort_ascending = FALSE]
  <2>1. Filterable(b) /\ CursorsOK(b) /\ ViewOK(b)
    BY Cycles
  <2>2. QED
    BY <2>1, ResortedOK DEF cycle_sort_column
<1>6. AppOK(toggle_installed_first(a))
  <2>1. ASSUME NEW v \in BOOLEAN PROVE AppOK(re_sort([a EXCEPT !.installed_first = v]))
    <3>1. LET b == [a EXCEPT !.installed_first = v]
          IN  Filterable(b) /\ CursorsOK(b) /\ ViewOK(b)
      OBVIOUS
    <3>2. QED
      BY <3>1, ResortedOK
  <2>2. (~a.installed_first) \in BOOLEAN
    OBVIOUS
  <2>3. QED
    BY <2>1, <2>2 DEF toggle_installed_first
<1>7. ASSUME NEW c \in SortColumns PROVE AppOK(set_or_toggle_sort(a, c))
  <2>1. ASSUME NEW v \in BOOLEAN
        PROVE  AppOK(re_sort([a EXCEPT !.sort_column = c, !.sort_ascending = v]))
    <3>1. LET b == [a EXCEPT !.sort_column = c, !.sort_ascending = v]
          IN  Filterable(b) /\ CursorsOK(b) /\ ViewOK(b)
      OBVIOUS
    <3>2. QED
      BY <3>1, ResortedOK
  <2>2. (a.sort_column = c /\ ~a.sort_ascending) \in BOOLEAN
    OBVIOUS
  <2>3. QED
    BY <2>1, <2>2 DEF set_or_toggle_sort
<1>8. QED
  BY <1>1, <1>2, <1>3, <1>4, <1>5, <1>6, <1>7

-----------------------------------------------------------------------------
(* Views. *)

(* No view, or some view over the comparison of several models. *)
LEMMA SomeView ==
    ASSUME NEW x \in BOOLEAN, NEW y \in BOOLEAN
    PROVE  /\ NoView \in [Views -> BOOLEAN] /\ ~NoView["plan"] /\ ~NoView["downloads"]
           /\ LET v == [NoView EXCEPT !["multi"] = x, !["detail"] = y]
              IN  v \in [Views -> BOOLEAN] /\ ~v["plan"] /\ ~v["downloads"]
           /\ LET v == [NoView EXCEPT !["multi"] = x, !["compare"] = TRUE]
              IN  v \in [Views -> BOOLEAN] /\ ~v["plan"] /\ ~v["downloads"]
           /\ LET v == [NoView EXCEPT !["multi"] = x, !["plan"] = TRUE]
              IN  v \in [Views -> BOOLEAN] /\ v["plan"] /\ ~v["downloads"]
           /\ LET v == [NoView EXCEPT !["multi"] = TRUE]
              IN  v \in [Views -> BOOLEAN] /\ ~v["plan"] /\ ~v["downloads"]
           /\ LET v == [NoView EXCEPT !["downloads"] = TRUE]
              IN  v \in [Views -> BOOLEAN] /\ ~v["plan"] /\ v["downloads"]
BY DEF NoView, Views

(* A view is closed. *)
LEMMA ViewClosed ==
    ASSUME NEW v \in [Views -> BOOLEAN], NEW x \in Views
    PROVE  LET w == [v EXCEPT ![x] = FALSE]
           IN  /\ w \in [Views -> BOOLEAN] /\ ~w[x]
               /\ \A y \in Views : y # x => w[y] = v[y]
OBVIOUS

(* Another view over the table. *)
LEMMA Viewed ==
    ASSUME NEW a, AppOK(a), a.mode = "Normal",
           NEW v \in [Views -> BOOLEAN], ~v["plan"], ~v["downloads"]
    PROVE  AppOK([a EXCEPT !.view = v])
<1> DEFINE b == [a EXCEPT !.view = v]
<1>1. TypesOK(b) /\ RowsOK(b) /\ CursorsOK(b) /\ ViewOK(b)
  BY Fields DEF AppOK, TypesOK, RowsOK, CursorsOK, ViewOK
<1>2. OrderOK(b)
  BY Fields DEF AppOK, TypesOK, OrderOK, FitOf
<1>3. QED
  BY <1>1, <1>2 DEF AppOK

(* Another mode and view that go together, from a mode or to a mode other  *)
(* than those with an anchor or a snapshot.                                *)
LEMMA ModeViewed ==
    ASSUME NEW a, AppOK(a), a.mode \notin {"Visual", "FilterPopup"},
           NEW m, m \notin {"Visual", "FilterPopup"}, NEW v \in [Views -> BOOLEAN],
           m = "Plan" <=> v["plan"], m = "DownloadManager" <=> v["downloads"], NEW i,
           m = "Plan" => i \in 1..Len(a.all_fits)
    PROVE  AppOK([a EXCEPT !.view = v, !.mode = m, !.plan_model_idx = i])
<1> DEFINE b == [a EXCEPT !.view = v, !.mode = m, !.plan_model_idx = i]
<1>1. TypesOK(b) /\ RowsOK(b) /\ CursorsOK(b) /\ ViewOK(b)
  BY Fields DEF AppOK, TypesOK, RowsOK, CursorsOK, ViewOK
<1>2. OrderOK(b)
  BY Fields DEF AppOK, TypesOK, OrderOK, FitOf
<1>3. QED
  BY <1>1, <1>2 DEF AppOK

(* Another mode of those without a view, an anchor or a snapshot. *)
PlainModes ==
    {"Normal", "Select", "Search", "ProviderPopup", "UseCasePopup", "CapabilityPopup",
     "QuantPopup", "RunModePopup", "ParamsBucketPopup", "LicensePopup", "RuntimePopup",
     "Simulation", "AdvancedConfig", "HelpPopup"}

(* The user goes from one mode without a view to another. *)
LEMMA ModeChanged ==
    ASSUME NEW a, AppOK(a), a.mode \in PlainModes, NEW m \in PlainModes
    PROVE  AppOK([a EXCEPT !.mode = m])
<1> DEFINE b == [a EXCEPT !.mode = m]
<1>0. \A x \in PlainModes : x \notin {"Plan", "DownloadManager", "Visual", "FilterPopup"}
  BY DEF PlainModes
<1>1. TypesOK(b) /\ RowsOK(b) /\ CursorsOK(b) /\ ViewOK(b)
  BY <1>0, Fields DEF AppOK, TypesOK, RowsOK, CursorsOK, ViewOK
<1>2. OrderOK(b)
  BY Fields DEF AppOK, TypesOK, OrderOK, FitOf
<1>3. QED
  BY <1>1, <1>2 DEF AppOK

(* The keys of normal mode that open and close views. *)
LEMMA ViewKeys ==
    ASSUME NEW a, AppOK(a), a.mode = "Normal"
    PROVE  /\ AppOK(toggle_downloads(a)) /\ AppOK(toggle_detail(a))
           /\ AppOK(mark_selected_for_compare(a)) /\ AppOK(clear_compare_mark(a))
           /\ AppOK(toggle_compare_view(a)) /\ AppOK(open_plan_mode(a))
           /\ AppOK(close_multi_compare(a))
           /\ \/ a.bench.show \/ AppOK(normal_escape(a))
              \/ normal_escape(a) = [a EXCEPT !.should_quit = TRUE]
           /\ AppOK(multi_compare_scroll_left(a)) /\ AppOK(multi_compare_scroll_right(a))
<1>1. /\ DOMAIN a = AppFields /\ a.view \in [Views -> BOOLEAN]
      /\ a.view["plan"] = FALSE /\ a.view["downloads"] = FALSE
      /\ a.view["multi"] \in BOOLEAN /\ a.view["detail"] \in BOOLEAN
      /\ a.view["compare"] \in BOOLEAN
  BY DEF AppOK, TypesOK, ViewOK, Views
<1>2. AppOK(toggle_downloads(a))
  <2> DEFINE v == [NoView EXCEPT !["downloads"] = TRUE]
             b == [a EXCEPT !.view = v, !.mode = "DownloadManager"]
  <2>1. v \in [Views -> BOOLEAN] /\ ~v["plan"] /\ v["downloads"]
    BY SomeView
  <2>2. toggle_downloads(a) = b
    BY <1>1 DEF toggle_downloads
  <2> HIDE DEF v
  <2>3. TypesOK(b) /\ RowsOK(b) /\ CursorsOK(b) /\ ViewOK(b)
    BY <2>1, Fields DEF AppOK, TypesOK, RowsOK, CursorsOK, ViewOK
  <2>4. OrderOK(b)
    BY Fields DEF AppOK, TypesOK, OrderOK, FitOf
  <2>5. QED
    BY <2>2, <2>3, <2>4 DEF AppOK
<1>3. AppOK(toggle_detail(a))
  BY <1>1, SomeView, Viewed DEF toggle_detail
<1>4. AppOK(mark_selected_for_compare(a))
  <2>1. \A m : AppOK([a EXCEPT !.mark = m])
    BY Fields DEF AppOK, TypesOK, RowsOK, CursorsOK, ViewOK, OrderOK, FitOf
  <2>2. QED
    BY <2>1 DEF mark_selected_for_compare
<1>5. AppOK(clear_compare_mark(a))
  <2> DEFINE v == [a.view EXCEPT !["compare"] = FALSE]
             b == [a EXCEPT !.view = v]
  <2>1. v \in [Views -> BOOLEAN] /\ ~v["plan"] /\ ~v["downloads"]
    BY <1>1, ViewClosed DEF Views
  <2>2. clear_compare_mark(a) = [b EXCEPT !.mark = None]
    BY <1>1, Fields DEF clear_compare_mark
  <2> HIDE DEF v
  <2>3. AppOK(b)
    BY <2>1, Viewed
  <2> HIDE DEF b
  <2>4. AppOK([b EXCEPT !.mark = None])
    BY <2>3, Fields DEF AppOK, TypesOK, RowsOK, CursorsOK, ViewOK, OrderOK, FitOf
  <2>5. QED
    BY <2>2, <2>4
<1>6. AppOK([a EXCEPT !.view["compare"] = FALSE]) /\ AppOK([a EXCEPT !.view["detail"] = FALSE])
  <2> DEFINE v(x) == [a.view EXCEPT ![x] = FALSE]
  <2>1. ASSUME NEW x \in {"compare", "detail"}
        PROVE  v(x) \in [Views -> BOOLEAN] /\ ~v(x)["plan"] /\ ~v(x)["downloads"]
    BY <1>1, ViewClosed DEF Views
  <2> HIDE DEF v
  <2>2. AppOK([a EXCEPT !.view = v("compare")]) /\ AppOK([a EXCEPT !.view = v("detail")])
    BY <2>1, Viewed
  <2>3. QED
    BY <2>2 DEF v
<1>7. AppOK(toggle_compare_view(a))
  BY <1>1, <1>6, SomeView, Viewed DEF toggle_compare_view
<1>8. AppOK(open_plan_mode(a))
  <2>1. CASE SelectedModel(a) = None
    BY <2>1 DEF open_plan_mode
  <2>2. CASE SelectedModel(a) # None
    <3> DEFINE v == [NoView EXCEPT !["multi"] = a.view["multi"], !["plan"] = TRUE]
               i == a.filtered[a.row + 1]
    <3>1. v \in [Views -> BOOLEAN] /\ v["plan"] /\ ~v["downloads"]
      BY <1>1, SomeView
    <3>2. i \in 1..Len(a.all_fits)
      <4>1. a.row < Len(a.filtered)
        BY <2>2 DEF SelectedModel
      <4>2. QED
        BY <4>1 DEF AppOK, RowsOK
    <3>3. open_plan_mode(a) = [a EXCEPT !.view = v, !.mode = "Plan", !.plan_model_idx = i]
      BY <2>2 DEF open_plan_mode
    <3> HIDE DEF v, i
    <3>4. ASSUME NEW m, m = "Plan"
          PROVE  AppOK([a EXCEPT !.view = v, !.mode = m, !.plan_model_idx = i])
      <4>1. /\ m \notin {"Visual", "FilterPopup"} /\ a.mode \notin {"Visual", "FilterPopup"}
            /\ (m = "Plan" <=> v["plan"]) /\ (m = "DownloadManager" <=> v["downloads"])
            /\ (m = "Plan" => i \in 1..Len(a.all_fits))
        BY <3>1, <3>2, <3>4
      <4>2. QED
        BY <3>1, <4>1, ModeViewed
    <3>5. QED
      BY <3>3, <3>4
  <2>3. QED
    BY <2>1, <2>2
<1>9. AppOK(close_multi_compare(a))
  <2> DEFINE v == [a.view EXCEPT !["multi"] = FALSE]
             b == [a EXCEPT !.view = v]
  <2>1. v \in [Views -> BOOLEAN] /\ ~v["plan"] /\ ~v["downloads"]
    BY <1>1, ViewClosed DEF Views
  <2>2. close_multi_compare(a) = [b EXCEPT !.compare_models = <<>>]
    BY <1>1, Fields DEF close_multi_compare
  <2> HIDE DEF v
  <2>3. AppOK(b)
    BY <2>1, Viewed
  <2> HIDE DEF b
  <2>4. <<>> \in Seq(1..Len(b.all_fits))
    OBVIOUS
  <2>5. AppOK([b EXCEPT !.compare_models = <<>>])
    BY <2>3, <2>4, Fields DEF AppOK, TypesOK, RowsOK, CursorsOK, ViewOK, OrderOK, FitOf
  <2>6. QED
    BY <2>2, <2>5
<1>10. \A n : AppOK([a EXCEPT !.compare_scroll = n])
  BY Fields DEF AppOK, TypesOK, RowsOK, CursorsOK, ViewOK, OrderOK, FitOf
<1>11. AppOK(multi_compare_scroll_left(a)) /\ AppOK(multi_compare_scroll_right(a))
  BY <1>10 DEF multi_compare_scroll_left, multi_compare_scroll_right
<1>12. a.bench.show \/ AppOK(normal_escape(a)) \/ normal_escape(a) = [a EXCEPT !.should_quit = TRUE]
  BY <1>1, <1>6, <1>9 DEF normal_escape
<1>13. QED
  BY <1>2, <1>3, <1>4, <1>5, <1>7, <1>8, <1>9, <1>11, <1>12

(* Esc in the modes that only open and close. *)
LEMMA EscapeKey ==
    ASSUME NEW a, AppOK(a), a.mode \in PlainModes \cup {"Plan", "DownloadManager"}
    PROVE  AppOK(escape_key(a, "esc"))
<1>1. /\ DOMAIN a = AppFields /\ a.view \in [Views -> BOOLEAN]
      /\ (a.mode = "Plan" <=> a.view["plan"]) /\ (a.mode = "DownloadManager" <=> a.view["downloads"])
      /\ a.mode \notin {"Visual", "FilterPopup"}
  BY DEF AppOK, TypesOK, ViewOK, PlainModes
<1>2. CASE a.mode = "Plan"
  <2> DEFINE v == [a.view EXCEPT !["plan"] = FALSE]
             b == [a EXCEPT !.view = v, !.mode = "Normal", !.plan_model_idx = 0]
  <2>1. v \in [Views -> BOOLEAN] /\ ~v["plan"] /\ ~v["downloads"]
    BY <1>1, <1>2, ViewClosed DEF Views
  <2>2. escape_key(a, "esc") = b
    BY <1>2 DEF escape_key, close_plan_mode
  <2> HIDE DEF v
  <2>3. TypesOK(b) /\ RowsOK(b) /\ CursorsOK(b) /\ ViewOK(b)
    BY <1>2, <2>1, Fields DEF AppOK, TypesOK, RowsOK, CursorsOK, ViewOK
  <2>4. OrderOK(b)
    BY Fields DEF AppOK, TypesOK, OrderOK, FitOf
  <2>5. QED
    BY <2>2, <2>3, <2>4 DEF AppOK
<1>3. CASE a.mode = "DownloadManager"
  <2> DEFINE v == [a.view EXCEPT !["downloads"] = FALSE]
             b == [a EXCEPT !.view = v, !.mode = "Normal"]
  <2>1. v \in [Views -> BOOLEAN] /\ ~v["plan"] /\ ~v["downloads"]
    BY <1>1, <1>3, ViewClosed DEF Views
  <2>2. escape_key(a, "esc") = b
    BY <1>3 DEF escape_key, close_downloads
  <2> HIDE DEF v
  <2>3. TypesOK(b) /\ RowsOK(b) /\ CursorsOK(b) /\ ViewOK(b)
    BY <1>3, <2>1, Fields DEF AppOK, TypesOK, RowsOK, CursorsOK, ViewOK
  <2>4. OrderOK(b)
    BY Fields DEF AppOK, TypesOK, OrderOK, FitOf
  <2>5. QED
    BY <2>2, <2>3, <2>4 DEF AppOK
<1>4. CASE a.mode \in PlainModes
  <2>1. escape_key(a, "esc") = [a EXCEPT !.mode = "Normal"] /\ "Normal" \in PlainModes
    BY <1>4 DEF escape_key, PlainModes
  <2>2. QED
    BY <1>4, <2>1, ModeChanged
<1>5. QED
  BY <1>2, <1>3, <1>4

(* Visual mode is entered with an anchor and left without one. *)
LEMMA VisualMode ==
    ASSUME NEW a, AppOK(a)
    PROVE  /\ a.mode = "Normal" => AppOK(enter_visual_mode(a))
           /\ a.mode = "Visual" => AppOK(exit_visual_mode(a))
           /\ a.mode = "Visual" => AppOK(visual_compare(a))
<1>1. CASE a.mode = "Normal"
  <2> DEFINE b == [a EXCEPT !.anchor = a.row, !.mode = "Visual"]
  <2>1. a.row \in Nat /\ a.row # None
    BY NoneAssumption DEF AppOK, RowsOK
  <2>2. TypesOK(b) /\ RowsOK(b) /\ CursorsOK(b) /\ ViewOK(b)
    BY <1>1, <2>1, Fields DEF AppOK, TypesOK, RowsOK, CursorsOK, ViewOK
  <2>3. OrderOK(b)
    BY Fields DEF AppOK, TypesOK, OrderOK, FitOf
  <2>4. QED
    BY <1>1, <2>2, <2>3 DEF AppOK, enter_visual_mode
<1>2. CASE a.mode = "Visual"
  <2> DEFINE b == [a EXCEPT !.anchor = None, !.mode = "Normal"]
  <2>1. TypesOK(b) /\ RowsOK(b) /\ CursorsOK(b) /\ ViewOK(b)
    BY <1>2, Fields DEF AppOK, TypesOK, RowsOK, CursorsOK, ViewOK
  <2>2. OrderOK(b)
    BY Fields DEF AppOK, TypesOK, OrderOK, FitOf
  <2>3. AppOK(b) /\ exit_visual_mode(a) = b /\ b.mode = "Normal" /\ b.all_fits = a.all_fits
    BY <2>1, <2>2, Fields DEF AppOK, TypesOK, exit_visual_mode
  <2> HIDE DEF b
  <2>4. CASE a.anchor = None \/ a.anchor = a.row
    BY <1>2, <2>3, <2>4 DEF visual_compare
  <2>5. CASE ~ (a.anchor = None \/ a.anchor = a.row)
    <3> DEFINE v == [NoView EXCEPT !["multi"] = TRUE]
               F == 1..Len(a.filtered)
               S == {i \in F : i - 1 \in visual_range(a)}
               rows == VisualRows(a)
               models == [i \in DOMAIN rows |-> a.filtered[rows[i]]]
               c == [b EXCEPT !.view = v]
               d == [c EXCEPT !.compare_models = models, !.compare_scroll = 0]
    <3>1. models \in Seq(1..Len(a.all_fits))
      <4>1. a.filtered \in Seq(1..Len(a.all_fits)) /\ Len(a.filtered) \in Nat
        BY DEF AppOK, RowsOK
      <4>2. S \in SUBSET F
        OBVIOUS
      <4>3. rows = InOrder(S)
        BY DEF VisualRows
      <4> HIDE DEF S, rows
      <4>4. IsFiniteSet(F) /\ F \subseteq Nat
        <5>1. 1 \in Int /\ Len(a.filtered) \in Int
          BY <4>1
        <5>2. IsFiniteSet(F)
          BY <5>1, FS_Interval
        <5>3. F \subseteq Nat
          BY <5>1
        <5>4. QED
          BY <5>2, <5>3
      <4> HIDE DEF F
      <4>5. IsFiniteSet(S) /\ S \subseteq Nat
        BY <4>2, <4>4, FS_Subset
      <4>6. rows \in Seq(S) /\ Cardinality(S) \in Nat /\ DOMAIN rows = 1..Cardinality(S)
        BY <4>3, <4>5, InOrderLists
      <4>7. \A i \in 1..Cardinality(S) : rows[i] \in F
        BY <4>2, <4>6
      <4>8. \A i \in 1..Cardinality(S) : a.filtered[rows[i]] \in 1..Len(a.all_fits)
        BY <4>1, <4>7 DEF F
      <4>9. QED
        BY <4>6, <4>8
    <3>2. v \in [Views -> BOOLEAN] /\ ~v["plan"] /\ ~v["downloads"]
      BY SomeView
    <3>3. visual_compare(a) = d
      BY <2>3, <2>5, Fields DEF visual_compare, AppOK, TypesOK
    <3> HIDE DEF v, models
    <3>4. AppOK(c) /\ c.all_fits = a.all_fits /\ DOMAIN c = AppFields
      BY <2>3, <3>2, Viewed, Fields DEF AppOK, TypesOK
    <3> HIDE DEF c
    <3>5. AppOK(d)
      BY <3>1, <3>4, Fields DEF AppOK, TypesOK, RowsOK, CursorsOK, ViewOK, OrderOK, FitOf
    <3>6. QED
      BY <1>2, <2>3, <3>3, <3>5
  <2>6. QED
    BY <1>2, <2>3, <2>4, <2>5
<1>3. QED
  BY <1>1, <1>2

-----------------------------------------------------------------------------
(* The popups with a list of entries. *)

(* A cursor moves within the entries shown. *)
LEMMA CursorMoved ==
    ASSUME NEW a, AppOK(a), NEW p \in Popups, NEW c \in Nat,
           c < MaxOf(1, Entries(a.provider_search, p))
    PROVE  AppOK([a EXCEPT !.cursor[p] = c])
<1> DEFINE b == [a EXCEPT !.cursor[p] = c]
<1>1. /\ TypesOK(b) /\ RowsOK(b) /\ ViewOK(b)
      /\ b.provider_search = a.provider_search /\ b.cursor = [a.cursor EXCEPT ![p] = c]
  BY Fields DEF AppOK, TypesOK, RowsOK, ViewOK
<1>2. OrderOK(b)
  BY Fields DEF AppOK, TypesOK, OrderOK, FitOf
<1>3. CursorsOK(b)
  <2> HIDE DEF b
  <2>1. QED
    BY <1>1 DEF AppOK, CursorsOK
<1>4. QED
  BY <1>1, <1>2, <1>3 DEF AppOK

(* Other entries are selected. *)
LEMMA Selected ==
    ASSUME NEW a, AppOK(a), NEW p \in Popups, NEW S \in SUBSET (1..Len(Lists[p]))
    PROVE  AppOK(apply_filters([a EXCEPT !.selected[p] = S]))
<1> DEFINE b == [a EXCEPT !.selected[p] = S]
<1>1. b.selected = [a.selected EXCEPT ![p] = S] /\ DOMAIN b = AppFields
  BY Fields DEF AppOK, TypesOK
<1>2. /\ DOMAIN b.selected = Popups
      /\ \A q \in Popups : b.selected[q] \subseteq 1..Len(Lists[q])
  BY <1>1 DEF AppOK, TypesOK
<1>3. CursorsOK(b) /\ ViewOK(b)
  BY Fields DEF AppOK, TypesOK, CursorsOK, ViewOK
<1>4. OrderOK(b)
  BY Fields DEF AppOK, TypesOK, OrderOK, FitOf
<1>5. Filterable(b)
  BY <1>1, <1>2, Fields DEF AppOK, TypesOK, RowsOK, Filterable
<1>6. QED
  BY <1>3, <1>4, <1>5, FilteredOK

(* The keys of a popup. *)
LEMMA PopupKeysOK ==
    ASSUME NEW a, AppOK(a), NEW p \in Popups
    PROVE  /\ \A n \in Nat : AppOK(PopupUp(a, p, n)) /\ AppOK(PopupDown(a, p, n))
           /\ AppOK(PopupToggle(a, p)) /\ AppOK(PopupSelectAll(a, p))
           /\ \A S : AppOK(apply_filters([a EXCEPT !.selected[p] = a.selected[p] \ S]))
<1> DEFINE e == Entries(a.provider_search, p)
<1>1. /\ a.cursor[p] \in Nat /\ a.cursor[p] < MaxOf(1, e)
      /\ a.selected[p] \subseteq 1..Len(Lists[p])
  BY DEF AppOK, CursorsOK, TypesOK
<1>2. Shown(a, p) \in Seq(1..Len(Lists[p])) /\ Len(Shown(a, p)) = e /\ e \in Nat
  BY EntriesOK
<1> HIDE DEF e
<1>3. ASSUME NEW n \in Nat PROVE AppOK(PopupUp(a, p, n)) /\ AppOK(PopupDown(a, p, n))
  <2> DEFINE up == MaxOf(0, a.cursor[p] - n)
             down == IF a.cursor[p] + 1 < e THEN MinOf(e - 1, a.cursor[p] + n) ELSE a.cursor[p]
  <2>1. up \in Nat /\ up < MaxOf(1, e) /\ down \in Nat /\ down < MaxOf(1, e)
    BY <1>1, <1>2 DEF MaxOf, MinOf
  <2>2. /\ PopupUp(a, p, n) = [a EXCEPT !.cursor[p] = up]
        /\ PopupDown(a, p, n) = [a EXCEPT !.cursor[p] = down]
    BY <1>2 DEF PopupUp, PopupDown
  <2> HIDE DEF up, down
  <2>3. QED
    BY <2>1, <2>2, CursorMoved DEF e
<1>4. AppOK(PopupToggle(a, p))
  <2>1. CASE ~ (a.cursor[p] < e)
    BY <1>2, <2>1 DEF PopupToggle
  <2>2. CASE a.cursor[p] < e
    <3> DEFINE i == Shown(a, p)[a.cursor[p] + 1]
               S == Toggle(a.selected[p], i)
    <3>1. i \in 1..Len(Lists[p])
      <4>1. a.cursor[p] + 1 \in 1..e
        BY <1>1, <1>2, <2>2
      <4>2. QED
        BY <1>2, <4>1
    <3>2. PopupToggle(a, p) = apply_filters([a EXCEPT !.selected[p] = S])
      BY <1>2, <2>2 DEF PopupToggle
    <3> HIDE DEF i
    <3>3. S \in SUBSET (1..Len(Lists[p]))
      BY <1>1, <3>1 DEF Toggle
    <3> HIDE DEF S
    <3>4. QED
      BY <3>2, <3>3, Selected
  <2>3. QED
    BY <2>1, <2>2
<1>5. AppOK(PopupSelectAll(a, p))
  <2> DEFINE shown == ToSet(Shown(a, p))
             S == IF shown \subseteq a.selected[p] THEN a.selected[p] \ shown
                  ELSE a.selected[p] \cup shown
  <2>1. shown \subseteq 1..Len(Lists[p])
    BY <1>2 DEF ToSet
  <2>2. PopupSelectAll(a, p) = apply_filters([a EXCEPT !.selected[p] = S])
    BY DEF PopupSelectAll
  <2> HIDE DEF shown
  <2>3. S \in SUBSET (1..Len(Lists[p]))
    BY <1>1, <2>1
  <2> HIDE DEF S
  <2>4. QED
    BY <2>2, <2>3, Selected
<1>6. ASSUME NEW S PROVE AppOK(apply_filters([a EXCEPT !.selected[p] = a.selected[p] \ S]))
  <2>1. a.selected[p] \ S \in SUBSET (1..Len(Lists[p]))
    BY <1>1
  <2>2. QED
    BY <2>1, Selected
<1>7. QED
  BY <1>3, <1>4, <1>5, <1>6

(* The popups whose keys are those of every popup. *)
LEMMA PopupKeyOK ==
    ASSUME NEW a, AppOK(a), a.mode \in PlainModes, NEW p \in Popups, NEW k \in PopupKeys
    PROVE  AppOK(PopupKey(a, p, k))
<1>1. AppOK([a EXCEPT !.mode = "Normal"])
  BY ModeChanged DEF PlainModes
<1>2. /\ AppOK(PopupUp(a, p, 1)) /\ AppOK(PopupDown(a, p, 1))
      /\ AppOK(PopupToggle(a, p)) /\ AppOK(PopupSelectAll(a, p))
  BY PopupKeysOK
<1>3. QED
  BY <1>1, <1>2 DEF PopupKey, PopupKeys

(* Opening and closing the provider popup: a list without a search is no   *)
(* shorter.                                                                *)
LEMMA ProviderOpened ==
    ASSUME NEW a, AppOK(a), a.mode \in PlainModes
    PROVE  AppOK(open_provider_popup(a)) /\ AppOK(close_provider_popup(a))
<1>1. /\ "Provider" \in Popups /\ "ProviderPopup" \in PlainModes /\ "Normal" \in PlainModes
      /\ DOMAIN a = AppFields /\ a.cursor \in [Popups -> Nat]
  BY DEF Popups, PlainModes, AppOK, TypesOK, CursorsOK
<1>2. \A p \in Popups :
        /\ Entries(a.provider_search, p) \in Nat /\ Entries(None, p) \in Nat
        /\ Entries(a.provider_search, p) <= Entries(None, p)
  <2>1. [provider_search |-> None].provider_search = None
    OBVIOUS
  <2>2. QED
    BY <2>1, EntriesOK
<1>3. ASSUME NEW m \in PlainModes, NEW cursor \in [Popups -> Nat],
             \A p \in Popups : cursor[p] < MaxOf(1, Entries(None, p))
      PROVE  AppOK([a EXCEPT !.mode = m, !.provider_search = None, !.cursor = cursor])
  <2> DEFINE b == [a EXCEPT !.mode = m]
             c == [b EXCEPT !.provider_search = None, !.cursor = cursor]
  <2>1. AppOK(b) /\ DOMAIN b = AppFields
    BY <1>1, ModeChanged
  <2>2. c = [a EXCEPT !.mode = m, !.provider_search = None, !.cursor = cursor]
    BY <1>1, Fields
  <2> HIDE DEF b
  <2>3. AppOK(c)
    BY <1>3, <2>1, Fields DEF AppOK, TypesOK, RowsOK, CursorsOK, ViewOK, OrderOK, FitOf
  <2>4. QED
    BY <2>2, <2>3
<1>4. AppOK(open_provider_popup(a))
  <2> DEFINE cursor == [a.cursor EXCEPT !["Provider"] = 0]
  <2>1. /\ cursor \in [Popups -> Nat]
        /\ \A p \in Popups : cursor[p] < MaxOf(1, Entries(None, p))
    <3>1. ASSUME NEW p \in Popups PROVE cursor[p] < MaxOf(1, Entries(None, p))
      <4>1. a.cursor[p] \in Nat /\ a.cursor[p] < MaxOf(1, Entries(a.provider_search, p))
        BY DEF AppOK, CursorsOK
      <4>2. cursor[p] = 0 \/ cursor[p] = a.cursor[p]
        BY <1>1
      <4> HIDE DEF cursor
      <4>3. QED
        BY <1>2, <4>1, <4>2 DEF MaxOf
    <3>2. QED
      BY <1>1, <3>1
  <2>2. open_provider_popup(a)
          = [a EXCEPT !.mode = "ProviderPopup", !.provider_search = None, !.cursor = cursor]
    BY <1>1, Fields DEF open_provider_popup, OpenPopup
  <2> HIDE DEF cursor
  <2>3. QED
    BY <1>1, <1>3, <2>1, <2>2
<1>5. AppOK(close_provider_popup(a))
  <2>1. ASSUME NEW p \in Popups PROVE a.cursor[p] < MaxOf(1, Entries(None, p))
    <3>1. a.cursor[p] \in Nat /\ a.cursor[p] < MaxOf(1, Entries(a.provider_search, p))
      BY DEF AppOK, CursorsOK
    <3>2. QED
      BY <1>2, <3>1 DEF MaxOf
  <2>2. close_provider_popup(a)
          = [a EXCEPT !.mode = "Normal", !.provider_search = None, !.cursor = a.cursor]
    BY <1>1, Fields DEF close_provider_popup
  <2>3. QED
    BY <1>1, <1>3, <2>1, <2>2
<1>6. QED
  BY <1>4, <1>5

(* An edit of the search leaves the cursor in what it finds. *)
LEMMA ProviderSearched ==
    ASSUME NEW a, AppOK(a), NEW q
    PROVE  AppOK(provider_search_edit(a, q))
<1> DEFINE b == [a EXCEPT !.provider_search = q]
           e == Entries(q, "Provider")
           c == ClampRow(a.cursor["Provider"], e)
           cursor == [a.cursor EXCEPT !["Provider"] = c]
           d == [a EXCEPT !.provider_search = q, !.cursor = cursor]
<1>1. "Provider" \in Popups /\ DOMAIN a = AppFields /\ a.cursor \in [Popups -> Nat]
  BY DEF Popups, AppOK, TypesOK, CursorsOK
<1>2. b.provider_search = q /\ b.cursor = a.cursor
  BY <1>1, Fields
<1>3. Len(ProviderEntries(b)) = e /\ e \in Nat
  <2> HIDE DEF b
  <2>1. Len(Shown(b, "Provider")) = e /\ e \in Nat
    BY <1>1, <1>2, EntriesOK
  <2>2. QED
    BY <2>1 DEF Shown
<1>4. provider_search_edit(a, q) = d
  BY <1>1, <1>2, <1>3, Fields DEF provider_search_edit
<1> HIDE DEF e
<1>5. c \in Nat /\ c < MaxOf(1, e)
  BY <1>1, <1>3 DEF ClampRow, MinOf, MaxOf
<1>6. ASSUME NEW p \in Popups PROVE cursor[p] < MaxOf(1, Entries(q, p))
  <2>1. CASE p = "Provider"
    BY <1>1, <1>5, <2>1 DEF e
  <2>2. CASE p # "Provider"
    <3>1. Entries(q, p) = Entries(a.provider_search, p)
      BY <2>2 DEF Entries, Shown
    <3>2. QED
      BY <1>1, <2>2, <3>1 DEF AppOK, CursorsOK
  <2>3. QED
    BY <2>1, <2>2
<1>7. cursor \in [Popups -> Nat]
  BY <1>1, <1>5
<1> HIDE DEF cursor
<1>8. AppOK(d)
  BY <1>6, <1>7, Fields DEF AppOK, TypesOK, RowsOK, CursorsOK, ViewOK, OrderOK, FitOf
<1>9. QED
  BY <1>4, <1>8

(* The keys of the provider popup. *)
LEMMA ProviderKeys ==
    ASSUME NEW a, AppOK(a), a.mode \in PlainModes, NEW k \in ProviderPopupKeys
    PROVE  AppOK(provider_popup(a, k))
<1>1. "Provider" \in Popups
  BY DEF Popups
<1>2. /\ \A n \in Nat : AppOK(PopupUp(a, "Provider", n)) /\ AppOK(PopupDown(a, "Provider", n))
      /\ AppOK(PopupToggle(a, "Provider")) /\ AppOK(PopupSelectAll(a, "Provider"))
      /\ AppOK(provider_popup_clear_all(a))
  BY <1>1, PopupKeysOK DEF provider_popup_clear_all
<1>3. AppOK(provider_popup_select_all(a))
  BY <1>2 DEF provider_popup_select_all
<1>4. AppOK(close_provider_popup(a))
  BY ProviderOpened
<1>5. QED
  BY <1>2, <1>3, <1>4 DEF provider_popup, ProviderPopupKeys, PopupKeys

-----------------------------------------------------------------------------
(* Select mode and the filter popup. *)

(* The keys of select mode: a column is left or right, or does something. *)
LEMMA SelectKeys ==
    ASSUME NEW a, AppOK(a), a.mode = "Select", NEW k \in {"esc", "enter", "up", "down", "left", "right"}
    PROVE  AppOK(select_key(a, k))
<1>1. \A c \in 1..14 : AppOK([a EXCEPT !.select_column = c])
  BY Fields DEF AppOK, TypesOK, RowsOK, CursorsOK, ViewOK, OrderOK, FitOf
<1>2. AppOK(select_column_left(a)) /\ AppOK(select_column_right(a))
  <2>1. a.select_column \in 1..14
    BY DEF AppOK, TypesOK
  <2>2. MaxOf(1, a.select_column - 1) \in 1..14 /\ MinOf(14, a.select_column + 1) \in 1..14
    BY <2>1 DEF MaxOf, MinOf
  <2>3. QED
    BY <1>1, <2>2 DEF select_column_left, select_column_right
<1>3. \A m \in PlainModes : AppOK([a EXCEPT !.mode = m])
  BY ModeChanged DEF PlainModes
<1>4. AppOK(activate_select_column_filter(a))
  <2> DEFINE c == a.select_column
  <2>1. c \in 1..14
    BY DEF AppOK, TypesOK
  <2>2. CASE c \in {5, 6, 10, 11, 12}
    <3>1. SortOfColumn(c) \in SortColumns
      BY <2>2 DEF SortOfColumn, SortColumns
    <3>2. activate_select_column_filter(a) = set_or_toggle_sort(a, SortOfColumn(c))
      BY <2>2 DEF activate_select_column_filter
    <3>3. QED
      BY <3>1, <3>2, Refilters
  <2>3. CASE c \in {1, 8, 13}
    <3>1. activate_select_column_filter(a) \in {cycle_availability_filter(a), a, cycle_fit_filter(a)}
      BY <2>3 DEF activate_select_column_filter
    <3>2. QED
      BY <3>1, Refilters
  <2>4. CASE c \in {2, 3, 4, 7, 9, 14}
    <3>1. \A m \in {"Search", "ProviderPopup", "ParamsBucketPopup", "QuantPopup",
                    "RunModePopup", "UseCasePopup"} : AppOK([a EXCEPT !.mode = m])
      BY <1>3 DEF PlainModes
    <3>2. QED
      BY <2>4, <3>1 DEF activate_select_column_filter, OpenPopup
  <2>5. QED
    BY <2>1, <2>2, <2>3, <2>4
<1>5. AppOK([a EXCEPT !.mode = "Normal"])
  BY <1>3 DEF PlainModes
<1>6. QED
  BY <1>2, <1>4, <1>5, Moves DEF select_key

(* The filter popup keeps what Esc restores, and restores it. *)
LEMMA FilterOpened ==
    ASSUME NEW a, AppOK(a), a.mode = "Normal"
    PROVE  AppOK(open_filter_popup(a))
<1> DEFINE s == [range |-> a.range, sort_ascending |-> a.sort_ascending,
                 fit_filter |-> a.fit_filter, availability |-> a.availability]
<1>1. s \in FilterSnapshots
  BY DEF FilterSnapshots, AppOK, TypesOK
<1> HIDE DEF s
<1>2. s # None
  BY <1>1, NoneAssumption
<1>3. ASSUME NEW v \in BOOLEAN
      PROVE  AppOK([a EXCEPT !.filter_snapshot = s, !.filter_field = "ParamsMin",
                             !.filter_sort_ascending = v, !.mode = "FilterPopup"])
  <2> DEFINE b == [a EXCEPT !.filter_snapshot = s, !.filter_field = "ParamsMin",
                            !.filter_sort_ascending = v, !.mode = "FilterPopup"]
  <2>1. TypesOK(b) /\ RowsOK(b) /\ CursorsOK(b)
    BY Fields DEF AppOK, TypesOK, RowsOK, CursorsOK
  <2>2. ViewOK(b)
    BY <1>1, <1>2, Fields DEF AppOK, TypesOK, ViewOK
  <2>3. OrderOK(b)
    BY Fields DEF AppOK, TypesOK, OrderOK, FitOf
  <2>4. QED
    BY <2>1, <2>2, <2>3 DEF AppOK
<1>4. a.sort_ascending \in BOOLEAN
  BY DEF AppOK, TypesOK
<1>5. QED
  BY <1>3, <1>4 DEF open_filter_popup, s

(* Esc takes back what was changed. *)
LEMMA FilterClosed ==
    ASSUME NEW a, AppOK(a), a.mode = "FilterPopup"
    PROVE  AppOK(close_filter_popup(a))
<1> DEFINE s == a.filter_snapshot
<1>1. s \in FilterSnapshots /\ s # None
  BY DEF AppOK, ViewOK
<1>2. /\ s.range \in [RangeFields -> Ranges \cup {None}] /\ s.sort_ascending \in BOOLEAN
      /\ s.fit_filter \in FitFilters /\ s.availability \in Availabilities
  BY <1>1 DEF FilterSnapshots
<1>3. ASSUME NEW r \in [RangeFields -> Ranges \cup {None}], NEW v \in BOOLEAN,
             NEW f \in FitFilters, NEW x \in Availabilities
      PROVE  AppOK([a EXCEPT !.range = r, !.sort_ascending = v, !.fit_filter = f,
                             !.availability = x, !.filter_snapshot = None, !.mode = "Normal"])
  <2> DEFINE b == [a EXCEPT !.range = r, !.sort_ascending = v, !.fit_filter = f,
                            !.availability = x, !.filter_snapshot = None, !.mode = "Normal"]
  <2>1. TypesOK(b) /\ RowsOK(b) /\ CursorsOK(b)
    BY Fields DEF AppOK, TypesOK, RowsOK, CursorsOK
  <2>2. ViewOK(b)
    BY Fields DEF AppOK, TypesOK, ViewOK
  <2>3. OrderOK(b)
    BY Fields DEF AppOK, TypesOK, OrderOK, FitOf
  <2>4. QED
    BY <2>1, <2>2, <2>3 DEF AppOK
<1> DEFINE r == s.range
           v == s.sort_ascending
           f == s.fit_filter
           x == s.availability
<1>4. close_filter_popup(a)
        = [a EXCEPT !.range = r, !.sort_ascending = v, !.fit_filter = f,
                    !.availability = x, !.filter_snapshot = None, !.mode = "Normal"]
  BY <1>1, Fields DEF close_filter_popup, AppOK, TypesOK
<1> HIDE DEF r, v, f, x
<1>5. /\ r \in [RangeFields -> Ranges \cup {None}] /\ v \in BOOLEAN
      /\ f \in FitFilters /\ x \in Availabilities
  BY <1>2 DEF r, v, f, x
<1>6. AppOK([a EXCEPT !.range = r, !.sort_ascending = v, !.fit_filter = f,
                      !.availability = x, !.filter_snapshot = None, !.mode = "Normal"])
  BY <1>3, <1>5, Zenon
<1>7. QED
  BY <1>4, <1>6

(* Enter applies what was changed. *)
LEMMA FilterApplied ==
    ASSUME NEW a, AppOK(a), a.mode = "FilterPopup"
    PROVE  AppOK(apply_filter_popup(a))
<1> DEFINE v == a.filter_sort_ascending
           b == [a EXCEPT !.filter_snapshot = None, !.sort_ascending = v]
           c == apply_filters(b)
           d == re_sort(c)
           e == [d EXCEPT !.mode = "Normal"]
<1>1. /\ Filterable(b) /\ b.mode = "FilterPopup" /\ b.filter_snapshot = None
      /\ b.view = a.view /\ b.anchor = a.anchor /\ b.cursor = a.cursor
      /\ b.provider_search = a.provider_search /\ b.should_quit = a.should_quit
  <2>1. v \in BOOLEAN
    BY DEF AppOK, TypesOK
  <2> HIDE DEF v
  <2>2. QED
    BY <2>1, Fields DEF AppOK, TypesOK, RowsOK, Filterable
<1> HIDE DEF b
<1>2. TypesOK(c) /\ RowsOK(c) /\ SameScreen(b, c)
  BY <1>1, Filtered
<1>3. Filterable(c)
  BY <1>2 DEF Filterable, RowsOK
<1> HIDE DEF c
<1>4. TypesOK(d) /\ RowsOK(d) /\ SameScreen(c, d) /\ OrderOK(d)
  BY <1>3, Resorted
<1>5. /\ d.mode = "FilterPopup" /\ d.filter_snapshot = None
      /\ d.view = a.view /\ d.anchor = a.anchor /\ d.cursor = a.cursor
      /\ d.provider_search = a.provider_search /\ d.should_quit = a.should_quit
  BY <1>1, <1>2, <1>4 DEF SameScreen
<1>6. apply_filter_popup(a) = e
  BY DEF apply_filter_popup, d, c, b
<1> HIDE DEF d
<1>7. TypesOK(e) /\ RowsOK(e) /\ CursorsOK(e) /\ ViewOK(e)
  BY <1>4, <1>5, Fields DEF AppOK, TypesOK, RowsOK, CursorsOK, ViewOK
<1>8. OrderOK(e)
  BY <1>4, Fields DEF TypesOK, OrderOK, FitOf
<1>9. QED
  BY <1>6, <1>7, <1>8 DEF AppOK

(* The other keys of the filter popup. *)
LEMMA FilterKeys ==
    ASSUME NEW a, AppOK(a), a.mode = "FilterPopup"
    PROVE  /\ \A k \in {"esc", "tab", "back", " "} : AppOK(filter_key(a, k))
           /\ \A v \in Ranges \cup {None} : AppOK(filter_edit(a, v))
<1>1. \A f : AppOK([a EXCEPT !.filter_field = f])
  BY Fields DEF AppOK, TypesOK, RowsOK, CursorsOK, ViewOK, OrderOK, FitOf
<1>2. \A f \in FitFilters : AppOK([a EXCEPT !.fit_filter = f])
  BY Fields DEF AppOK, TypesOK, RowsOK, CursorsOK, ViewOK, OrderOK, FitOf
<1>3. \A f \in Availabilities : AppOK([a EXCEPT !.availability = f])
  BY Fields DEF AppOK, TypesOK, RowsOK, CursorsOK, ViewOK, OrderOK, FitOf
<1>4. \A v \in BOOLEAN : AppOK([a EXCEPT !.filter_sort_ascending = v])
  BY Fields DEF AppOK, TypesOK, RowsOK, CursorsOK, ViewOK, OrderOK, FitOf
<1>5. \A r \in [RangeFields -> Ranges \cup {None}] : AppOK([a EXCEPT !.range = r])
  BY Fields DEF AppOK, TypesOK, RowsOK, CursorsOK, ViewOK, OrderOK, FitOf
<1>6. /\ a.fit_filter \in FitFilters /\ a.availability \in Availabilities
      /\ (~a.filter_sort_ascending) \in BOOLEAN /\ a.range \in [RangeFields -> Ranges \cup {None}]
  BY DEF AppOK, TypesOK
<1>7. AppOK(filter_space(a))
  <2>1. CASE a.filter_field = "SortDirection"
    BY <1>4, <1>6, <2>1 DEF filter_space
  <2>2. CASE a.filter_field = "FitFilter"
    BY <1>2, <1>6, <2>2, Cycles DEF filter_space
  <2>3. CASE a.filter_field = "Availability"
    BY <1>3, <1>6, <2>3, Cycles DEF filter_space
  <2>4. CASE a.filter_field \notin {"SortDirection", "FitFilter", "Availability"}
    BY <2>4 DEF filter_space
  <2>5. QED
    BY <2>1, <2>2, <2>3, <2>4
<1>8. ASSUME NEW v \in Ranges \cup {None} PROVE AppOK(filter_edit(a, v))
  <2>1. CASE a.filter_field \in DOMAIN a.range
    <3> DEFINE r == [a.range EXCEPT ![a.filter_field] = v]
    <3>1. r \in [RangeFields -> Ranges \cup {None}]
      BY <1>6
    <3>2. filter_edit(a, v) = [a EXCEPT !.range = r]
      BY <2>1 DEF filter_edit
    <3> HIDE DEF r
    <3>3. QED
      BY <1>5, <3>1, <3>2
  <2>2. CASE a.filter_field \notin DOMAIN a.range
    BY <2>2 DEF filter_edit
  <2>3. QED
    BY <2>1, <2>2
<1>9. QED
  BY <1>1, <1>7, <1>8, FilterClosed DEF filter_key

-----------------------------------------------------------------------------
(* Other hardware, another configuration, other installed models. *)

(* Which models are installed. *)
LEMMA InstalledOK ==
    \A found : [m \in Models |-> is_installed(found, m)] \in [Models -> BOOLEAN]
BY DEF is_installed

(* A rebuilt table, in any plain mode. *)
LEMMA RebuiltOK ==
    ASSUME NEW a, AppOK(a), a.mode \in PlainModes, NEW s \in Specs, NEW c \in Configs,
           NEW sim, NEW m \in PlainModes
    PROVE  AppOK([rebuild_fits([a EXCEPT !.specs = s, !.config = c, !.sim_active = sim])
                    EXCEPT !.mode = m])
<1> DEFINE b == [a EXCEPT !.specs = s, !.config = c, !.sim_active = sim]
           i == [x \in Models |-> is_installed(b.found, x)]
           d == [b EXCEPT !.installed = i, !.row = 0, !.compare_models = <<>>, !.mark = None]
           e == ScoreRanked(d)
<1>1. i \in [Models -> BOOLEAN]
  BY InstalledOK
<1>2. rebuild_fits(b) = e
  BY DEF rebuild_fits
<1> HIDE DEF i
<1>3. TypesOK(d) /\ d.row \in Nat /\ d.compare_models = <<>> /\ SameScreen(a, d)
  BY <1>1, Fields DEF AppOK, TypesOK, SameScreen
<1> HIDE DEF d
<1>4. d.mode # "Plan" /\ d.mode \in PlainModes
  BY <1>3 DEF SameScreen, PlainModes
<1>5. TypesOK(e) /\ RowsOK(e) /\ SameScreen(d, e) /\ OrderOK(e)
  BY <1>3, <1>4, Rebuilt
<1>6. AppOK(e) /\ e.mode \in PlainModes
  <2>1. SameScreen(a, e) /\ e.mode \in PlainModes
    BY <1>3, <1>4, <1>5 DEF SameScreen
  <2>2. QED
    BY <1>5, <2>1, SameScreenOK DEF AppOK
<1> HIDE DEF e
<1>7. QED
  BY <1>2, <1>6, ModeChanged DEF b

(* Simulated hardware and another configuration. *)
LEMMA Analysed ==
    ASSUME NEW a, AppOK(a), a.mode \in PlainModes
    PROVE  /\ \A s \in Specs : AppOK(apply_simulation(a, s))
           /\ AppOK([reset_simulation(a) EXCEPT !.mode = "Normal"])
           /\ \A c \in Configs : AppOK(apply_advanced_config(a, c))
           /\ AppOK(reset_advanced_config(a))
<1>1. /\ a.specs \in Specs /\ a.config \in Configs /\ "Normal" \in PlainModes
      /\ "AdvancedConfig" \in PlainModes /\ DOMAIN a = AppFields
      /\ RealSpecs \in Specs /\ Baseline \in Configs
  BY ListAssumption DEF AppOK, TypesOK, PlainModes
<1>2. \A s, x : [a EXCEPT !.specs = s, !.sim_active = x]
                    = [a EXCEPT !.specs = s, !.config = a.config, !.sim_active = x]
  BY <1>1, Fields
<1>3. \A c : [a EXCEPT !.config = c]
                = [a EXCEPT !.specs = a.specs, !.config = c, !.sim_active = a.sim_active]
  BY <1>1, Fields
<1>4. ASSUME NEW s \in Specs PROVE AppOK(apply_simulation(a, s))
  <2>1. ASSUME NEW x
        PROVE  AppOK([rebuild_fits([a EXCEPT !.specs = s, !.sim_active = x]) EXCEPT !.mode = "Normal"])
    <3>1. AppOK([rebuild_fits([a EXCEPT !.specs = s, !.config = a.config, !.sim_active = x])
                    EXCEPT !.mode = "Normal"])
      BY <1>1, RebuiltOK
    <3>2. QED
      BY <1>2, <3>1
  <2>2. QED
    BY <2>1 DEF apply_simulation
<1>5. AppOK([reset_simulation(a) EXCEPT !.mode = "Normal"])
  <2>1. ASSUME NEW x
        PROVE  AppOK([rebuild_fits([a EXCEPT !.specs = RealSpecs, !.sim_active = x]) EXCEPT !.mode = "Normal"])
    <3>1. AppOK([rebuild_fits([a EXCEPT !.specs = RealSpecs, !.config = a.config, !.sim_active = x])
                    EXCEPT !.mode = "Normal"])
      BY <1>1, RebuiltOK
    <3>2. QED
      BY <1>2, <3>1
  <2>2. QED
    BY <2>1 DEF reset_simulation
<1>6. ASSUME NEW c \in Configs PROVE AppOK(apply_advanced_config(a, c))
  <2>1. AppOK([rebuild_fits([a EXCEPT !.config = c]) EXCEPT !.mode = "Normal"])
    <3>1. AppOK([rebuild_fits([a EXCEPT !.specs = a.specs, !.config = c, !.sim_active = a.sim_active])
                    EXCEPT !.mode = "Normal"])
      BY <1>1, RebuiltOK
    <3>2. QED
      BY <1>3, <3>1
  <2>2. QED
    BY <2>1 DEF apply_advanced_config
<1>7. AppOK(reset_advanced_config(a))
  <2>1. AppOK([rebuild_fits([a EXCEPT !.config = Baseline]) EXCEPT !.mode = "AdvancedConfig"])
    <3>1. AppOK([rebuild_fits([a EXCEPT !.specs = a.specs, !.config = Baseline, !.sim_active = a.sim_active])
                    EXCEPT !.mode = "AdvancedConfig"])
      BY <1>1, RebuiltOK
    <3>2. QED
      BY <1>3, <3>1
  <2>2. QED
    BY <2>1 DEF reset_advanced_config
<1>8. QED
  BY <1>4, <1>5, <1>6, <1>7

(* The installed models are asked for again, in any mode. *)
LEMMA Remarked ==
    ASSUME NEW a, AppOK(a), NEW found
    PROVE  AppOK(Remark(a, found))
<1> DEFINE i == [m \in Models |-> is_installed(found, m)]
           b == [a EXCEPT !.found = found, !.installed = i]
<1>1. i \in [Models -> BOOLEAN]
  BY InstalledOK
<1>2. Remark(a, found) = re_sort(b)
  BY DEF Remark
<1> HIDE DEF i
<1>3. Filterable(b) /\ CursorsOK(b) /\ ViewOK(b)
  BY <1>1, Fields DEF AppOK, TypesOK, RowsOK, CursorsOK, ViewOK, Filterable
<1>4. QED
  BY <1>2, <1>3, ResortedOK

(* So does a message of a detection thread, in any mode. *)
LEMMA Ticked ==
    ASSUME NEW a, AppOK(a), NEW ms
    PROVE  AppOK(tick_provider_detection(a, ms))
<1>1. ASSUME NEW x PROVE AppOK([a EXCEPT !.available = x])
  BY Fields DEF AppOK, TypesOK, RowsOK, CursorsOK, ViewOK, OrderOK, FitOf
<1>2. \A x, found : AppOK(Remark([a EXCEPT !.available = x], found))
  BY <1>1, Remarked
<1>3. QED
  BY <1>2 DEF tick_provider_detection

-----------------------------------------------------------------------------
(* The start of the program. *)

(* A set of numbers up to n that is not empty has a greatest one. *)
LEMMA GreatestNumber ==
    ASSUME NEW n \in Nat, NEW S \in SUBSET (1..n), S # {}
    PROVE  \E x \in S : \A y \in S : y <= x
<1> DEFINE T == {n - x : x \in S}
<1>1. T \subseteq Nat /\ T # {}
  <2>1. \A x \in S : n - x \in Nat
    <3>1. ASSUME NEW x \in 1..n PROVE n - x \in Nat
      OBVIOUS
    <3>2. QED
      BY <3>1
  <2>2. PICK x \in S : TRUE
    OBVIOUS
  <2>3. n - x \in T
    BY <2>2
  <2>4. QED
    BY <2>1, <2>3
<1>2. PICK t \in T : \A u \in T : t <= u
  BY <1>1, LeastNumber
<1>3. PICK x \in S : t = n - x
  BY <1>2
<1>4. ASSUME NEW y \in S PROVE y <= x
  <2>1. n - y \in T
    OBVIOUS
  <2>2. n - x <= n - y /\ x \in Int /\ y \in Int
    BY <1>2, <1>3, <2>1
  <2>3. QED
    BY <2>2
<1>5. QED
  BY <1>4

(* The row preselected is a row of the list. *)
LEMMA Preselected ==
    ASSUME NEW a, AppOK(a)
    PROVE  AppOK(SelectBest(a))
<1> DEFINE n == Len(a.filtered)
           level(i) == FitOf(a, a.all_fits[a.filtered[i]]).level
           score(i) == FitOf(a, a.all_fits[a.filtered[i]]).score
           good == {i \in 1..n : level(i) \in {"Perfect", "Good"}}
           best == {i \in good : \A j \in good : score(j) <= score(i)}
           r == initial_best_fit_row(a)
<1>1. n \in Nat
  BY DEF AppOK, RowsOK
<1>2. best \in SUBSET (1..n)
  OBVIOUS
<1>3. r = IF best = {} THEN 0 ELSE (CHOOSE i \in best : \A j \in best : j <= i) - 1
  BY DEF initial_best_fit_row
<1> HIDE DEF best, n, r
<1>4. r \in Nat /\ r < MaxOf(1, n)
  <2>1. CASE best = {}
    BY <1>1, <1>3, <2>1 DEF MaxOf
  <2>2. CASE best # {}
    <3> DEFINE i == CHOOSE i \in best : \A j \in best : j <= i
    <3>1. i \in best
      BY <1>1, <1>2, <2>2, GreatestNumber
    <3> HIDE DEF i
    <3>2. i \in 1..n /\ r = i - 1
      BY <1>2, <1>3, <2>2, <3>1 DEF i
    <3>3. QED
      BY <1>1, <3>2 DEF MaxOf
  <2>3. QED
    BY <2>1, <2>2
<1>5. QED
  BY <1>4, Moved DEF SelectBest, n, r

(* What the file of the filters holds. *)
SavedOK(s) ==
    /\ s.fit_filter \in FitFilters /\ s.availability \in Availabilities
    /\ s.tp_filter \in TpFilters /\ s.query \in Queries
    /\ s.sort_column \in SortColumns /\ s.sort_ascending \in BOOLEAN
    /\ s.installed_first \in BOOLEAN
    /\ s.range \in [RangeFields -> Ranges \cup {None}]

(* What is saved can be read. *)
LEMMA SavesOK ==
    ASSUME NEW a, TypesOK(a)
    PROVE  SavedOK(save_filters(a))
BY DEF TypesOK, SavedOK, save_filters

(* The App of the defaults: its table is the one of the real hardware. *)
LEMMA DefaultOK ==
    ASSUME NEW found, NEW available
    PROVE  LET a == DefaultApp(found, available)
           IN  Filterable(a) /\ CursorsOK(a) /\ ViewOK(a)
<1> DEFINE a == DefaultApp(found, available)
           installed == [m \in Models |-> is_installed(found, m)]
           bare == [specs |-> RealSpecs, config |-> Baseline, installed |-> installed]
           fits == rank_models_by_fit(bare, Rankable[RealSpecs])
<1>1. installed \in [Models -> BOOLEAN]
  BY InstalledOK
<1>2. a.installed = installed /\ a.all_fits = fits
  BY DEF DefaultApp
<1> HIDE DEF installed
<1>3. fits \in Seq(Models)
  <2>1. /\ RealSpecs \in Specs /\ Baseline \in Configs /\ Rankable[RealSpecs] \in Seq(Models)
        /\ "Score" \in SortColumns
    BY ListAssumption DEF SortColumns
  <2>2. bare.specs = RealSpecs /\ bare.config = Baseline
    OBVIOUS
  <2> HIDE DEF bare
  <2>3. QED
    BY <2>1, <2>2, RankSorts DEF rank_models_by_fit
<1> HIDE DEF fits
<1>4. DOMAIN a = AppFields
  BY DEF DefaultApp, AppFields
<1>5. /\ a.specs = RealSpecs /\ a.config = Baseline /\ a.sort_column = "Score"
      /\ a.select_column = 2 /\ a.fit_filter = "All" /\ a.availability = "All"
      /\ a.sort_ascending = FALSE /\ a.filter_sort_ascending = FALSE /\ a.installed_first = FALSE
      /\ a.range = NoRange /\ a.selected = AllOn /\ a.row = 0 /\ a.compare_models = <<>>
      /\ a.mode = "Normal" /\ a.cursor = [p \in Popups |-> 0] /\ a.provider_search = None
      /\ a.should_quit = FALSE /\ a.view = NoView /\ a.anchor = None /\ a.filter_snapshot = None
      /\ a.tp_filter = "All" /\ a.query \in Queries /\ a.bench = NoBench
  BY QueryAssumption DEF DefaultApp
<1> HIDE DEF a
<1>6. TypesOK(a)
  <2>1. NoRange \in [RangeFields -> Ranges \cup {None}]
    BY DEF NoRange
  <2>2. DOMAIN AllOn = Popups /\ \A p \in Popups : AllOn[p] \subseteq 1..Len(Lists[p])
    BY DEF AllOn
  <2>3. /\ "Score" \in SortColumns /\ 2 \in 1..14 /\ "All" \in FitFilters
        /\ "All" \in Availabilities /\ RealSpecs \in Specs /\ Baseline \in Configs
        /\ "All" \in TpFilters
    BY ListAssumption DEF SortColumns, FitFilters, Availabilities, TpFilters
  <2>4. NoBench \in Benches
    BY DEF NoBench, Benches
  <2>5. QED
    BY <1>1, <1>2, <1>4, <1>5, <2>1, <2>2, <2>3, <2>4 DEF TypesOK
<1>7. Filterable(a)
  <2>1. a.compare_models \in Seq(1..Len(a.all_fits))
    BY <1>5
  <2>2. QED
    BY <1>2, <1>3, <1>5, <1>6, <2>1 DEF Filterable
<1>8. CursorsOK(a)
  <2>1. \A p \in Popups : Entries(a.provider_search, p) \in Nat
    BY EntriesOK
  <2>2. QED
    BY <1>5, <2>1 DEF CursorsOK, MaxOf
<1>9. ViewOK(a)
  BY <1>5, SomeView DEF ViewOK
<1>10. QED
  BY <1>7, <1>8, <1>9 DEF a

(* The saved filters on top of them. *)
LEMMA RestoredOK ==
    ASSUME NEW a, Filterable(a), CursorsOK(a), ViewOK(a), NEW s, s = None \/ SavedOK(s)
    PROVE  LET b == RestoreFilters(a, s)
           IN  Filterable(b) /\ CursorsOK(b) /\ ViewOK(b)
<1>1. CASE s = None
  BY <1>1 DEF RestoreFilters
<1>2. CASE s # None
  <2> DEFINE f == s.fit_filter
             x == s.availability
             c == sort_column_from_label(s.sort_column)
             v == s.sort_ascending
             t == s.tp_filter
             q == s.query
             w == s.installed_first
             r == s.range
             selected == [p \in Popups |-> apply_map(p, s.selected[p])]
             b(y, z) == [a EXCEPT !.fit_filter = f, !.availability = x,
                            !.tp_filter = t, !.sort_column = c,
                            !.sort_ascending = y, !.filter_sort_ascending = y,
                            !.installed_first = z, !.query = q,
                            !.selected = selected, !.range = r]
  <2>1. /\ f \in FitFilters /\ x \in Availabilities /\ v \in BOOLEAN /\ w \in BOOLEAN
        /\ r \in [RangeFields -> Ranges \cup {None}] /\ c \in SortColumns
        /\ t \in TpFilters /\ q \in Queries
    BY <1>2 DEF SavedOK, sort_column_from_label, SortColumns
  <2>2. DOMAIN selected = Popups /\ \A p \in Popups : selected[p] \subseteq 1..Len(Lists[p])
    BY DEF apply_map
  <2>3. RestoreFilters(a, s) = b(v, w)
    BY <1>2 DEF RestoreFilters
  <2> HIDE DEF f, x, c, v, t, q, w, r, selected
  <2>4. ASSUME NEW y \in BOOLEAN, NEW z \in BOOLEAN
        PROVE  Filterable(b(y, z)) /\ CursorsOK(b(y, z)) /\ ViewOK(b(y, z))
    BY <2>1, <2>2, Fields DEF Filterable, TypesOK, CursorsOK, ViewOK
  <2> HIDE DEF b
  <2>5. QED
    BY <2>1, <2>3, <2>4
<1>3. QED
  BY <1>1, <1>2

(* The program starts in order. *)
LEMMA StartOK ==
    ASSUME NEW found, NEW available, NEW s, s = None \/ SavedOK(s)
    PROVE  AppOK(StartApp(found, available, s))
<1> DEFINE a == DefaultApp(found, available)
           b == RestoreFilters(a, s)
           c == apply_filters(b)
           d == re_sort(c)
<1>1. Filterable(a) /\ CursorsOK(a) /\ ViewOK(a)
  BY DefaultOK
<1>2. StartApp(found, available, s) = SelectBest(d)
  BY DEF StartApp
<1> HIDE DEF a
<1>3. Filterable(b) /\ CursorsOK(b) /\ ViewOK(b)
  BY <1>1, RestoredOK
<1> HIDE DEF b
<1>4. TypesOK(c) /\ RowsOK(c) /\ SameScreen(b, c)
  BY <1>3, Filtered
<1> HIDE DEF c
<1>5. Filterable(c) /\ CursorsOK(c) /\ ViewOK(c)
  BY <1>3, <1>4, SameScreenOK DEF Filterable, RowsOK
<1>6. AppOK(d)
  BY <1>5, ResortedOK
<1>7. QED
  BY <1>2, <1>6, Preselected

-----------------------------------------------------------------------------
(* The keys of normal mode and of the modes around it. *)

(* A mark may be any model, in any mode. *)
LEMMA Marked ==
    ASSUME NEW a, AppOK(a)
    PROVE  AppOK(mark_selected_for_compare(a))
<1>1. \A m : AppOK([a EXCEPT !.mark = m])
  BY Fields DEF AppOK, TypesOK, RowsOK, CursorsOK, ViewOK, OrderOK, FitOf
<1>2. QED
  BY <1>1 DEF mark_selected_for_compare

(* The live view of the benchmark may be in any state, in any mode. *)
LEMMA Benched ==
    ASSUME NEW a, AppOK(a), NEW x \in Benches
    PROVE  AppOK([a EXCEPT !.bench = x])
<1> DEFINE b == [a EXCEPT !.bench = x]
<1>1. TypesOK(b) /\ RowsOK(b) /\ CursorsOK(b) /\ ViewOK(b)
  BY Fields DEF AppOK, TypesOK, RowsOK, CursorsOK, ViewOK
<1>2. OrderOK(b)
  BY Fields DEF AppOK, TypesOK, OrderOK, FitOf
<1>3. QED
  BY <1>1, <1>2 DEF AppOK

(* What the keys of the live view and its worker make of its state. *)
LEMMA BenchStates ==
    ASSUME NEW a, TypesOK(a)
    PROVE  /\ start_bench(a) = [a EXCEPT !.bench = [a.bench EXCEPT !.running = TRUE, !.confirm = FALSE]]
           /\ close_bench(a) = [a EXCEPT !.bench = [a.bench EXCEPT !.show = FALSE]]
           /\ tick_bench(a) = [a EXCEPT !.bench = [a.bench EXCEPT !.running = FALSE]]
           /\ \A x, y, z, w \in BOOLEAN :
                [show |-> x, detail |-> y, running |-> z, confirm |-> w] \in Benches
           /\ a.bench \in Benches
<1>1. DOMAIN a = AppFields /\ a.bench \in Benches
  BY DEF TypesOK
<1>2. QED
  BY <1>1, Fields DEF start_bench, close_bench, tick_bench, Benches

(* So the App stays in order under them. *)
LEMMA BenchKeysOK ==
    ASSUME NEW a, AppOK(a)
    PROVE  /\ \A k : AppOK(confirm_quit(a, k))
           /\ AppOK(rerun_bench(a)) /\ AppOK(bench_escape(a)) /\ AppOK(tick_bench(a))
           /\ \A cached \in BOOLEAN : AppOK(open_bench(a, cached))
           /\ AppOK([a EXCEPT !.bench.detail = ~@])
<1>1. DOMAIN a = AppFields /\ a.bench \in Benches /\ "bench" \in AppFields
  BY Fields DEF AppOK, TypesOK
<1>2. \A c : AppOK(c) => AppOK(close_bench(c)) /\ AppOK(start_bench(c)) /\ AppOK(tick_bench(c))
  <2>1. SUFFICES ASSUME NEW c, AppOK(c)
                 PROVE  AppOK(close_bench(c)) /\ AppOK(start_bench(c)) /\ AppOK(tick_bench(c))
    OBVIOUS
  <2>2. c.bench \in Benches /\ TypesOK(c)
    BY <2>1 DEF AppOK, TypesOK
  <2>3. /\ [c.bench EXCEPT !.show = FALSE] \in Benches
        /\ [c.bench EXCEPT !.running = FALSE] \in Benches
        /\ [c.bench EXCEPT !.running = TRUE, !.confirm = FALSE] \in Benches
    BY <2>2 DEF Benches
  <2>4. /\ AppOK([c EXCEPT !.bench = [c.bench EXCEPT !.show = FALSE]])
        /\ AppOK([c EXCEPT !.bench = [c.bench EXCEPT !.running = FALSE]])
        /\ AppOK([c EXCEPT !.bench = [c.bench EXCEPT !.running = TRUE, !.confirm = FALSE]])
    BY <2>1, <2>3, Benched
  <2>5. /\ start_bench(c) = [c EXCEPT !.bench = [c.bench EXCEPT !.running = TRUE, !.confirm = FALSE]]
        /\ close_bench(c) = [c EXCEPT !.bench = [c.bench EXCEPT !.show = FALSE]]
        /\ tick_bench(c) = [c EXCEPT !.bench = [c.bench EXCEPT !.running = FALSE]]
    BY <2>2, BenchStates
  <2>6. QED
    BY <2>4, <2>5
<1>3. \A c : AppOK(c) => AppOK(rerun_bench(c))
  BY <1>2 DEF rerun_bench
<1>4. /\ AppOK([a EXCEPT !.bench.confirm = FALSE]) /\ AppOK([a EXCEPT !.bench.show = TRUE])
      /\ AppOK([a EXCEPT !.bench.confirm = TRUE]) /\ AppOK([a EXCEPT !.bench.detail = FALSE])
      /\ AppOK([a EXCEPT !.bench.detail = ~@])
  <2>1. /\ [a.bench EXCEPT !.confirm = FALSE] \in Benches /\ [a.bench EXCEPT !.show = TRUE] \in Benches
        /\ [a.bench EXCEPT !.confirm = TRUE] \in Benches /\ [a.bench EXCEPT !.detail = FALSE] \in Benches
        /\ [a.bench EXCEPT !.detail = ~@] \in Benches
    BY <1>1 DEF Benches
  <2>2. QED
    BY <2>1, Benched
<1>5. \A k : AppOK(confirm_quit(a, k))
  BY <1>2, <1>4 DEF confirm_quit
<1>6. AppOK(bench_escape(a))
  BY <1>2, <1>4 DEF bench_escape
<1>7. \A cached \in BOOLEAN : AppOK(open_bench(a, cached))
  BY <1>3, <1>4 DEF open_bench
<1>8. QED
  BY <1>2, <1>3, <1>4, <1>5, <1>6, <1>7

(* A key of the table leaves the App in order. *)
LEMMA TableKeysOK ==
    ASSUME NEW a, AppOK(a), a.mode = "Normal", NEW k \in NormalKeys \ {"esc", "q"}
    PROVE  AppOK(table_key(a, k))
<1>1. a.mode \in PlainModes /\ DOMAIN a = AppFields
  BY DEF PlainModes, AppOK, TypesOK
<1>2. \A m \in PlainModes : AppOK([a EXCEPT !.mode = m])
  BY <1>1, ModeChanged
<1>3. CASE k \in NavigationKeys
  <2>1. table_key(a, k) = Navigate(a, k)
    BY <1>3 DEF table_key, NavigationKeys
  <2>2. QED
    BY <1>3, <2>1, Moves
<1>4. CASE k \in {"left", "right"}
  <2>1. table_key(a, k) \in {a, multi_compare_scroll_left(a), multi_compare_scroll_right(a)}
    BY <1>4 DEF table_key, NavigationKeys
  <2>2. QED
    BY <2>1, ViewKeys
<1>5. CASE k = "h"
  <2>1. table_key(a, k) \in {multi_compare_scroll_left(a), [a EXCEPT !.mode = "HelpPopup"]}
    BY <1>5 DEF table_key, NavigationKeys
  <2>2. QED
    BY <1>2, <2>1, ViewKeys DEF PlainModes
<1>6. CASE k = "v"
  <2>1. table_key(a, k) = enter_visual_mode(a)
    BY <1>6 DEF table_key, NavigationKeys
  <2>2. QED
    BY <2>1, VisualMode
<1>7. CASE k \in {"V", "/", "S", "A"}
  <2>1. \E m \in {"Select", "Search", "Simulation", "AdvancedConfig"} :
            table_key(a, k) = [a EXCEPT !.mode = m]
    BY <1>7 DEF table_key, NavigationKeys
  <2>2. QED
    BY <1>2, <2>1 DEF PlainModes
<1>8. CASE k \in {"U", "C", "L", "R"}
  <2>1. \E m \in {"UseCasePopup", "CapabilityPopup", "LicensePopup", "RuntimePopup"} :
            table_key(a, k) = [a EXCEPT !.mode = m]
    BY <1>8 DEF table_key, NavigationKeys, OpenPopup
  <2>2. QED
    BY <1>2, <2>1 DEF PlainModes
<1>9. CASE k \in {"f", "a", "T", "s", "i"}
  <2>1. table_key(a, k) \in {cycle_fit_filter(a), cycle_availability_filter(a),
                              cycle_tp_filter(a), cycle_sort_column(a),
                              toggle_installed_first(a), a}
    BY <1>9 DEF table_key, NavigationKeys
  <2>2. QED
    BY <2>1, Refilters
<1>10. CASE k \in {"F", "P"}
  <2>1. table_key(a, k) \in {open_filter_popup(a), open_provider_popup(a)}
    BY <1>10 DEF table_key, NavigationKeys
  <2>2. QED
    BY <1>1, <2>1, FilterOpened, ProviderOpened
<1>11. CASE k \in {"p", "D", "enter", "m", "c", "x"}
  <2>1. table_key(a, k) \in {open_plan_mode(a), toggle_downloads(a), toggle_detail(a),
                              mark_selected_for_compare(a), toggle_compare_view(a),
                              clear_compare_mark(a)}
    BY <1>11 DEF table_key, NavigationKeys
  <2>2. QED
    BY <2>1, ViewKeys
<1>12. QED
  BY <1>3, <1>4, <1>5, <1>6, <1>7, <1>8, <1>9, <1>10, <1>11 DEF NormalKeys

(* So does every key of normal mode, or it ends the program. *)
LEMMA NormalKeysOK ==
    ASSUME NEW a, AppOK(a), a.mode = "Normal", NEW k \in NormalKeys
    PROVE  AppOK(normal_key(a, k)) \/ normal_key(a, k) = [a EXCEPT !.should_quit = TRUE]
<1>1. CASE a.bench.confirm
  BY <1>1, BenchKeysOK DEF normal_key
<1>2. CASE ~a.bench.confirm /\ k \in {"esc", "q"}
  <2>1. normal_key(a, k) = normal_escape(a)
    BY <1>2 DEF normal_key
  <2>2. a.bench.show => normal_escape(a) = bench_escape(a)
    BY DEF normal_escape
  <2>3. QED
    BY <2>1, <2>2, BenchKeysOK, ViewKeys
<1>3. CASE ~a.bench.confirm /\ k \notin {"esc", "q"}
  <2>1. normal_key(a, k) \in {a, [a EXCEPT !.bench.detail = ~@], table_key(a, k)}
    BY <1>3 DEF normal_key, bench_key
  <2>2. AppOK([a EXCEPT !.bench.detail = ~@]) /\ AppOK(table_key(a, k))
    BY <1>3, BenchKeysOK, TableKeysOK
  <2>3. QED
    BY <2>1, <2>2
<1>4. QED
  BY <1>1, <1>2, <1>3

(* So do the keys of visual mode ... *)
LEMMA VisualKeys ==
    ASSUME NEW a, AppOK(a), a.mode = "Visual",
           NEW k \in NavigationKeys \cup {"esc", "m", "c"}
    PROVE  AppOK(visual_key(a, k))
<1>1. CASE k \in NavigationKeys
  <2>1. visual_key(a, k) = Navigate(a, k)
    BY <1>1 DEF visual_key, NavigationKeys
  <2>2. QED
    BY <1>1, <2>1, Moves
<1>2. CASE k \in {"esc", "m", "c"}
  <2>1. visual_key(a, k) \in {exit_visual_mode(a), mark_selected_for_compare(a),
                              visual_compare(a)}
    BY <1>2 DEF visual_key, NavigationKeys
  <2>2. QED
    BY <2>1, Marked, VisualMode
<1>3. QED
  BY <1>1, <1>2

(* ... and those of the search. *)
LEMMA SearchKeys ==
    ASSUME NEW a, AppOK(a), a.mode = "Search", NEW k \in {"esc", "up", "down"}
    PROVE  AppOK(search_key(a, k))
<1>1. AppOK([a EXCEPT !.mode = "Normal"])
  BY ModeChanged DEF PlainModes
<1>2. search_key(a, k) \in {[a EXCEPT !.mode = "Normal"], move_up(a), move_down(a)}
  BY DEF search_key
<1>3. QED
  BY <1>1, <1>2, Moves

-----------------------------------------------------------------------------
(* The inductive invariant. *)

(* A program that runs is in order, and so was one that has ended, which   *)
(* saved its filters; what is on disk is something a program saved.        *)
IInv ==
    /\ IF app.should_quit
       THEN /\ app.mode = "Normal"
            /\ AppOK([app EXCEPT !.should_quit = FALSE])
            /\ saved = save_filters(app)
       ELSE AppOK(app)
    /\ saved = None \/ SavedOK(saved)
    /\ habit \in Habits

(* The first state is in order. *)
LEMMA InitOK == Init => IInv
<1>1. \A found, available : AppOK(StartApp(found, available, None))
  BY StartOK
<1>2. ASSUME Init PROVE AppOK(app)
  BY <1>1, <1>2 DEF Init
<1>3. ASSUME Init PROVE app.should_quit = FALSE
  BY <1>2, <1>3 DEF AppOK, ViewOK
<1>4. QED
  BY <1>2, <1>3 DEF Init, IInv

(* A key that does not end the program in a mode. *)
LEMMA Pressed ==
    ASSUME IInv, NEW mode, NEW b, Press(mode, b), UNCHANGED saved,
           AppOK(app) /\ app.mode = mode => AppOK(b)
    PROVE  IInv'
<1>1. AppOK(app) /\ app.mode = mode
  BY DEF IInv, Press
<1>2. AppOK(app') /\ app'.should_quit = FALSE
  BY <1>1 DEF Press, AppOK, ViewOK
<1>3. AppOK(app)'
  BY <1>2 DEF AppOK, TypesOK, RowsOK, CursorsOK, ViewOK, OrderOK, FitOf
<1>4. QED
  BY <1>2, <1>3 DEF IInv, Press

(* A program that quits keeps its App and saves its filters. *)
LEMMA Quits ==
    ASSUME NEW a, AppOK(a), a.mode = "Normal"
    PROVE  LET b == [a EXCEPT !.should_quit = TRUE]
           IN  /\ b.should_quit = TRUE /\ b.mode = "Normal"
               /\ AppOK([b EXCEPT !.should_quit = FALSE])
               /\ save_filters(b) = save_filters(a)
<1> DEFINE b == [a EXCEPT !.should_quit = TRUE]
<1>1. DOMAIN a = AppFields /\ a.should_quit = FALSE
  BY DEF AppOK, TypesOK, ViewOK
<1>2. b.should_quit = TRUE /\ b.mode = "Normal"
  BY <1>1, Fields
<1>3. AppOK([b EXCEPT !.should_quit = FALSE])
  BY <1>1, Fields DEF AppOK, TypesOK, RowsOK, CursorsOK, ViewOK, OrderOK, FitOf
<1>4. save_filters(b) = save_filters(a)
  <2>1. /\ b.fit_filter = a.fit_filter /\ b.availability = a.availability
        /\ b.tp_filter = a.tp_filter /\ b.sort_column = a.sort_column
        /\ b.sort_ascending = a.sort_ascending /\ b.installed_first = a.installed_first
        /\ b.query = a.query /\ b.selected = a.selected /\ b.range = a.range
    BY <1>1, Fields
  <2>2. \A p : build_map(b, p) = build_map(a, p)
    BY <2>1 DEF build_map
  <2>3. [p \in Popups |-> build_map(b, p)] = [p \in Popups |-> build_map(a, p)]
    BY <2>2
  <2> HIDE DEF b
  <2>4. QED
    BY <2>1, <2>3 DEF save_filters
<1>5. QED
  BY <1>2, <1>3, <1>4

(* The keys of normal mode keep the invariant. *)
LEMMA NormalStep ==
    ASSUME IInv, handle_normal_mode
    PROVE  IInv'
<1>1. PICK k \in habit \ {"I"} :
        /\ Press("Normal", normal_key(app, k))
        /\ saved' = IF app'.should_quit THEN save_filters(app) ELSE saved
  BY DEF handle_normal_mode
<1>2. AppOK(app) /\ app.mode = "Normal" /\ app' = normal_key(app, k) /\ habit' = habit
  BY <1>1 DEF IInv, Press
<1>3. k \in NormalKeys
  BY <1>1, KeysAssumption DEF IInv
<1>4. CASE AppOK(normal_key(app, k))
  <2>1. app'.should_quit = FALSE
    BY <1>2, <1>4 DEF AppOK, ViewOK
  <2>2. UNCHANGED saved
    BY <1>1, <2>1
  <2>3. QED
    BY <1>1, <1>4, <2>2, Pressed
<1>5. CASE normal_key(app, k) = [app EXCEPT !.should_quit = TRUE]
  <2>1. /\ app'.should_quit = TRUE /\ app'.mode = "Normal"
        /\ AppOK([app' EXCEPT !.should_quit = FALSE])
        /\ save_filters(app') = save_filters(app)
    BY <1>2, <1>5, Quits
  <2>2. saved' = save_filters(app)
    BY <1>1, <2>1
  <2>3. SavedOK(saved')
    BY <1>2, <2>2, SavesOK DEF AppOK
  <2>4. /\ (app.mode = "Normal" /\ AppOK([app EXCEPT !.should_quit = FALSE]))'
        /\ (saved = save_filters(app))' /\ SavedOK(saved)'
    BY <2>1, <2>2, <2>3
       DEF AppOK, TypesOK, RowsOK, CursorsOK, ViewOK, OrderOK, FitOf, save_filters, build_map, SavedOK
  <2>5. QED
    BY <1>2, <2>1, <2>4 DEF IInv
<1>6. QED
  BY <1>2, <1>3, <1>4, <1>5, NormalKeysOK

(* So do those of the other modes that show a list of entries. *)
LEMMA PopupStep ==
    ASSUME IInv,
           \/ handle_provider_popup_mode \/ handle_use_case_popup_mode
           \/ handle_capability_popup_mode \/ handle_quant_popup_mode
           \/ handle_run_mode_popup_mode \/ handle_params_bucket_popup_mode
           \/ handle_license_popup_mode \/ handle_runtime_popup_mode
    PROVE  IInv'
<1>1. ASSUME NEW p \in Popups, NEW mode \in PlainModes, NEW k \in PopupKeys,
             Press(mode, PopupKey(app, p, k)), UNCHANGED saved
      PROVE  IInv'
  <2>1. ASSUME AppOK(app), app.mode = mode PROVE AppOK(PopupKey(app, p, k))
    BY <1>1, <2>1, PopupKeyOK
  <2>2. QED
    BY <1>1, <2>1, Pressed
<1>2. CASE handle_provider_popup_mode
  <2>1. UNCHANGED saved
    BY <1>2 DEF handle_provider_popup_mode
  <2>2. ASSUME NEW k \in ProviderPopupKeys, Press("ProviderPopup", provider_popup(app, k))
        PROVE  IInv'
    <3>1. ASSUME AppOK(app), app.mode = "ProviderPopup" PROVE AppOK(provider_popup(app, k))
      BY <2>2, <3>1, ProviderKeys DEF PlainModes
    <3>2. QED
      BY <2>1, <2>2, <3>1, Pressed
  <2>3. ASSUME NEW q, Press("ProviderPopup", provider_search_edit(app, q))
        PROVE  IInv'
    BY <2>1, <2>3, ProviderSearched, Pressed
  <2>4. QED
    BY <1>2, <2>2, <2>3 DEF handle_provider_popup_mode
<1>3. CASE handle_use_case_popup_mode
  BY <1>1, <1>3 DEF handle_use_case_popup_mode, use_case_popup, Popups, PlainModes
<1>4. CASE handle_capability_popup_mode
  BY <1>1, <1>4 DEF handle_capability_popup_mode, capability_popup, Popups, PlainModes
<1>5. CASE handle_quant_popup_mode
  BY <1>1, <1>5 DEF handle_quant_popup_mode, quant_popup, Popups, PlainModes
<1>6. CASE handle_run_mode_popup_mode
  BY <1>1, <1>6 DEF handle_run_mode_popup_mode, run_mode_popup, Popups, PlainModes
<1>7. CASE handle_params_bucket_popup_mode
  BY <1>1, <1>7 DEF handle_params_bucket_popup_mode, params_bucket_popup, Popups, PlainModes
<1>8. CASE handle_license_popup_mode
  BY <1>1, <1>8 DEF handle_license_popup_mode, license_popup, Popups, PlainModes
<1>9. CASE handle_runtime_popup_mode
  BY <1>1, <1>9 DEF handle_runtime_popup_mode, runtime_popup, Popups, PlainModes
<1>10. QED
  BY <1>2, <1>3, <1>4, <1>5, <1>6, <1>7, <1>8, <1>9

(* The keys of the filter popup: Enter saves. *)
LEMMA FilterStep ==
    ASSUME IInv, handle_filter_popup_mode
    PROVE  IInv'
<1>1. AppOK(app) /\ app.mode = "FilterPopup" /\ habit' = habit
  BY DEF IInv, handle_filter_popup_mode, Press
<1>2. ASSUME NEW k \in {"esc", "tab", "back", " "}, Press("FilterPopup", filter_key(app, k)),
             UNCHANGED saved
      PROVE  IInv'
  BY <1>2, <1>1, FilterKeys, Pressed
<1>3. ASSUME NEW v \in Ranges \cup {None}, Press("FilterPopup", filter_edit(app, v)),
             UNCHANGED saved
      PROVE  IInv'
  BY <1>3, <1>1, FilterKeys, Pressed
<1>4. ASSUME Press("FilterPopup", apply_filter_popup(app)), saved' = save_filters(app')
      PROVE  IInv'
  <2>1. AppOK(app')
    BY <1>1, <1>4, FilterApplied DEF Press
  <2>2. app'.should_quit = FALSE /\ SavedOK(saved')
    BY <1>4, <2>1, SavesOK DEF AppOK, ViewOK
  <2>3. AppOK(app)' /\ SavedOK(saved)'
    BY <2>1, <2>2 DEF AppOK, TypesOK, RowsOK, CursorsOK, ViewOK, OrderOK, FitOf, SavedOK
  <2>4. QED
    BY <1>1, <2>2, <2>3 DEF IInv
<1>5. QED
  BY <1>2, <1>3, <1>4 DEF handle_filter_popup_mode

(* The keys of the modes over the table. *)
LEMMA TableStep ==
    ASSUME IInv,
           \/ handle_refresh \/ handle_visual_mode \/ handle_select_mode
           \/ handle_column_keys \/ handle_search_mode
    PROVE  IInv'
<1>1. CASE handle_refresh
  <2>1. PICK found : Press("Normal", refresh_installed(app, found))
    BY <1>1 DEF handle_refresh
  <2>2. AppOK(app) => AppOK(refresh_installed(app, found))
    BY Remarked DEF refresh_installed
  <2>3. QED
    BY <1>1, <2>1, <2>2, Pressed DEF handle_refresh
<1>2. CASE handle_visual_mode
  <2>1. PICK k \in NavigationKeys \cup {"esc", "m", "c"} : Press("Visual", visual_key(app, k))
    BY <1>2 DEF handle_visual_mode
  <2>2. AppOK(app) /\ app.mode = "Visual" => AppOK(visual_key(app, k))
    BY VisualKeys
  <2>3. QED
    BY <1>2, <2>1, <2>2, Pressed DEF handle_visual_mode
<1>3. CASE handle_select_mode
  <2>1. PICK k \in {"esc", "enter", "up", "down"} : Press("Select", select_key(app, k))
    BY <1>3 DEF handle_select_mode
  <2>2. k \in {"esc", "enter", "up", "down", "left", "right"}
    BY <2>1
  <2>3. AppOK(app) /\ app.mode = "Select" => AppOK(select_key(app, k))
    BY <2>2, SelectKeys
  <2>4. QED
    BY <1>3, <2>1, <2>3, Pressed DEF handle_select_mode
<1>4. CASE handle_column_keys
  <2>1. PICK k \in {"left", "right"} : app' = select_key(app, k)
    BY <1>4 DEF handle_column_keys
  <2>2. AppOK(app) /\ app.mode = "Select" /\ k \in {"esc", "enter", "up", "down", "left", "right"}
    BY <1>4, <2>1 DEF handle_column_keys, IInv
  <2>3. AppOK(app') /\ app'.should_quit = FALSE
    <3>1. AppOK(app')
      BY <2>1, <2>2, SelectKeys
    <3>2. QED
      BY <3>1 DEF AppOK, ViewOK
  <2>4. AppOK(app)'
    BY <2>3 DEF AppOK, TypesOK, RowsOK, CursorsOK, ViewOK, OrderOK, FitOf
  <2>5. QED
    BY <1>4, <2>3, <2>4 DEF handle_column_keys, IInv
<1>5. CASE handle_search_mode
  <2>1. ASSUME NEW k \in {"esc", "up", "down"}, Press("Search", search_key(app, k))
        PROVE  IInv'
    <3>1. AppOK(app) /\ app.mode = "Search" => AppOK(search_key(app, k))
      BY SearchKeys
    <3>2. QED
      BY <1>5, <2>1, <3>1, Pressed DEF handle_search_mode
  <2>2. ASSUME NEW q \in Queries, Press("Search", SearchEdit(app, q))
        PROVE  IInv'
    BY <1>5, <2>2, Refilters, Pressed DEF handle_search_mode
  <2>3. QED
    BY <1>5, <2>1, <2>2 DEF handle_search_mode
<1>6. QED
  BY <1>1, <1>2, <1>3, <1>4, <1>5

(* The modes with a view or a popup of their own. *)
LEMMA ViewStep ==
    ASSUME IInv,
           \/ handle_plan_mode \/ handle_help_popup_mode \/ handle_download_manager_mode
           \/ handle_simulation_mode \/ handle_advanced_config_mode
    PROVE  IInv'
<1>1. ASSUME NEW mode \in {"Plan", "HelpPopup", "DownloadManager", "Simulation",
                           "AdvancedConfig"},
             Press(mode, escape_key(app, "esc")), UNCHANGED saved
      PROVE  IInv'
  <2>1. ASSUME AppOK(app), app.mode = mode PROVE AppOK(escape_key(app, "esc"))
    BY <2>1, EscapeKey DEF PlainModes
  <2>2. QED
    BY <1>1, <2>1, Pressed
<1>2. CASE handle_plan_mode \/ handle_help_popup_mode \/ handle_download_manager_mode
  BY <1>1, <1>2 DEF handle_plan_mode, handle_help_popup_mode, handle_download_manager_mode
<1>3. CASE handle_simulation_mode
  <2>1. UNCHANGED saved
    BY <1>3 DEF handle_simulation_mode
  <2>2. ASSUME AppOK(app), app.mode = "Simulation"
        PROVE  /\ \A s \in Specs : AppOK(apply_simulation(app, s))
               /\ AppOK([reset_simulation(app) EXCEPT !.mode = "Normal"])
    BY <2>2, Analysed DEF PlainModes
  <2>3. ASSUME NEW s \in Specs, Press("Simulation", apply_simulation(app, s)) PROVE IInv'
    BY <2>1, <2>2, <2>3, Pressed
  <2>4. ASSUME Press("Simulation", [reset_simulation(app) EXCEPT !.mode = "Normal"])
        PROVE  IInv'
    BY <2>1, <2>2, <2>4, Pressed
  <2>5. QED
    BY <1>1, <1>3, <2>1, <2>3, <2>4 DEF handle_simulation_mode
<1>4. CASE handle_advanced_config_mode
  <2>1. UNCHANGED saved
    BY <1>4 DEF handle_advanced_config_mode
  <2>2. ASSUME AppOK(app), app.mode = "AdvancedConfig"
        PROVE  /\ \A c \in Configs : AppOK(apply_advanced_config(app, c))
               /\ AppOK(reset_advanced_config(app))
    BY <2>2, Analysed DEF PlainModes
  <2>3. ASSUME NEW c \in Configs, Press("AdvancedConfig", apply_advanced_config(app, c))
        PROVE  IInv'
    BY <2>1, <2>2, <2>3, Pressed
  <2>4. ASSUME Press("AdvancedConfig", reset_advanced_config(app)) PROVE IInv'
    BY <2>1, <2>2, <2>4, Pressed
  <2>5. QED
    BY <1>1, <1>4, <2>1, <2>3, <2>4 DEF handle_advanced_config_mode
<1>5. QED
  BY <1>2, <1>3, <1>4

(* A step that changes neither the App nor the file keeps the invariant. *)
LEMMA SameApp ==
    ASSUME IInv, app' = app, saved' = saved, habit' = habit
    PROVE  IInv'
<1>1. AppOK(app) => AppOK(app)'
  BY DEF AppOK, TypesOK, RowsOK, CursorsOK, ViewOK, OrderOK, FitOf
<1>2. AppOK([app EXCEPT !.should_quit = FALSE]) => AppOK([app EXCEPT !.should_quit = FALSE])'
  BY DEF AppOK, TypesOK, RowsOK, CursorsOK, ViewOK, OrderOK, FitOf
<1>3. saved = save_filters(app) => (saved = save_filters(app))'
  BY DEF save_filters, build_map
<1>4. SavedOK(saved) => SavedOK(saved)'
  BY DEF SavedOK
<1>5. QED
  BY <1>1, <1>2, <1>3, <1>4 DEF IInv

(* The benchmark starts, is shown or ends. *)
LEMMA BenchStep ==
    ASSUME IInv, handle_bench_key \/ BenchDone
    PROVE  IInv'
<1>1. CASE handle_bench_key
  <2>1. PICK cached \in BOOLEAN :
            Press("Normal", IF app.bench.confirm THEN confirm_quit(app, "I")
                            ELSE IF app.bench.show THEN rerun_bench(app)
                            ELSE open_bench(app, cached))
    BY <1>1 DEF handle_bench_key
  <2>2. UNCHANGED saved
    BY <1>1 DEF handle_bench_key
  <2>3. QED
    BY <2>1, <2>2, BenchKeysOK, Pressed
<1>2. CASE BenchDone
  <2>1. AppOK(app) /\ app' = tick_bench(app) /\ saved' = saved /\ habit' = habit
    BY <1>2 DEF BenchDone, IInv
  <2>2. AppOK(app') /\ app'.should_quit = FALSE
    <3>1. AppOK(tick_bench(app))
      BY <2>1, BenchKeysOK
    <3>2. QED
      BY <2>1, <3>1 DEF AppOK, ViewOK
  <2>3. AppOK(app)'
    BY <2>2 DEF AppOK, TypesOK, RowsOK, CursorsOK, ViewOK, OrderOK, FitOf
  <2>4. QED
    BY <2>1, <2>2, <2>3 DEF IInv, SavedOK
<1>3. QED
  BY <1>1, <1>2

(* Messages of the detection threads, and a new start of the program. *)
LEMMA OtherStep ==
    ASSUME IInv, Tick \/ Detected \/ Restart
    PROVE  IInv'
<1>1. CASE Detected
  <2>1. app' = app /\ saved' = saved /\ habit' = habit
    BY <1>1 DEF Detected
  <2>2. QED
    BY <2>1, SameApp
<1>2. CASE Tick \/ Restart
  <2>1. saved' = saved /\ habit' = habit
    BY <1>2 DEF Tick, Restart
  <2>2. AppOK(app')
    <3>1. CASE Tick
      BY <3>1, Ticked DEF Tick, IInv
    <3>2. CASE Restart
      <4>1. PICK found, available : app' = StartApp(found, available, saved)
        BY <3>2 DEF Restart
      <4>2. QED
        BY <4>1, StartOK DEF IInv
    <3>3. QED
      BY <1>2, <3>1, <3>2
  <2>3. app'.should_quit = FALSE
    BY <2>2 DEF AppOK, ViewOK
  <2>4. AppOK(app)'
    BY <2>2 DEF AppOK, TypesOK, RowsOK, CursorsOK, ViewOK, OrderOK, FitOf
  <2>5. QED
    BY <2>1, <2>3, <2>4 DEF IInv, SavedOK
<1>3. QED
  BY <1>1, <1>2

(* IInv is inductive. *)
THEOREM TableInvariant == Spec => []IInv
<1>1. Init => IInv
  BY InitOK
<1>2. IInv /\ [Next]_vars => IInv'
  <2>1. ASSUME IInv, Next PROVE IInv'
    BY <2>1, NormalStep, PopupStep, FilterStep, TableStep, ViewStep, BenchStep, OtherStep
       DEF Next, HandleKey
  <2>2. ASSUME IInv, UNCHANGED vars PROVE IInv'
    BY <2>2, SameApp DEF vars
  <2>3. QED
    BY <2>1, <2>2
<1>3. QED
  BY <1>1, <1>2, PTL DEF Spec

-----------------------------------------------------------------------------
(* What the invariant says of the App, whether the program runs or not. *)

LEMMA Ended ==
    ASSUME IInv
    PROVE  /\ TypesOK(app) /\ RowsOK(app) /\ CursorsOK(app) /\ OrderOK(app)
           /\ app.mode = "Plan" <=> app.view["plan"]
           /\ app.mode = "DownloadManager" <=> app.view["downloads"]
           /\ app.mode = "Visual" <=> app.anchor # None
           /\ app.mode = "FilterPopup" <=> app.filter_snapshot # None
           /\ ~app.should_quit => AppOK(app)
<1>1. CASE ~app.should_quit
  BY <1>1 DEF IInv, AppOK, ViewOK
<1>2. CASE app.should_quit
  <2> DEFINE b == [app EXCEPT !.should_quit = FALSE]
  <2>1. AppOK(b)
    BY <1>2 DEF IInv
  <2>2. DOMAIN app = AppFields
    BY <2>1 DEF AppOK, TypesOK
  <2>3. TypesOK(app) /\ RowsOK(app) /\ CursorsOK(app)
    BY <2>1, <2>2, Fields DEF AppOK, TypesOK, RowsOK, CursorsOK
  <2>4. OrderOK(app)
    BY <2>1, <2>2, Fields DEF AppOK, OrderOK, FitOf
  <2>5. /\ app.mode = "Plan" <=> app.view["plan"]
        /\ app.mode = "DownloadManager" <=> app.view["downloads"]
        /\ app.mode = "Visual" <=> app.anchor # None
        /\ app.mode = "FilterPopup" <=> app.filter_snapshot # None
    BY <2>1, <2>2, Fields DEF AppOK, ViewOK
  <2>6. QED
    BY <1>2, <2>3, <2>4, <2>5
<1>3. QED
  BY <1>1, <1>2

(* Whatever simulations, messages of other threads and keys do to the      *)
(* table, the rows shown, the selection, the models compared, the model    *)
(* planned and the cursors of the popups are entries that exist.           *)
THEOREM IndicesAreValid == Spec => []IndicesValid
<1>1. IInv => IndicesValid
  <2>1. ASSUME IInv PROVE IndicesValid
    <3>1. RowsOK(app) /\ CursorsOK(app)
      BY <2>1, Ended
    <3>2. \A i \in 1..Len(app.filtered) : app.filtered[i] \in 1..Len(app.all_fits)
      BY <3>1 DEF RowsOK
    <3>3. \A i \in 1..Len(app.compare_models) : app.compare_models[i] \in 1..Len(app.all_fits)
      BY <3>1 DEF RowsOK
    <3>4. \A p \in Popups : app.cursor[p] < MaxOf(1, Len(Shown(app, p)))
      BY <3>1, EntriesOK DEF CursorsOK
    <3>5. QED
      BY <3>1, <3>2, <3>3, <3>4 DEF IndicesValid, RowsOK
  <2>2. QED
    BY <2>1
<1>2. QED
  BY <1>1, TableInvariant, PTL

(* The keys go to the plan, the downloads, the range of rows or the filter *)
(* popup exactly while these are on the screen.                            *)
THEOREM ModesMatchViews == Spec => []ModeMatchesView
<1>1. IInv => ModeMatchesView
  BY Ended DEF ModeMatchesView
<1>2. QED
  BY <1>1, TableInvariant, PTL

(* In every direction of every column, no model that cannot run stands     *)
(* above one that can, but for installed ones that come first: also after  *)
(* a simulation, a new configuration and a message of another thread.      *)
THEOREM UnrunnableStaysLast == Spec => []UnrunnableLast
<1>1. IInv => UnrunnableLast
  BY Ended DEF OrderOK, UnrunnableLast
<1>2. QED
  BY <1>1, TableInvariant, PTL

-----------------------------------------------------------------------------
(* Eight times Esc, or q where the program asks. *)

(* The program is in normal mode, without the downloads. *)
InTable(a) ==
    /\ DOMAIN a = AppFields /\ a.should_quit = FALSE /\ a.mode = "Normal"
    /\ a.view \in [Views -> BOOLEAN] /\ ~a.view["downloads"] /\ a.bench \in Benches

(* No benchmark is shown, and none is asked about. *)
Away(x) == ~x.show /\ ~x.confirm

(* The benchmark is so far after one key, and after two. *)
NearlyAway(x) ==
    Away(x) \/ (x.confirm /\ x.running) \/ (~x.confirm /\ ~x.detail /\ ~x.running)

AlmostAway(x) == NearlyAway(x) \/ ~x.detail \/ (~x.confirm /\ ~x.running)

(* The program has ended, or is in normal mode with the benchmark so far. *)
Leaving(a, x) == a.should_quit = TRUE \/ (InTable(a) /\ x)

(* A key in the benchmark closes something of it, asks, or is the answer. *)
LEMMA BenchEsc ==
    ASSUME NEW a, InTable(a), ~Away(a.bench)
    PROVE  LET b == LeaveOnce(a)
           IN  /\ InTable(b)
               /\ AlmostAway(b.bench)
               /\ AlmostAway(a.bench) => NearlyAway(b.bench)
               /\ NearlyAway(a.bench) => Away(b.bench)
<1> DEFINE x == a.bench
           b == LeaveOnce(a)
           with(y) == [a EXCEPT !.bench = y]
<1>1. DOMAIN a = AppFields /\ a.should_quit = FALSE /\ a.mode = "Normal" /\ x \in Benches
  BY DEF InTable
<1>2. \A y \in Benches : InTable(with(y)) /\ with(y).bench = y
  BY <1>1, Fields DEF InTable
<1>3. \E y \in Benches :
        /\ b = with(y) /\ AlmostAway(y)
        /\ AlmostAway(x) => NearlyAway(y)
        /\ NearlyAway(x) => Away(y)
  <2>1. CASE x.confirm /\ x.running
    <3> DEFINE y == [x EXCEPT !.confirm = FALSE, !.show = FALSE]
    <3>1. b = close_bench([a EXCEPT !.bench.confirm = FALSE])
      BY <1>1, <2>1 DEF LeaveOnce, EscapeOnce, confirm_quit
    <3>2. b = with(y)
      BY <1>1, <3>1, Fields DEF close_bench, Benches
    <3>3. y \in Benches /\ Away(y)
      BY <1>1 DEF Benches, Away
    <3>4. QED
      BY <3>2, <3>3 DEF AlmostAway, NearlyAway
  <2>2. CASE x.confirm /\ ~x.running
    <3> DEFINE y == [x EXCEPT !.confirm = FALSE]
    <3>1. b = with(y)
      BY <1>1, <2>2 DEF LeaveOnce, EscapeOnce, confirm_quit
    <3>2. y \in Benches /\ ~y.confirm /\ ~y.running /\ y.detail = x.detail
      BY <1>1, <2>2 DEF Benches
    <3>3. /\ AlmostAway(y) /\ (AlmostAway(x) => NearlyAway(y)) /\ ~NearlyAway(x)
      BY <2>2, <3>2 DEF AlmostAway, NearlyAway, Away
    <3>4. QED
      BY <3>1, <3>2, <3>3
  <2>3. CASE ~x.confirm
    <3>1. x.show /\ b = bench_escape(a)
      <4>1. x.show
        BY <2>3 DEF Away
      <4>2. b = normal_escape(a)
        BY <1>1, <2>3 DEF LeaveOnce, EscapeOnce
      <4>3. QED
        BY <4>1, <4>2 DEF normal_escape
    <3>2. CASE x.detail
      <4> DEFINE y == [x EXCEPT !.detail = FALSE]
      <4>1. b = with(y)
        BY <3>1, <3>2 DEF bench_escape
      <4>2. y \in Benches /\ ~y.confirm /\ ~y.detail /\ y.running = x.running
        BY <1>1, <2>3 DEF Benches
      <4>3. AlmostAway(y) /\ (AlmostAway(x) => NearlyAway(y)) /\ ~NearlyAway(x)
        BY <2>3, <3>1, <3>2, <4>2 DEF AlmostAway, NearlyAway, Away
      <4>4. QED
        BY <4>1, <4>2, <4>3
    <3>3. CASE ~x.detail /\ x.running
      <4> DEFINE y == [x EXCEPT !.confirm = TRUE]
      <4>1. b = with(y)
        BY <3>1, <3>3 DEF bench_escape
      <4>2. y \in Benches /\ y.confirm /\ y.running
        BY <1>1, <3>3 DEF Benches
      <4>3. AlmostAway(y) /\ NearlyAway(y) /\ ~NearlyAway(x)
        BY <2>3, <3>1, <3>3, <4>2 DEF AlmostAway, NearlyAway, Away
      <4>4. QED
        BY <4>1, <4>2, <4>3
    <3>4. CASE ~x.detail /\ ~x.running
      <4> DEFINE y == [x EXCEPT !.show = FALSE]
      <4>1. b = with(y)
        BY <3>1, <3>4 DEF bench_escape, close_bench
      <4>2. y \in Benches /\ Away(y)
        BY <1>1, <2>3 DEF Benches, Away
      <4>3. QED
        BY <4>1, <4>2 DEF AlmostAway, NearlyAway
    <3>5. QED
      BY <1>1, <3>2, <3>3, <3>4 DEF Benches
  <2>4. QED
    BY <1>1, <2>1, <2>2, <2>3 DEF Benches
<1>4. ASSUME NEW z \in Benches, b = with(z), AlmostAway(z),
             AlmostAway(x) => NearlyAway(z), NearlyAway(x) => Away(z)
      PROVE  /\ InTable(b) /\ AlmostAway(b.bench)
             /\ AlmostAway(x) => NearlyAway(b.bench)
             /\ NearlyAway(x) => Away(b.bench)
  <2>1. InTable(with(z)) /\ with(z).bench = z
    BY <1>2, <1>4
  <2> HIDE DEF b, with, x
  <2>2. InTable(b) /\ b.bench = z
    BY <1>4, <2>1
  <2>3. QED
    BY <1>4, <2>2
<1> HIDE DEF b, with, x
<1>5. QED
  BY <1>3, <1>4 DEF b, x

(* The program has ended, or is there without the views of S. *)
Closed(a, S) == a.should_quit = TRUE
                \/ (InTable(a) /\ Away(a.bench) /\ \A v \in S : ~a.view[v])

(* Esc in normal mode closes the topmost view or quits. *)
LEMMA TableEsc ==
    ASSUME NEW a, InTable(a), Away(a.bench)
    PROVE  LET b == LeaveOnce(a)
           IN  /\ b.should_quit = TRUE \/ b.bench = a.bench
               /\ a.view["multi"] =>
                    InTable(b) /\ b.view = [a.view EXCEPT !["multi"] = FALSE]
               /\ ~a.view["multi"] /\ a.view["detail"] =>
                    InTable(b) /\ b.view = [a.view EXCEPT !["detail"] = FALSE]
               /\ ~a.view["multi"] /\ ~a.view["detail"] /\ a.view["compare"] =>
                    InTable(b) /\ b.view = [a.view EXCEPT !["compare"] = FALSE]
               /\ ~a.view["multi"] /\ ~a.view["detail"] /\ ~a.view["compare"] =>
                    b.should_quit = TRUE
<1> DEFINE b == LeaveOnce(a)
           closed(x) == [a EXCEPT !.view = [a.view EXCEPT ![x] = FALSE]]
<1>1. b = normal_escape(a) /\ ~a.bench.show
  BY DEF LeaveOnce, EscapeOnce, InTable, Away
<1>2. ASSUME NEW x \in {"multi", "detail", "compare"}
      PROVE  /\ InTable(closed(x)) /\ closed(x).view = [a.view EXCEPT ![x] = FALSE]
             /\ closed(x).bench = a.bench
  <2>1. x \in Views /\ x # "downloads"
    BY DEF Views
  <2>2. LET w == [a.view EXCEPT ![x] = FALSE]
        IN  w \in [Views -> BOOLEAN] /\ ~w["downloads"]
    BY <2>1, ViewClosed DEF InTable, Views
  <2>3. QED
    BY <2>2, Fields DEF InTable
<1>3. CASE a.view["multi"]
  <2>1. b = [closed("multi") EXCEPT !.compare_models = <<>>]
    <3>1. b = close_multi_compare(a)
      BY <1>1, <1>3 DEF normal_escape, InTable
    <3>2. QED
      BY <3>1 DEF close_multi_compare
  <2> HIDE DEF b, closed
  <2>2. InTable(b) /\ b.view = closed("multi").view /\ b.bench = closed("multi").bench
    BY <1>2, <2>1, Fields DEF InTable
  <2>3. QED
    BY <1>2, <1>3, <2>2 DEF b
<1>4. CASE ~a.view["multi"] /\ a.view["detail"]
  <2>1. b = closed("detail")
    BY <1>1, <1>4 DEF normal_escape, InTable
  <2> HIDE DEF b, closed
  <2>2. InTable(b) /\ b.view = [a.view EXCEPT !["detail"] = FALSE] /\ b.bench = a.bench
    BY <1>2, <2>1
  <2>3. QED
    BY <1>4, <2>2 DEF b
<1>5. CASE ~a.view["multi"] /\ ~a.view["detail"] /\ a.view["compare"]
  <2>1. b = closed("compare")
    BY <1>1, <1>5 DEF normal_escape, InTable
  <2> HIDE DEF b, closed
  <2>2. InTable(b) /\ b.view = [a.view EXCEPT !["compare"] = FALSE] /\ b.bench = a.bench
    BY <1>2, <2>1
  <2>3. QED
    BY <1>5, <2>2 DEF b
<1>6. CASE ~a.view["multi"] /\ ~a.view["detail"] /\ ~a.view["compare"]
  <2>1. b = [a EXCEPT !.should_quit = TRUE]
    BY <1>1, <1>6 DEF normal_escape, InTable
  <2> HIDE DEF b
  <2>2. b.should_quit = TRUE
    BY <2>1, Fields DEF InTable
  <2>3. QED
    BY <1>6, <2>2 DEF b
<1> HIDE DEF b
<1>7. QED
  BY <1>3, <1>4, <1>5, <1>6 DEF b

(* The first Esc leaves the popup or the mode, or does more. *)
LEMMA FirstEsc ==
    ASSUME NEW a, AppOK(a)
    PROVE  Leaving(LeaveOnce(a), TRUE)
<1> DEFINE b == LeaveOnce(a)
<1>1. /\ DOMAIN a = AppFields /\ a.view \in [Views -> BOOLEAN] /\ a.should_quit = FALSE
      /\ a.bench \in Benches
      /\ a.mode = "DownloadManager" <=> a.view["downloads"]
  BY DEF AppOK, TypesOK, ViewOK
<1>2. \A m \in Views : LET w == [a.view EXCEPT ![m] = FALSE]
                       IN  w \in [Views -> BOOLEAN] /\ ~w[m]
                           /\ (m # "downloads" => w["downloads"] = a.view["downloads"])
  BY <1>1, ViewClosed DEF Views
<1>3. CASE a.mode = "Normal"
  <2>1. InTable(a)
    BY <1>1, <1>3 DEF InTable
  <2>2. a.view["multi"] \in BOOLEAN /\ a.view["detail"] \in BOOLEAN
            /\ a.view["compare"] \in BOOLEAN
    BY <1>1 DEF Views
  <2> HIDE DEF b
  <2>3. InTable(b) \/ b.should_quit = TRUE
    BY <2>1, <2>2, BenchEsc, TableEsc DEF b
  <2>4. QED
    BY <2>3 DEF Leaving, b
<1>4. CASE a.mode \in {"Visual", "FilterPopup", "ProviderPopup"}
  <2>1. ~a.view["downloads"]
    BY <1>1, <1>4
  <2>2. b \in {exit_visual_mode(a), close_filter_popup(a), close_provider_popup(a)}
    BY <1>1, <1>4 DEF LeaveOnce, EscapeOnce
  <2>3. InTable(exit_visual_mode(a)) /\ InTable(close_provider_popup(a))
    BY <1>1, <2>1, Fields DEF InTable, exit_visual_mode, close_provider_popup
  <2>4. InTable(close_filter_popup(a))
    BY <1>1, <2>1, Fields DEF InTable, close_filter_popup
  <2> HIDE DEF b
  <2>5. InTable(b)
    BY <2>2, <2>3, <2>4
  <2>6. QED
    BY <2>5 DEF Leaving, b
<1>5. CASE a.mode \notin {"Normal", "Visual", "FilterPopup", "ProviderPopup"}
  <2>1. b = escape_key(a, "esc")
    BY <1>1, <1>5 DEF LeaveOnce, EscapeOnce
  <2>2. CASE a.mode = "Plan"
    <3>1. b = close_plan_mode(a) /\ ~a.view["downloads"]
      BY <1>1, <2>1, <2>2 DEF escape_key
    <3>2. InTable(close_plan_mode(a))
      BY <1>1, <1>2, <3>1, Fields DEF InTable, close_plan_mode, Views
    <3>3. QED
      BY <3>1, <3>2 DEF Leaving
  <2>3. CASE a.mode = "DownloadManager"
    <3>1. b = close_downloads(a)
      BY <2>1, <2>3 DEF escape_key
    <3>2. InTable(close_downloads(a))
      BY <1>1, <1>2, Fields DEF InTable, close_downloads, Views
    <3>3. QED
      BY <3>1, <3>2 DEF Leaving
  <2>4. CASE a.mode \notin {"Plan", "DownloadManager"}
    <3>1. b = [a EXCEPT !.mode = "Normal"] /\ ~a.view["downloads"]
      BY <1>1, <2>1, <2>4 DEF escape_key
    <3>2. InTable([a EXCEPT !.mode = "Normal"])
      BY <1>1, <3>1, Fields DEF InTable
    <3>3. QED
      BY <3>1, <3>2 DEF Leaving
  <2>5. QED
    BY <2>2, <2>3, <2>4
<1>6. QED
  BY <1>3, <1>4, <1>5

(* Three more are enough for the benchmark. *)
LEMMA BenchNext ==
    ASSUME NEW a
    PROVE  LET b == LeaveOnce(a)
           IN  /\ Leaving(a, TRUE) => Leaving(b, AlmostAway(b.bench))
               /\ Leaving(a, AlmostAway(a.bench)) => Leaving(b, NearlyAway(b.bench))
               /\ Leaving(a, NearlyAway(a.bench)) => Closed(b, {})
<1> DEFINE b == LeaveOnce(a)
<1>1. a.should_quit = TRUE => b = a
  BY DEF LeaveOnce, EscapeOnce
<1>2. InTable(a) /\ Away(a.bench) => b.should_quit = TRUE \/ (InTable(b) /\ Away(b.bench))
  <2>1. InTable(a) => a.view["multi"] \in BOOLEAN /\ a.view["detail"] \in BOOLEAN
                        /\ a.view["compare"] \in BOOLEAN
    BY DEF InTable, Views
  <2> HIDE DEF b
  <2>2. QED
    BY <2>1, TableEsc DEF b
<1>3. InTable(a) /\ ~Away(a.bench) =>
        /\ InTable(b) /\ AlmostAway(b.bench)
        /\ AlmostAway(a.bench) => NearlyAway(b.bench)
        /\ NearlyAway(a.bench) => Away(b.bench)
  <2> HIDE DEF b
  <2>1. QED
    BY BenchEsc DEF b
<1> HIDE DEF b
<1>4. QED
  BY <1>1, <1>2, <1>3 DEF Leaving, Closed, AlmostAway, NearlyAway, b

(* Each further one closes a view that is open, and the last one quits. *)
LEMMA NextEsc ==
    ASSUME NEW a
    PROVE  LET b == LeaveOnce(a)
           IN  /\ a.should_quit = TRUE => b = a
               /\ Closed(a, {}) => Closed(b, {"multi"})
               /\ Closed(a, {"multi"}) => Closed(b, {"multi", "detail"})
               /\ Closed(a, {"multi", "detail"}) => Closed(b, {"multi", "detail", "compare"})
               /\ Closed(a, {"multi", "detail", "compare"}) => b.should_quit = TRUE
<1> DEFINE b == LeaveOnce(a)
<1>1. a.should_quit = TRUE => b = a
  BY DEF LeaveOnce, EscapeOnce
<1>2. InTable(a) => /\ a.view \in [Views -> BOOLEAN]
                    /\ a.view["multi"] \in BOOLEAN /\ a.view["detail"] \in BOOLEAN
                    /\ a.view["compare"] \in BOOLEAN
  BY DEF InTable, Views
<1>3. InTable(a) /\ Away(a.bench) =>
        /\ b.should_quit = TRUE \/ b.bench = a.bench
        /\ a.view["multi"] =>
            InTable(b) /\ ~b.view["multi"] /\ b.view["detail"] = a.view["detail"]
        /\ ~a.view["multi"] /\ a.view["detail"] =>
            InTable(b) /\ ~b.view["multi"] /\ ~b.view["detail"]
        /\ ~a.view["multi"] /\ ~a.view["detail"] /\ a.view["compare"] =>
            InTable(b) /\ ~b.view["multi"] /\ ~b.view["detail"] /\ ~b.view["compare"]
        /\ ~a.view["multi"] /\ ~a.view["detail"] /\ ~a.view["compare"] => b.should_quit = TRUE
  <2> HIDE DEF b
  <2>1. QED
    BY <1>2, TableEsc DEF Views, b
<1> HIDE DEF b
<1>4. QED
  BY <1>1, <1>2, <1>3 DEF Closed, b

(* No combination of modes, views and a running benchmark traps the user. *)
THEOREM EscAlwaysLeaves == Spec => []EscLeaves
<1>1. ASSUME AppOK(app) PROVE EscLeaves
  <2> DEFINE a1 == LeaveOnce(app)
             a2 == LeaveOnce(a1)
             a3 == LeaveOnce(a2)
             a4 == LeaveOnce(a3)
             a5 == LeaveOnce(a4)
             a6 == LeaveOnce(a5)
             a7 == LeaveOnce(a6)
  <2>1. Leaving(a1, TRUE)
    BY <1>1, FirstEsc
  <2> HIDE DEF a1
  <2>2. Leaving(a2, AlmostAway(a2.bench))
    BY <2>1, BenchNext
  <2> HIDE DEF a2
  <2>3. Leaving(a3, NearlyAway(a3.bench))
    BY <2>2, BenchNext
  <2> HIDE DEF a3
  <2>4. Closed(a4, {})
    BY <2>3, BenchNext
  <2> HIDE DEF a4
  <2>5. Closed(a5, {"multi"})
    BY <2>4, NextEsc
  <2> HIDE DEF a5
  <2>6. Closed(a6, {"multi", "detail"})
    BY <2>5, NextEsc
  <2> HIDE DEF a6
  <2>7. Closed(a7, {"multi", "detail", "compare"})
    BY <2>6, NextEsc
  <2> HIDE DEF a7
  <2>8. LeaveOnce(a7).should_quit = TRUE
    BY <2>7, NextEsc
  <2>9. QED
    BY <2>8 DEF EscLeaves, AfterFour, AfterOne, a1, a2, a3, a4, a5, a6, a7
<1>2. ASSUME app.should_quit = TRUE PROVE EscLeaves
  <2>1. LeaveOnce(app) = app
    BY <1>2, NextEsc
  <2>2. QED
    BY <1>2, <2>1 DEF EscLeaves, AfterFour, AfterOne
<1>3. IInv => EscLeaves
  BY <1>1, <1>2, Ended
<1>4. QED
  BY <1>3, TableInvariant, PTL

-----------------------------------------------------------------------------
(* What a restart keeps. *)

(* What the filters of b look at is what those of a look at. *)
SameFilters(a, b) ==
    /\ b.specs = a.specs /\ b.config = a.config /\ b.installed = a.installed
    /\ b.query = a.query /\ b.range = a.range
    /\ \A p \in Popups : b.selected[p] = a.selected[p]
    /\ b.fit_filter = a.fit_filter /\ b.availability = a.availability
    /\ b.tp_filter = a.tp_filter

(* Then they pick the same models. *)
LEMMA SameMatches ==
    ASSUME NEW a, NEW b, SameFilters(a, b), NEW m
    PROVE  Matches(a, m) <=> Matches(b, m)
<1>1. FitOf(b, m) = FitOf(a, m)
  BY DEF SameFilters, FitOf
<1>2. \A p \in Popups : AllSelected(b, p) = AllSelected(a, p)
             /\ SelectedEntries(b, p) = SelectedEntries(a, p)
  BY DEF SameFilters, AllSelected, SelectedEntries
<1>3. /\ MatchesSearch(a, m) <=> MatchesSearch(b, m)
      /\ MatchesProvider(a, m) <=> MatchesProvider(b, m)
      /\ MatchesUseCase(a, m) <=> MatchesUseCase(b, m)
  BY <1>1, <1>2 DEF SameFilters, MatchesSearch, MatchesProvider, MatchesUseCase, Popups
<1>4. MatchesFit(a, m) <=> MatchesFit(b, m)
  BY <1>1 DEF SameFilters, MatchesFit
<1>5. MatchesAvailability(a, m) <=> MatchesAvailability(b, m)
  BY DEF SameFilters, MatchesAvailability
<1>6. /\ MatchesCapability(a, m) <=> MatchesCapability(b, m)
      /\ MatchesQuant(a, m) <=> MatchesQuant(b, m)
      /\ MatchesRunMode(a, m) <=> MatchesRunMode(b, m)
      /\ MatchesLicense(a, m) <=> MatchesLicense(b, m)
  BY <1>1, <1>2 DEF MatchesCapability, MatchesQuant, MatchesRunMode, MatchesLicense, Popups
<1>7. MatchesParamsBucket(a, m) <=> MatchesParamsBucket(b, m)
  BY <1>2 DEF SameFilters, MatchesParamsBucket, Popups
<1>8. MatchesRuntime(a, m) <=> MatchesRuntime(b, m)
  BY <1>2 DEF SameFilters, MatchesRuntime, Popups
<1>9. MatchesRanges(a, m) <=> MatchesRanges(b, m)
  BY <1>1 DEF SameFilters, MatchesRanges
<1>10. /\ TpMatches(a.tp_filter, m) <=> TpMatches(b.tp_filter, m)
       /\ (Catalog[m].mlx_only => a.specs \in Apple) <=> (Catalog[m].mlx_only => b.specs \in Apple)
  BY DEF SameFilters
<1>11. QED
  BY <1>3, <1>4, <1>5, <1>6, <1>7, <1>8, <1>9, <1>10 DEF Matches

(* What is read of a list is what was saved of it: no entry is there twice. *)
LEMMA MapRead ==
    ASSUME NEW p \in Popups, NEW a, a.selected[p] \subseteq 1..Len(Lists[p])
    PROVE  apply_map(p, build_map(a, p)) = a.selected[p]
<1> DEFINE l == Lists[p]
           map == build_map(a, p)
<1>1. /\ l \in Seq({l[i] : i \in 1..Len(l)}) /\ Len(l) \in Nat
      /\ \A i, j \in 1..Len(l) : l[i] = l[j] => i = j
  BY ListsOK DEF IsList, IsInjective
<1>2. \A i \in 1..Len(l) : l[i] \in ToSet(l)
  BY <1>1 DEF ToSet
<1>3. \A i \in 1..Len(l) : l[i] \in DOMAIN map
        /\ map[l[i]] = \E j \in a.selected[p] : l[j] = l[i]
  BY <1>2 DEF build_map
<1> HIDE DEF map
<1>4. \A i \in 1..Len(l) : (l[i] \in DOMAIN map => map[l[i]]) <=> i \in a.selected[p]
  <2>1. ASSUME NEW i \in 1..Len(l)
        PROVE  (\E j \in a.selected[p] : l[j] = l[i]) <=> i \in a.selected[p]
    BY <1>1
  <2>2. QED
    BY <1>3, <2>1
<1>5. apply_map(p, map) = {i \in 1..Len(l) : l[i] \in DOMAIN map => map[l[i]]}
  BY DEF apply_map
<1>6. QED
  BY <1>4, <1>5 DEF map

(* What is saved is a file, not the lack of one. *)
LEMMA SavedSomething ==
    ASSUME NEW a, TypesOK(a)
    PROVE  save_filters(a) # None
<1> DEFINE Maps == UNION {[ToSet(Lists[p]) -> BOOLEAN] : p \in Popups}
           selected == [p \in Popups |-> build_map(a, p)]
<1>1. selected \in [Popups -> Maps]
  <2>1. ASSUME NEW p \in Popups PROVE build_map(a, p) \in [ToSet(Lists[p]) -> BOOLEAN]
    BY DEF build_map
  <2>2. \A p \in Popups : build_map(a, p) \in Maps
    BY <2>1
  <2> HIDE DEF Maps
  <2>3. QED
    BY <2>2
<1> HIDE DEF selected
<1>2. save_filters(a) \in FilterConfigs
  BY <1>1 DEF TypesOK, save_filters, FilterConfigs, selected
<1>3. QED
  BY <1>2, NoneAssumption

(* Sorting and filtering keep the filters. *)
LEMMA FiltersKept ==
    ASSUME NEW a, DOMAIN a = AppFields
    PROVE  LET b == SelectBest(re_sort(apply_filters(a)))
           IN  DOMAIN b = AppFields /\ SameFilters(a, b)
<1>1. ASSUME NEW x, DOMAIN x = AppFields
      PROVE  LET y == apply_filters(x) IN DOMAIN y = AppFields /\ SameFilters(x, y)
  <2>1. \A f, r : LET y == [x EXCEPT !.filtered = f, !.row = r]
                 IN  DOMAIN y = AppFields /\ SameFilters(x, y)
    BY <1>1, Fields DEF SameFilters
  <2>2. QED
    BY <2>1 DEF apply_filters, ShowRows
<1>2. ASSUME NEW x, DOMAIN x = AppFields
      PROVE  LET y == re_sort(x) IN DOMAIN y = AppFields /\ SameFilters(x, y)
  <2>1. \A f : LET y == [x EXCEPT !.all_fits = f]
              IN  DOMAIN y = AppFields /\ SameFilters(x, y)
    BY <1>2, Fields DEF SameFilters
  <2>2. PICK f : re_sort(x) = apply_filters([x EXCEPT !.all_fits = f])
    BY DEF re_sort
  <2> DEFINE y == [x EXCEPT !.all_fits = f]
  <2>3. DOMAIN y = AppFields /\ SameFilters(x, y)
    BY <2>1
  <2> HIDE DEF y
  <2>4. DOMAIN apply_filters(y) = AppFields /\ SameFilters(y, apply_filters(y))
    BY <1>1, <2>3
  <2>5. QED
    BY <2>2, <2>3, <2>4 DEF SameFilters, y
<1>3. ASSUME NEW x, DOMAIN x = AppFields
      PROVE  LET y == SelectBest(x) IN DOMAIN y = AppFields /\ SameFilters(x, y)
  <2>1. \A r : LET y == [x EXCEPT !.row = r] IN DOMAIN y = AppFields /\ SameFilters(x, y)
    BY <1>3, Fields DEF SameFilters
  <2>2. QED
    BY <2>1 DEF SelectBest
<1> DEFINE c == apply_filters(a)
           d == re_sort(c)
           e == SelectBest(d)
<1>4. DOMAIN c = AppFields /\ SameFilters(a, c)
  BY <1>1
<1> HIDE DEF c
<1>5. DOMAIN d = AppFields /\ SameFilters(c, d)
  BY <1>2, <1>4
<1> HIDE DEF d
<1>6. DOMAIN e = AppFields /\ SameFilters(d, e)
  BY <1>3, <1>5
<1> HIDE DEF e
<1>7. SameFilters(a, e)
  BY <1>4, <1>5, <1>6 DEF SameFilters
<1>8. QED
  BY <1>6, <1>7 DEF c, d, e

(* The App that a program starts with has the filters that were saved, on  *)
(* the real hardware in the default configuration.                         *)
LEMMA StartKeeps ==
    ASSUME NEW a, TypesOK(a), NEW found, NEW available
    PROVE  LET b == StartApp(found, available, save_filters(a))
           IN  SameFilters([a EXCEPT !.specs = RealSpecs, !.config = Baseline],
                           [b EXCEPT !.installed = a.installed])
<1> DEFINE s == save_filters(a)
           d == DefaultApp(found, available)
           r == RestoreFilters(d, s)
           b == StartApp(found, available, s)
<1>1. s # None
  BY SavedSomething
<1>2. DOMAIN d = AppFields /\ d.specs = RealSpecs /\ d.config = Baseline
  BY DEF DefaultApp, AppFields
<1> HIDE DEF d
<1>3. /\ s.fit_filter = a.fit_filter /\ s.availability = a.availability
      /\ s.tp_filter = a.tp_filter /\ s.query = a.query /\ s.range = a.range
      /\ s.selected = [p \in Popups |-> build_map(a, p)]
  BY DEF save_filters
<1>4. \A p \in Popups : apply_map(p, s.selected[p]) = a.selected[p]
  BY <1>3, MapRead DEF TypesOK
<1> HIDE DEF s
<1>5. /\ DOMAIN r = AppFields /\ r.specs = RealSpecs /\ r.config = Baseline
      /\ r.fit_filter = a.fit_filter /\ r.availability = a.availability
      /\ r.tp_filter = a.tp_filter /\ r.query = a.query /\ r.range = a.range
      /\ \A p \in Popups : r.selected[p] = a.selected[p]
  BY <1>1, <1>2, <1>3, <1>4, Fields DEF RestoreFilters
<1> HIDE DEF r
<1>6. DOMAIN b = AppFields /\ SameFilters(r, b)
  BY <1>5, FiltersKept DEF StartApp, r, d
<1> HIDE DEF b
<1>7. SameFilters([a EXCEPT !.specs = RealSpecs, !.config = Baseline],
                  [b EXCEPT !.installed = a.installed])
  BY <1>5, <1>6, Fields DEF SameFilters, TypesOK
<1>8. QED
  BY <1>7 DEF b, s

(* The filters a program starts with pick the models that the filters of   *)
(* the last quit picked, whatever is in the file by then.                  *)
THEOREM RestartsKeepRows == Spec => RestartKeepsRows
<1>1. ASSUME IInv, Restart, NEW m \in Models
      PROVE  Matches([app EXCEPT !.specs = RealSpecs, !.config = Baseline], m)
             <=> Matches([app' EXCEPT !.installed = app.installed], m)
  <2>1. TypesOK(app) /\ saved = save_filters(app)
    BY <1>1, Ended DEF IInv, Restart
  <2>2. PICK found, available : app' = StartApp(found, available, save_filters(app))
    BY <1>1, <2>1 DEF Restart
  <2>3. SameFilters([app EXCEPT !.specs = RealSpecs, !.config = Baseline],
                    [app' EXCEPT !.installed = app.installed])
    BY <2>1, <2>2, StartKeeps
  <2>4. QED
    BY <2>3, SameMatches
<1>2. IInv /\ Restart =>
        \A m \in Models :
            Matches([app EXCEPT !.specs = RealSpecs, !.config = Baseline], m)
            <=> Matches([app' EXCEPT !.installed = app.installed], m)
  BY <1>1
<1>3. QED
  BY <1>2, TableInvariant, PTL DEF RestartKeepsRows, Spec

=============================================================================
