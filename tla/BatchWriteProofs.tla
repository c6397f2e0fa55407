--------------------------- MODULE BatchWriteProofs ---------------------------
(***************************************************************************)
(* BatchWrite, for every number of records, entries, times, sizes and size *)
(* of slices.                                                              *)
(*                                                                         *)
(* The functions that follow a loop of the code are recursive; Recursion   *)
(* says that such a function exists and what its values are.               *)
(***************************************************************************)
EXTENDS BatchWrite, TLAPS, FiniteSetTheorems, WellFoundedInduction

-----------------------------------------------------------------------------
(* Induction and recursion over the naturals.                              *)

LEMMA LeastNumber ==
  ASSUME NEW T, T \subseteq Nat, T # {}
  PROVE  \E m \in T : \A n \in T : m <= n
<1>1. \A x, y \in Nat : x < y => <<x, y>> \in OpToRel(<, Nat)
  BY DEF OpToRel
<1>2. \E R : /\ IsWellFoundedOn(R, Nat)
             /\ \A x, y \in Nat : x < y => <<x, y>> \in R
  BY <1>1, NatLessThanWellFounded, Zenon
<1>3. PICK R : /\ IsWellFoundedOn(R, Nat)
               /\ \A x, y \in Nat : x < y => <<x, y>> \in R
  BY <1>2
<1>4. IsWellFoundedOn(R, Nat)
  BY <1>3
<1>5. \E x \in T : \A y \in T : ~(<<y, x>> \in R)
  BY ONLY <1>4, T \subseteq Nat, T # {}, WFMin, Zenon
<1>6. PICK m \in T : \A n \in T : <<n, m>> \notin R
  BY <1>5
<1>7. \A n \in T : n \in Nat /\ m \in Nat /\ ~(n < m)
  BY <1>3, <1>6, Zenon
<1>8. \A n \in T : m <= n
  BY <1>7
<1> QED
  BY <1>8

\* What holds of 0, and of a number up to n if of the one before it.
LEMMA Induction ==
  ASSUME NEW n \in Nat, NEW S, 0 \in S, \A k \in 1..n : k - 1 \in S => k \in S
  PROVE  0..n \subseteq S
<1> SUFFICES ASSUME (0..n) \ S # {} PROVE FALSE
  OBVIOUS
<1>1. (0..n) \ S \subseteq Nat
  OBVIOUS
<1>2. PICK m \in (0..n) \ S : \A k \in (0..n) \ S : m <= k
  BY <1>1, LeastNumber
<1>3. m # 0 /\ m \in 1..n
  BY <1>2
<1>4. m - 1 \in 0..n /\ m - 1 < m
  BY <1>3
<1>5. m - 1 \in S
  BY <1>2, <1>4
<1> QED
  BY <1>2, <1>3, <1>5

\* f has x at 0 and next[k] gives its value at k from the one before.
Follow(f, n, x, next) ==
  /\ DOMAIN f = 0..n
  /\ f[0] = x
  /\ \A k \in 1..n : f[k] = next[k][f[k - 1]]

LEMMA Recursion ==
  ASSUME NEW n \in Nat, NEW P, NEW x, NEW next,
         x \in P[0], \A k \in 1..n : \A s \in P[k - 1] : next[k][s] \in P[k]
  PROVE  \E f : Follow(f, n, x, next) /\ \A k \in 0..n : f[k] \in P[k]
<1> DEFINE S == {k \in 0..n : \E f : Follow(f, k, x, next) /\ \A j \in 0..k : f[j] \in P[j]}
<1>1. 0 \in S
  <2> DEFINE f == [j \in 0..0 |-> x]
  <2>1. DOMAIN f = 0..0 /\ f[0] = x /\ \A j \in 0..0 : j = 0
    OBVIOUS
  <2> HIDE DEF f
  <2>2. Follow(f, 0, x, next) /\ \A j \in 0..0 : f[j] \in P[j]
    BY <2>1 DEF Follow
  <2> QED
    BY <2>2
<1>2. ASSUME NEW k \in 1..n, k - 1 \in S PROVE k \in S
  <2>1. PICK f : Follow(f, k - 1, x, next) /\ \A j \in 0..(k - 1) : f[j] \in P[j]
    BY <1>2
  <2> DEFINE g == [j \in 0..k |-> IF j = k THEN next[k][f[k - 1]] ELSE f[j]]
  <2>2. DOMAIN g = 0..k /\ g[k] = next[k][f[k - 1]] /\ \A j \in 0..(k - 1) : g[j] = f[j]
    OBVIOUS
  <2> HIDE DEF g
  <2>3. k - 1 \in 0..(k - 1) /\ 0 \in 0..(k - 1) /\ \A j \in 0..k : j = k \/ j \in 0..(k - 1)
    OBVIOUS
  <2>4. \A j \in 1..k : j = k \/ (j \in 1..(k - 1) /\ j \in 0..(k - 1) /\ j - 1 \in 0..(k - 1))
    OBVIOUS
  <2>5. g[0] = x
    BY <2>1, <2>2, <2>3 DEF Follow
  <2>6. \A j \in 1..k : g[j] = next[j][g[j - 1]]
    <3> SUFFICES ASSUME NEW j \in 1..k PROVE g[j] = next[j][g[j - 1]]
      OBVIOUS
    <3>1. CASE j = k
      BY <2>2, <2>3, <3>1
    <3>2. CASE j # k
      BY <2>1, <2>2, <2>4, <3>2 DEF Follow
    <3> QED
      BY <3>1, <3>2
  <2>7. g[k] \in P[k]
    BY <2>1, <2>2, <2>3
  <2>8. \A j \in 0..k : g[j] \in P[j]
    BY <2>1, <2>2, <2>3, <2>7
  <2>9. Follow(g, k, x, next)
    BY <2>2, <2>5, <2>6 DEF Follow
  <2> QED
    BY <2>8, <2>9
<1> HIDE DEF S
<1>3. 0..n \subseteq S
  BY <1>1, <1>2, Induction
<1>4. n \in S
  BY <1>3
<1> QED
  BY <1>4 DEF S

\* There is only one such function.
LEMMA Same ==
  ASSUME NEW n \in Nat, NEW f, NEW g, DOMAIN f = 0..n, DOMAIN g = 0..n, f[0] = g[0],
         \A k \in 1..n : f[k - 1] = g[k - 1] => f[k] = g[k]
  PROVE  \A k \in 0..n : f[k] = g[k]
<1> DEFINE S == {k \in 0..n : f[k] = g[k]}
<1>1. 0 \in S
  OBVIOUS
<1>2. \A k \in 1..n : k - 1 \in S => k \in S
  OBVIOUS
<1> HIDE DEF S
<1>3. 0..n \subseteq S
  BY <1>1, <1>2, Induction
<1> QED
  BY <1>3 DEF S

-----------------------------------------------------------------------------
(* The names of a request.                                                 *)

\* Numbers that rise, and numbers that do not fall.
Rising(s) == \A l, m \in 1..Len(s) : l < m => s[l] < s[m]

Ordered(es, k) == \A i, j \in 1..k : i < j => es[i] <= es[j]

\* s has the first k of the entries es, each once, in their order.
NamesFit(s, E, es, k) ==
  /\ s \in Seq(E)
  /\ \A j \in 1..k : \E l \in 1..Len(s) : s[l] = es[j]
  /\ \A l \in 1..Len(s) : \E j \in 1..k : s[l] = es[j]
  /\ \A l, m \in 1..Len(s) : s[l] = s[m] => l = m
  /\ Ordered(es, k) => Rising(s)

LEMMA NameAdded ==
  ASSUME NEW E, E \subseteq Int, NEW es, NEW k \in Nat \ {0}, es[k] \in E, NEW s, NamesFit(s, E, es, k - 1)
  PROVE  NamesFit(AddName(s, es[k]), E, es, k)
<1>1. s \in Seq(E)
  BY DEF NamesFit
<1>2. \A j \in 1..k : j = k \/ j \in 1..(k - 1)
  OBVIOUS
<1>3. k \in 1..k /\ \A j \in 1..(k - 1) : j \in 1..k
  OBVIOUS
<1>4. Ordered(es, k) => Ordered(es, k - 1) /\ \A j \in 1..(k - 1) : es[j] <= es[k]
  <2>1. \A j \in 1..(k - 1) : j < k
    OBVIOUS
  <2> QED
    BY <1>3, <2>1, Zenon DEF Ordered
<1>5. CASE Contains(s, es[k])
  <2>1. AddName(s, es[k]) = s
    BY <1>5 DEF AddName
  <2>2. \A j \in 1..k : \E l \in 1..Len(s) : s[l] = es[j]
    BY <1>2, <1>5, Zenon DEF NamesFit, Contains
  <2>3. NamesFit(s, E, es, k)
    BY <1>3, <1>4, <2>2, Zenon DEF NamesFit
  <2> QED
    BY <2>1, <2>3
<1>6. CASE ~Contains(s, es[k])
  <2> DEFINE t == Append(s, es[k])
             n == Len(s)
  <2>1. AddName(s, es[k]) = t
    BY <1>6 DEF AddName
  <2>2. n \in Nat /\ t \in Seq(E) /\ Len(t) = n + 1 /\ t[n + 1] = es[k] /\ \A l \in 1..n : t[l] = s[l]
    BY <1>1
  <2>3. \A l \in 1..n : s[l] # es[k]
    BY <1>6 DEF Contains
  <2> HIDE DEF t
  <2>4. \A l \in 1..Len(t) : l = n + 1 \/ l \in 1..n
    BY <2>2
  <2>5. n + 1 \in 1..Len(t) /\ \A l \in 1..n : l \in 1..Len(t)
    BY <2>2
  <2>6. \A j \in 1..k : \E l \in 1..Len(t) : t[l] = es[j]
    <3> SUFFICES ASSUME NEW j \in 1..k PROVE \E l \in 1..Len(t) : t[l] = es[j]
      OBVIOUS
    <3>1. CASE j = k
      BY <2>2, <2>5, <3>1
    <3>2. CASE j \in 1..(k - 1)
      <4>1. PICK l \in 1..n : s[l] = es[j]
        BY <3>2 DEF NamesFit
      <4> QED
        BY <2>2, <2>5, <4>1
    <3> QED
      BY <1>2, <3>1, <3>2
  <2>7. \A l \in 1..Len(t) : \E j \in 1..k : t[l] = es[j]
    <3> SUFFICES ASSUME NEW l \in 1..Len(t) PROVE \E j \in 1..k : t[l] = es[j]
      OBVIOUS
    <3>1. CASE l = n + 1
      BY <1>3, <2>2, <3>1
    <3>2. CASE l \in 1..n
      <4>1. PICK j \in 1..(k - 1) : s[l] = es[j]
        BY <3>2 DEF NamesFit
      <4> QED
        BY <1>3, <2>2, <3>2, <4>1
    <3> QED
      BY <2>4, <3>1, <3>2
  <2>8. \A l, m \in 1..Len(t) : t[l] = t[m] => l = m
    <3> SUFFICES ASSUME NEW l \in 1..Len(t), NEW m \in 1..Len(t), t[l] = t[m] PROVE l = m
      OBVIOUS
    <3>1. CASE l \in 1..n /\ m \in 1..n
      BY <2>2, <3>1 DEF NamesFit
    <3>2. CASE l = n + 1 /\ m \in 1..n
      BY <2>2, <2>3, <3>2
    <3>3. CASE l \in 1..n /\ m = n + 1
      BY <2>2, <2>3, <3>3
    <3> QED
      BY <2>4, <3>1, <3>2, <3>3
  <2>9. ASSUME Ordered(es, k), NEW l \in 1..Len(t), NEW m \in 1..Len(t), l < m
         PROVE  t[l] < t[m]
    <3>1. l \in 1..n
      BY <2>2, <2>9
    <3>2. CASE m \in 1..n
      BY <1>4, <2>2, <2>9, <3>1, <3>2, Zenon DEF NamesFit, Rising
    <3>3. CASE m = n + 1
      <4>1. PICK j \in 1..(k - 1) : s[l] = es[j]
        BY <3>1 DEF NamesFit
      <4>2. s[l] \in Int /\ es[k] \in Int /\ s[l] <= es[k] /\ s[l] # es[k]
        <5>1. s[l] \in E /\ es[k] \in E
          BY <1>1, <3>1
        <5>2. es[j] <= es[k]
          BY <1>4, <2>9, Zenon
        <5>3. s[l] # es[k]
          BY <2>3, <3>1, Zenon
        <5> QED
          BY <4>1, <5>1, <5>2, <5>3
      <4> QED
        BY <2>2, <3>1, <3>3, <4>2
    <3> QED
      BY <2>4, <3>2, <3>3
  <2>10. Ordered(es, k) => Rising(t)
    BY <2>9 DEF Rising
  <2>11. NamesFit(t, E, es, k)
    BY <2>2, <2>6, <2>7, <2>8, <2>10 DEF NamesFit
  <2> QED
    BY <2>1, <2>11
<1> QED
  BY <1>5, <1>6

LEMMA EntriesAreNumbers == Entry \subseteq Int
BY DEF Entry

\* The entry of the k-th record of an order.
EntryAt(o, default) == [k \in 1..Len(o) |-> RecordEntry(recs[o[k]], default)]

LEMMA NamesOf ==
  ASSUME NEW o, Len(o) \in Nat, NEW default, NEW E, E \subseteq Int,
         \A k \in 1..Len(o) : EntryAt(o, default)[k] \in E
  PROVE  NamesFit(Names(o, default), E, EntryAt(o, default), Len(o))
<1> DEFINE n    == Len(o)
           es   == EntryAt(o, default)
           P    == [k \in 0..n |-> {s \in Seq(E) : NamesFit(s, E, es, k)}]
           next == [k \in 1..n |-> [s \in Seq(E) |-> AddName(s, es[k])]]
<1>1. \A k \in 1..n : es[k] = RecordEntry(recs[o[k]], default)
  BY DEF EntryAt
<1> HIDE DEF es
<1>2. <<>> \in P[0]
  <2>1. NamesFit(<<>>, E, es, 0)
    BY DEF NamesFit, Rising
  <2> QED
    BY <2>1
<1>3. \A k \in 0..n : \A s : s \in P[k] <=> NamesFit(s, E, es, k)
  BY DEF NamesFit
<1>4. \A k \in 1..n, s \in Seq(E) : next[k][s] = AddName(s, es[k])
  OBVIOUS
<1>5. \A k \in 1..n : k - 1 \in 0..n /\ k \in 0..n /\ k \in Nat \ {0} /\ k # 0
  OBVIOUS
<1> HIDE DEF P, next
<1>6. \A k \in 1..n : \A s \in P[k - 1] : next[k][s] \in P[k]
  <2> SUFFICES ASSUME NEW k \in 1..n, NEW s \in P[k - 1] PROVE next[k][s] \in P[k]
    OBVIOUS
  <2>1. NamesFit(s, E, es, k - 1)
    BY <1>3, <1>5, Zenon
  <2>2. NamesFit(s, E, es, k - 1) /\ s \in Seq(E)
    BY <2>1 DEF NamesFit
  <2>3. NamesFit(AddName(s, es[k]), E, es, k)
    BY <1>5, <2>2, NameAdded DEF es
  <2> QED
    BY <1>3, <1>4, <1>5, <2>2, <2>3
<1>7. n \in Nat
  OBVIOUS
<1> HIDE DEF n
<1>8. PICK f : Follow(f, n, <<>>, next) /\ \A k \in 0..n : f[k] \in P[k]
  BY <1>2, <1>6, <1>7, Recursion
<1>9. \A k \in 0..n : NamesFit(f[k], E, es, k)
  BY <1>3, <1>8
<1>10. /\ DOMAIN f = 0..n /\ f[0] = <<>>
       /\ \A k \in 1..n : f[k] = AddName(f[k - 1], es[k])
  <2>1. \A k \in 1..n : f[k - 1] \in Seq(E)
    BY <1>5, <1>9 DEF NamesFit
  <2> QED
    BY <1>4, <1>8, <2>1 DEF Follow
<1> DEFINE h(g) == [k \in 0..n |-> IF k = 0 THEN <<>> ELSE AddName(g[k - 1], RecordEntry(recs[o[k]], default))]
           names == CHOOSE g : g = h(g)
<1>11. Names(o, default) = names[n]
  BY DEF Names, n
<1> DEFINE f1 == [k \in 0..n |-> f[k]]
<1>12. f1 = h(f1)
  <2>1. \A k \in 0..n : f1[k] = IF k = 0 THEN <<>> ELSE AddName(f1[k - 1], RecordEntry(recs[o[k]], default))
    <3> SUFFICES ASSUME NEW k \in 0..n
                 PROVE  f1[k] = IF k = 0 THEN <<>> ELSE AddName(f1[k - 1], RecordEntry(recs[o[k]], default))
      OBVIOUS
    <3>1. CASE k = 0
      BY <1>10, <3>1
    <3>2. CASE k # 0
      <4>1. k \in 1..n /\ k - 1 \in 0..n
        BY <1>7, <3>2
      <4> QED
        BY <1>1, <1>10, <3>2, <4>1 DEF n
    <3> QED
      BY <3>1, <3>2
  <2> QED
    BY <2>1
<1>13. names = h(names)
  BY <1>12, Zenon
<1> HIDE DEF names
<1>14. DOMAIN names = 0..n /\ names[0] = <<>>
  BY <1>7, <1>13
<1>15. \A k \in 1..n : names[k] = AddName(names[k - 1], es[k])
  <2> SUFFICES ASSUME NEW k \in 1..n PROVE names[k] = AddName(names[k - 1], es[k])
    OBVIOUS
  <2>1. k \in 0..n /\ k # 0
    BY <1>7
  <2>2. names[k] = AddName(names[k - 1], RecordEntry(recs[o[k]], default))
    BY <1>13, <2>1
  <2> QED
    BY <1>1, <2>2 DEF n
<1>16. \A k \in 0..n : f[k] = names[k]
  BY <1>7, <1>10, <1>14, <1>15, Same
<1>17. n \in 0..n
  BY <1>7
<1> QED
  BY <1>9, <1>11, <1>16, <1>17 DEF n, es

-----------------------------------------------------------------------------
(* The parts of a request.                                                 *)

LEMMA FirstIsNamed ==
  ASSUME Len(recs) \in Nat, Named # {}
  PROVE  FirstNamed \in 1..Len(recs) /\ recs[FirstNamed].entry # Unnamed
<1>1. Named \subseteq Nat
  BY DEF Named
<1>2. \E i \in Named : \A j \in Named : i <= j
  BY <1>1, LeastNumber, Zenon
<1>3. FirstNamed \in Named
  BY <1>2, Zenon DEF FirstNamed
<1> QED
  BY <1>3 DEF Named

LEMMA StartIsEarliest ==
  ASSUME Len(recs) \in Nat, Len(recs) # 0, \A i \in 1..Len(recs) : recs[i].ts \in Nat, NEW o
  PROVE  StartTime(o) \in Nat /\ \A i \in 1..Len(recs) : StartTime(o) <= recs[i].ts
<1> DEFINE T == {recs[i].ts : i \in 1..Len(recs)}
<1>1. T \subseteq Nat
  OBVIOUS
<1>2. T # {}
  BY 1 \in 1..Len(recs)
<1>3. \E t \in T : \A n \in T : t <= n
  BY <1>1, <1>2, LeastNumber, Zenon
<1>4. \E t \in T : \A i \in 1..Len(recs) : t <= recs[i].ts
  BY <1>3
<1>5. StartTime(o) \in T /\ \A i \in 1..Len(recs) : StartTime(o) <= recs[i].ts
  BY <1>4, Zenon DEF StartTime
<1> QED
  BY <1>1, <1>5

\* A header describes the first record with its key.
LEMMA HeaderHasRecord ==
  ASSUME NEW o, Len(o) \in Nat, NEW names, NEW from, NEW default,
         NEW x \in DOMAIN HeadersOf(o, names, from, default)
  PROVE  \E k \in 1..Len(o) : /\ x = Key(o[k], names, from, default)
                              /\ HeadersOf(o, names, from, default)[x] = o[k]
<1> DEFINE key(k) == Key(o[k], names, from, default)
           T == {k \in 1..Len(o) : key(k) = x}
           first == CHOOSE k \in 1..Len(o) : key(k) = x /\ \A j \in 1..(k - 1) : key(j) # x
<1>1. x \in {key(k) : k \in 1..Len(o)}
  BY DEF HeadersOf
<1>2. HeadersOf(o, names, from, default)[x] = o[first]
  BY <1>1 DEF HeadersOf
<1>3. T # {} /\ T \subseteq Nat
  BY <1>1
<1>4. PICK k \in T : \A j \in T : k <= j
  BY <1>3, LeastNumber
<1>5. \A j \in 1..(k - 1) : j \notin T /\ j \in 1..Len(o)
  BY <1>4
<1>6. \E i \in 1..Len(o) : key(i) = x /\ \A j \in 1..(i - 1) : key(j) # x
  BY <1>4, <1>5, Zenon
<1>7. first \in 1..Len(o) /\ key(first) = x
  BY <1>6, Zenon
<1> HIDE DEF first
<1> QED
  BY <1>2, <1>7

LEMMA Permutation ==
  ASSUME Len(recs) \in Nat, NEW default, NEW byEntry, NEW o \in SortRecords(default, byEntry)
  PROVE  /\ o \in Seq(1..Len(recs))
         /\ Len(o) = Len(recs)
         /\ \A i, j \in 1..Len(o) : o[i] = o[j] => i = j
<1>1. Cardinality(1..Len(recs)) = Len(recs)
  BY FS_Interval, SMTT(30)
<1>2. o \in SetToSeqs(1..Len(recs))
  BY DEF SortRecords, SortedBy
<1>3. o \in [1..Len(recs) -> 1..Len(recs)] /\ \A i, j \in 1..Len(recs) : o[i] = o[j] => i = j
  BY <1>1, <1>2 DEF SetToSeqs
<1> QED
  BY <1>3

-----------------------------------------------------------------------------
(* The slices of the body.                                                 *)

\* The data of the first k records in the order f, sizes sz.
Part(i, sz) == {i} \X (1..sz[i])

Data(f, sz, k) == UNION {Part(f[j], sz) : j \in 1..k}

LEMMA InData ==
  ASSUME NEW f, NEW sz, NEW k, NEW x
  PROVE  x \in Data(f, sz, k) <=> \E j \in 1..k : x \in Part(f[j], sz)
BY DEF Data

LEMMA Numbers ==
  ASSUME NEW s \in Nat, NEW c, c = IF 1 > s THEN 0 ELSE s - 1 + 1
  PROVE  c = s
OBVIOUS

LEMMA Disjoint ==
  ASSUME NEW d \in Nat, NEW s \in Nat
  PROVE  d + s - 0 = d + s
OBVIOUS

AddsUp(ends, n, f, sz) ==
  ends[0] = 0 /\ \A k \in 1..n : ends[k] = ends[k - 1] + sz[f[k]]

OneToOne(n, f) == f \in [1..n -> 1..n] /\ \A i, j \in 1..n : f[i] = f[j] => i = j

\* Adding the sizes in any order counts the data.
LEMMA SumOfSizes ==
  ASSUME NEW n \in Nat, NEW f, OneToOne(n, f), NEW sz \in [1..n -> Nat],
         NEW ends, AddsUp(ends, n, f, sz)
  PROVE  \A k \in 0..n : ends[k] = Cardinality(Data(f, sz, k))
<1> USE DEF OneToOne, AddsUp
<1> DEFINE S == {k \in 0..n : /\ IsFiniteSet(Data(f, sz, k))
                              /\ Cardinality(Data(f, sz, k)) = ends[k]}
<1>1. 0 \in S
  <2>1. Data(f, sz, 0) = {}
    BY DEF Data
  <2>2. IsFiniteSet({}) /\ Cardinality({}) = 0
    BY FS_EmptySet
  <2>3. 0 \in 0..n
    OBVIOUS
  <2> QED
    BY <2>1, <2>2, <2>3, Zenon
<1>2. ASSUME NEW k \in 1..n, k - 1 \in S PROVE k \in S
  <2> DEFINE D == Data(f, sz, k - 1)
             R == Part(f[k], sz)
  <2>1. \A j \in 1..k : j = k \/ j \in 1..(k - 1)
    OBVIOUS
  <2>2. k \in 1..k /\ (\A j \in 1..(k - 1) : j \in 1..k /\ j \in 1..n /\ j # k)
    OBVIOUS
  <2>3. Data(f, sz, k) = D \cup R
    <3>1. \A x : x \in Data(f, sz, k) => x \in D \cup R
      BY <2>1, InData, Zenon
    <3>2. \A x : x \in D \cup R => x \in Data(f, sz, k)
      BY <2>2, InData, Zenon
    <3> QED
      BY <3>1, <3>2
  <2>4. \A x : ~(x \in D /\ x \in R)
    <3> SUFFICES ASSUME NEW x, x \in D, x \in R PROVE FALSE
      OBVIOUS
    <3>1. PICK j \in 1..(k - 1) : x \in Part(f[j], sz)
      BY InData, Zenon
    <3>2. f[j] = f[k]
      BY <3>1 DEF Part
    <3> QED
      BY <2>2, <3>2
  <2>5. D \cap R = {}
    BY <2>4
  <2>6. sz[f[k]] \in Nat
    OBVIOUS
  <2>7. IsFiniteSet(R) /\ Cardinality(R) = sz[f[k]]
    <3>1. IsFiniteSet({f[k]}) /\ Cardinality({f[k]}) = 1
      BY FS_Singleton
    <3>2. IsFiniteSet(1..sz[f[k]]) /\ Cardinality(1..sz[f[k]]) = sz[f[k]]
      <4>1. sz[f[k]] \in Int /\ 1 \in Int
        BY <2>6
      <4>2. IsFiniteSet(1..sz[f[k]]) /\ Cardinality(1..sz[f[k]]) = IF 1 > sz[f[k]] THEN 0 ELSE sz[f[k]] - 1 + 1
        BY <4>1, FS_Interval, Zenon
      <4> QED
        BY <2>6, <4>2, Numbers, Zenon
    <3>3. IsFiniteSet(R) /\ Cardinality(R) = Cardinality({f[k]}) * Cardinality(1..sz[f[k]])
      BY <3>1, <3>2, FS_Product, Zenon DEF Part
    <3>4. Cardinality(R) = 1 * sz[f[k]]
      BY <3>1, <3>2, <3>3, Zenon
    <3> QED
      BY <2>6, <3>3, <3>4
  <2>8. k \in 0..n
    OBVIOUS
  <2>9. ends[k] = ends[k - 1] + sz[f[k]]
    OBVIOUS
  <2>10. IsFiniteSet(D) /\ Cardinality(D) = ends[k - 1]
    BY <1>2
  <2> HIDE DEF D, R
  <2>11. IsFiniteSet(D \cup R) /\ Cardinality(D \cup R) = Cardinality(D) + Cardinality(R) - Cardinality({})
    <3>1. Cardinality(D \cup R) = Cardinality(D) + Cardinality(R) - Cardinality(D \cap R) /\ IsFiniteSet(D \cup R)
      BY <2>7, <2>10, FS_Union
    <3> QED
      BY <2>5, <3>1, Zenon
  <2>12. Cardinality(D) \in Nat /\ Cardinality({}) = 0
    BY <2>10, FS_CardinalityType, FS_EmptySet
  <2>13. Cardinality(D \cup R) = Cardinality(D) + sz[f[k]]
    <3>1. Cardinality(D \cup R) = Cardinality(D) + sz[f[k]] - 0
      BY <2>7, <2>11, <2>12, Zenon
    <3>2. Cardinality(D) + sz[f[k]] - 0 = Cardinality(D) + sz[f[k]]
      BY <2>6, <2>12, Disjoint, Zenon
    <3> QED
      BY <3>1, <3>2, Zenon
  <2>14. Cardinality(D \cup R) = ends[k]
    BY <2>9, <2>10, <2>13, Zenon
  <2> QED
    BY <2>3, <2>8, <2>11, <2>14, Zenon
<1> HIDE DEF S
<1>3. 0..n \subseteq S
  BY <1>1, <1>2, Induction
<1> QED
  BY <1>3 DEF S

InTurn(n) == [k \in 1..n |-> k]

LEMMA SameSum ==
  ASSUME NEW n \in Nat, NEW f, OneToOne(n, f), NEW sz \in [1..n -> Nat],
         NEW ends, AddsUp(ends, n, f, sz), NEW all, AddsUp(all, n, InTurn(n), sz)
  PROVE  ends[n] = all[n]
<1> DEFINE id == InTurn(n)
<1>1. OneToOne(n, id) /\ \A k \in 1..n : id[k] = k
  BY DEF OneToOne, InTurn
<1>2. n \in 0..n
  OBVIOUS
<1>3. ends[n] = Cardinality(Data(f, sz, n))
  BY <1>2, SumOfSizes, Zenon
<1>4. all[n] = Cardinality(Data(id, sz, n))
  <2>1. OneToOne(n, id)
    BY <1>1
  <2>2. \A k \in 0..n : all[k] = Cardinality(Data(id, sz, k))
    BY <2>1, SumOfSizes, Zenon
  <2> QED
    BY <1>2, <2>2, Zenon
<1>5. IsFiniteSet(1..n)
  BY FS_Interval
<1>6. f \in Injection(1..n, 1..n)
  BY DEF Injection, IsInjective, OneToOne
<1>7. f \in Surjection(1..n, 1..n)
  BY <1>5, <1>6, FS_Injection
<1>8. \A i \in 1..n : \E j \in 1..n : f[j] = i
  BY <1>7 DEF Surjection
<1>9. Data(f, sz, n) = Data(id, sz, n)
  <2>1. \A x : x \in Data(f, sz, n) => x \in Data(id, sz, n)
    <3> SUFFICES ASSUME NEW x, x \in Data(f, sz, n) PROVE x \in Data(id, sz, n)
      OBVIOUS
    <3>1. PICK j \in 1..n : x \in Part(f[j], sz)
      BY InData, Zenon
    <3>2. f[j] \in 1..n /\ id[f[j]] = f[j]
      BY <1>1 DEF OneToOne
    <3> QED
      BY <3>1, <3>2, InData, Zenon
  <2>2. \A x : x \in Data(id, sz, n) => x \in Data(f, sz, n)
    <3> SUFFICES ASSUME NEW x, x \in Data(id, sz, n) PROVE x \in Data(f, sz, n)
      OBVIOUS
    <3>1. PICK i \in 1..n : x \in Part(id[i], sz)
      BY InData, Zenon
    <3>2. PICK j \in 1..n : f[j] = i
      BY <1>8
    <3>3. x \in Part(f[j], sz)
      BY <1>1, <3>1, <3>2, Zenon
    <3> QED
      BY <3>3, InData, Zenon
  <2> QED
    BY <2>1, <2>2
<1> QED
  BY <1>3, <1>4, <1>9

\* Size is the sum of the sizes.
LEMMA SizesAdd ==
  ASSUME Len(recs) \in Nat, \A i \in 1..Len(recs) : recs[i].size \in Nat
  PROVE  /\ Size \in Nat
         /\ Size = SizeOf[Len(recs)]
         /\ SizeOf[0] = 0
         /\ \A k \in 1..Len(recs) : SizeOf[k] = SizeOf[k - 1] + recs[k].size
<1> DEFINE n    == Len(recs)
           P    == [k \in 0..n |-> Nat]
           next == [k \in 1..n |-> [s \in Nat |-> s + recs[k].size]]
           h(g) == [k \in 0..n |-> IF k = 0 THEN 0 ELSE g[k - 1] + recs[k].size]
           total == CHOOSE g : g = h(g)
<1>1. SizeOf = total
  BY DEF SizeOf
<1>2. n \in Nat /\ \A k \in 1..n : k - 1 \in 0..n /\ k \in 0..n /\ k # 0
  OBVIOUS
<1>3. \A k \in 0..n : P[k] = Nat
  OBVIOUS
<1>4. \A k \in 1..n, s \in Nat : next[k][s] = s + recs[k].size
  OBVIOUS
<1>5. 0 \in P[0] /\ \A k \in 1..n : \A s \in P[k - 1] : next[k][s] \in P[k]
  OBVIOUS
<1>6. \A k \in 0..n : k = 0 \/ k \in 1..n
  OBVIOUS
<1> HIDE DEF P, next, n
<1>7. PICK f : Follow(f, n, 0, next) /\ \A k \in 0..n : f[k] \in P[k]
  BY <1>2, <1>5, Recursion
<1>8. /\ DOMAIN f = 0..n
      /\ f[0] = 0
      /\ \A k \in 1..n : f[k] = f[k - 1] + recs[k].size
  <2>1. DOMAIN f = 0..n /\ f[0] = 0 /\ \A k \in 1..n : f[k] = next[k][f[k - 1]]
    BY <1>7, Zenon DEF Follow
  <2>2. \A k \in 1..n : f[k - 1] \in Nat
    BY <1>2, <1>3, <1>7, Zenon
  <2> QED
    BY <1>4, <2>1, <2>2, Zenon
<1> DEFINE f1 == [k \in 0..n |-> f[k]]
<1>9. f1 = h(f1)
  <2>1. \A k \in 0..n : f1[k] = h(f1)[k]
    BY <1>2, <1>6, <1>8
  <2> QED
    BY <2>1
<1>10. total = h(total)
  BY <1>9, Zenon
<1> HIDE DEF total
<1>11. DOMAIN total = 0..n /\ total[0] = 0
  BY <1>2, <1>10
<1>12. \A k \in 1..n : total[k] = total[k - 1] + recs[k].size
  BY <1>2, <1>10
<1>13. \A k \in 0..n : f[k] = total[k]
  <2> DEFINE S == {k \in 0..n : f[k] = total[k]}
  <2>1. \A k : k \in S <=> k \in 0..n /\ f[k] = total[k]
    OBVIOUS
  <2> HIDE DEF S
  <2>2. 0 \in S
    BY <1>2, <1>8, <1>11, <2>1
  <2>3. n \in Nat
    BY <1>2
  <2>4. \A k \in 1..n : k - 1 \in S => k \in S
    BY <1>8, <1>12, <2>1, <2>3
  <2>5. 0..n \subseteq S
    BY <1>2, <2>2, <2>4, Induction, Zenon
  <2> QED
    BY <2>1, <2>5, Zenon
<1>14. total[n] \in Nat
  BY <1>2, <1>3, <1>7, <1>13
<1> QED
  BY <1>1, <1>11, <1>12, <1>14 DEF Size, n

\* The entry and time of record i are what its key stands for.
Stands(x, i, names, from, default) ==
  /\ x \in [idx : 1..Len(names), delta : Nat]
  /\ from + x.delta = recs[i].ts
  /\ names[x.idx] = RecordEntry(recs[i], default)

LEMMA KeyStands ==
  ASSUME NEW names \in Seq(Entry), NEW default, NEW from \in Nat, NEW i \in 1..Len(recs),
         recs[i].ts \in Nat, from <= recs[i].ts,
         \E l \in 1..Len(names) : names[l] = RecordEntry(recs[i], default)
  PROVE  Stands(Key(i, names, from, default), i, names, from, default)
<1> DEFINE l == CHOOSE l \in 1..Len(names) : names[l] = RecordEntry(recs[i], default)
           x == Key(i, names, from, default)
<1>1. l \in 1..Len(names) /\ names[l] = RecordEntry(recs[i], default)
  BY Zenon
<1>2. x = [idx |-> l, delta |-> recs[i].ts - from]
  BY DEF Key
<1> HIDE DEF l, x
<1>3. recs[i].ts - from \in Nat /\ from + (recs[i].ts - from) = recs[i].ts
  OBVIOUS
<1>4. x \in [idx : 1..Len(names), delta : Nat] /\ x.idx = l /\ x.delta = recs[i].ts - from
  BY <1>1, <1>2, <1>3
<1> QED
  BY <1>1, <1>3, <1>4 DEF Stands, x

\* Keys rise with the records of V2's order, or stay the same.
NotAfter(x, y) == x.idx < y.idx \/ (x.idx = y.idx /\ x.delta <= y.delta)

LEMMA KeysInOrder ==
  ASSUME NEW names \in Seq(Entry), NEW default, NEW byEntry \in BOOLEAN, NEW from \in Nat, NEW i, NEW j,
         recs[i].ts \in Nat, recs[j].ts \in Nat,
         NEW x, Stands(x, i, names, from, default), NEW y, Stands(y, j, names, from, default),
         ~Before(recs[j], recs[i], default, byEntry),
         IF byEntry THEN Rising(names) ELSE Len(names) <= 1
  PROVE  NotAfter(x, y)
<1> DEFINE a == x.idx
           b == y.idx
           c == x.delta
           d == y.delta
<1>1. /\ Len(names) \in Nat /\ a \in 1..Len(names) /\ b \in 1..Len(names)
      /\ c \in Nat /\ d \in Nat
      /\ names[a] \in Int /\ names[b] \in Int
  <2>1. x \in [idx : 1..Len(names), delta : Nat] /\ y \in [idx : 1..Len(names), delta : Nat]
    BY DEF Stands
  <2>2. a \in 1..Len(names) /\ b \in 1..Len(names) /\ c \in Nat /\ d \in Nat
    BY <2>1
  <2> HIDE DEF a, b
  <2>3. names[a] \in Entry /\ names[b] \in Entry
    BY <2>2
  <2>4. names[a] \in Int /\ names[b] \in Int
    BY <2>3, EntriesAreNumbers, Zenon
  <2>5. Len(names) \in Nat
    OBVIOUS
  <2> QED
    BY <2>2, <2>4, <2>5
<1>2. /\ from + c = recs[i].ts /\ from + d = recs[j].ts
      /\ names[a] = RecordEntry(recs[i], default) /\ names[b] = RecordEntry(recs[j], default)
  BY DEF Stands
<1>3. ~(byEntry /\ names[b] < names[a]) /\ ((byEntry => names[b] = names[a]) => ~(recs[j].ts < recs[i].ts))
  BY <1>2, Zenon DEF Before
<1> HIDE DEF a, b, c, d
<1>4. recs[j].ts < recs[i].ts \/ c <= d
  BY <1>1, <1>2
<1>5. a < b \/ (a = b /\ c <= d)
  <2>1. CASE ~byEntry
    BY <1>1, <1>3, <1>4, <2>1
  <2>2. CASE byEntry
    <3>1. \A l, m \in 1..Len(names) : l < m => names[l] < names[m]
      BY <2>2 DEF Rising
    <3>2. CASE a < b
      BY <3>2
    <3>3. CASE a = b
      BY <1>3, <1>4, <3>3
    <3>4. CASE b < a
      BY <1>1, <1>3, <2>2, <3>1, <3>4
    <3> QED
      BY <1>1, <3>2, <3>3, <3>4
  <2> QED
    BY <2>1, <2>2
<1> QED
  BY <1>5 DEF NotAfter, a, b, c, d

\* Sorted by entry, the entries do not fall.
LEMMA EntriesInOrder ==
  ASSUME Len(recs) \in Nat, NEW default, NEW o \in SortRecords(default, TRUE), Len(o) = Len(recs),
         \A k \in 1..Len(o) : EntryAt(o, default)[k] \in Entry
  PROVE  Ordered(EntryAt(o, default), Len(o))
<1> SUFFICES ASSUME NEW i \in 1..Len(o), NEW j \in 1..Len(o), i < j
             PROVE  EntryAt(o, default)[i] <= EntryAt(o, default)[j]
  BY DEF Ordered
<1>1. ~Before(recs[o[j]], recs[o[i]], default, TRUE)
  BY DEF SortRecords, SortedBy
<1>2. EntryAt(o, default)[i] = RecordEntry(recs[o[i]], default) /\ EntryAt(o, default)[j] = RecordEntry(recs[o[j]], default)
  BY DEF EntryAt
<1>3. ~(EntryAt(o, default)[j] < EntryAt(o, default)[i])
  BY <1>1, <1>2, Zenon DEF Before
<1>4. EntryAt(o, default)[i] \in Int /\ EntryAt(o, default)[j] \in Int
  BY EntriesAreNumbers
<1> QED
  BY <1>3, <1>4

\* The bytes of the records.
Byte == Nat \X Nat

\* Where the data of the k-th record in the order of the request ends.
Ends[k \in 0..Len(order)] == IF k = 0 THEN 0 ELSE Ends[k - 1] + recs[order[k]].size

\* The p-th byte of the data is that of the record and place where p lies.
ByteFits(b, p) ==
  \A j \in 1..Len(order) : \A m \in 1..recs[order[j]].size : Ends[j - 1] + m = p => b = <<order[j], m>>

\* The slice so far has taken the bytes from `offset` on.  As long as it has taken
\* nothing, it has skipped `skipped` bytes; then it stands where the next record
\* begins, unless it has its size.
SliceFits(p, offset, size, skipped) ==
  /\ p.out \in Seq(Byte)
  /\ p.offset \in Nat
  /\ p.size \in Nat
  /\ Len(p.out) + p.size = size
  /\ p.out = <<>> => p.size = size /\ p.offset + skipped = offset
  /\ p.out # <<>> => p.offset = 0 /\ (p.size = 0 \/ offset + Len(p.out) = skipped)
  /\ \A q \in 1..Len(p.out) : ByteFits(p.out[q], offset + q)

\* Where a slice of `size` bytes stands after it took n of the z bytes of a record.
LEMMA Taking ==
  ASSUME NEW offset \in Nat, NEW size \in Nat \ {0}, NEW skipped \in Nat, NEW z \in Nat,
         NEW got \in Nat, NEW skip \in Nat, NEW left \in Nat, got + left = size, skip < z,
         got = 0 => skip + skipped = offset,
         got # 0 => skip = 0 /\ (left = 0 \/ offset + got = skipped),
         NEW n, n = IF left < z - skip THEN left ELSE z - skip
  PROVE  /\ n \in Nat /\ skip + n <= z
         /\ got + n # 0
         /\ left - n \in Nat
         /\ (got + n) + (left - n) = size
         /\ left - n = 0 \/ offset + (got + n) = skipped + z
         /\ \A x \in 1..(got + n) :
              \/ x \in 1..got
              \/ /\ x - got \in 1..n
                 /\ got + (x - got) = x
                 /\ skip + (x - got) \in 1..z
                 /\ offset + x = skipped + (skip + (x - got))
<1>1. /\ n \in Nat /\ skip + n <= z /\ n <= left
      /\ got + n # 0
      /\ left - n \in Nat
      /\ (got + n) + (left - n) = size
  OBVIOUS
<1>2. left = 0 \/ offset + got = skipped + skip
  OBVIOUS
<1>3. left = n \/ n = z - skip
  OBVIOUS
<1>4. left = 0 => n = 0
  BY <1>1
<1>5. left - n = 0 \/ offset + (got + n) = skipped + z
  BY <1>1, <1>2, <1>3
<1>6. ASSUME NEW x \in 1..(got + n), x \notin 1..got
      PROVE  /\ x - got \in 1..n
             /\ got + (x - got) = x
             /\ skip + (x - got) \in 1..z
             /\ offset + x = skipped + (skip + (x - got))
  <2>1. n # 0 /\ offset + got = skipped + skip
    BY <1>1, <1>2, <1>4, <1>6
  <2> QED
    BY <1>1, <1>6, <2>1
<1> QED
  BY <1>1, <1>5, <1>6, Zenon

\* There are n elements of s after the first a, and u has them.
Within(S, s, a, n) == s \in Seq(S) /\ a \in Nat /\ n \in Nat /\ a + n <= Len(s)

Has(u, S, s, a, n) == u \in Seq(S) /\ Len(u) = n /\ \A r \in 1..n : u[r] = s[a + r]

LEMMA PieceHas ==
  ASSUME NEW S, NEW s, NEW a, NEW n, Within(S, s, a, n)
  PROVE  Has(SubSeq(s, a + 1, a + n), S, s, a, n)
<1>1. s \in Seq(S) /\ a \in Nat /\ n \in Nat /\ a + n <= Len(s)
  BY DEF Within
<1>2. Len(s) \in Nat /\ \A x \in 1..Len(s) : s[x] \in S
  BY <1>1
<1>3. \A r \in 1..n : a + r \in 1..Len(s)
  BY <1>1, <1>2
<1> DEFINE u == [r \in 1..n |-> s[a + r]]
<1>4. SubSeq(s, a + 1, a + n) = u
  <2>1. 1..((a + n) - (a + 1) + 1) = 1..n /\ \A r \in 1..n : r + (a + 1) - 1 = a + r
    BY <1>1
  <2> QED
    BY <1>1, <2>1
<1>5. u \in Seq(S) /\ Len(u) = n
  BY <1>1, <1>2, <1>3
<1>6. \A r \in 1..n : u[r] = s[a + r]
  OBVIOUS
<1> HIDE DEF u
<1> QED
  BY <1>4, <1>5, <1>6, Zenon DEF Has

\* u is s, then the n elements of t after the first a.
Joins(u, S, s, t, a, n) ==
  /\ u \in Seq(S)
  /\ Len(u) = Len(s) + n
  /\ \A x \in 1..Len(s) : u[x] = s[x]
  /\ \A r \in 1..n : u[Len(s) + r] = t[a + r]

LEMMA JoinHas ==
  ASSUME NEW S, NEW s, s \in Seq(S), NEW t, NEW a, NEW n, Within(S, t, a, n)
  PROVE  Joins(s \o SubSeq(t, a + 1, a + n), S, s, t, a, n)
<1> DEFINE u == SubSeq(t, a + 1, a + n)
           j == s \o u
<1>1. u \in Seq(S) /\ Len(u) = n /\ \A r \in 1..n : u[r] = t[a + r]
  <2>1. Has(u, S, t, a, n)
    BY PieceHas, Zenon
  <2> HIDE DEF u
  <2> QED
    BY <2>1, Zenon DEF Has
<1> HIDE DEF u
<1>2. u \in Seq(S) /\ Len(u) \in Nat /\ Len(s) \in Nat
  BY <1>1
<1>3. j \in Seq(S) /\ Len(j) = Len(s) + Len(u)
  BY ONLY <1>2, s \in Seq(S)
<1>4. \A x \in 1..Len(s) : j[x] = s[x]
  BY ONLY <1>2, s \in Seq(S)
<1>5. \A x \in 1..Len(u) : j[Len(s) + x] = u[x]
  BY ONLY <1>2, s \in Seq(S)
<1> HIDE DEF j
<1>6. Joins(j, S, s, t, a, n)
  BY <1>1, <1>3, <1>4, <1>5, Zenon DEF Joins
<1> QED
  BY <1>6, Zenon DEF j, u

LEMMA TakeFits ==
  ASSUME NEW offset \in Nat, NEW size \in Nat \ {0}, NEW skipped \in Nat,
         NEW p, SliceFits(p, offset, size, skipped),
         NEW i \in Nat, recs[i].size \in Nat, recs[i].data \in BOOLEAN, ~recs[i].data => recs[i].size = 0,
         \A l \in 1..recs[i].size : ByteFits(<<i, l>>, skipped + l)
  PROVE  SliceFits(Take(p, i), offset, size, skipped + recs[i].size)
<1> DEFINE z == recs[i].size
<1>1. z \in Nat
  OBVIOUS
<1>2. CASE ~recs[i].data
  <2>1. Take(p, i) = p /\ skipped + z = skipped
    BY <1>2 DEF Take
  <2> QED
    BY <2>1
<1>3. CASE recs[i].data /\ ~(p.offset < z)
  <2> DEFINE q == Progress(p.out, p.offset - z, p.size)
  <2>1. Take(p, i) = q
    BY <1>3, Zenon DEF Take
  <2>2. q.out = p.out /\ q.offset = p.offset - z /\ q.size = p.size
    BY DEF Progress
  <2> HIDE DEF q, z
  <2>3. SliceFits(q, offset, size, skipped + z)
    BY <1>1, <1>3, <2>2, SMTT(30) DEF SliceFits
  <2> QED
    BY <2>1, <2>3 DEF z
<1>4. CASE recs[i].data /\ p.offset < z
  <2> DEFINE rest == z - p.offset
             n == IF p.size < rest THEN p.size ELSE rest
             s == Bytes(i)
             out == p.out \o SubSeq(s, p.offset + 1, p.offset + n)
             q == Progress(out, 0, p.size - n)
  <2>1. Take(p, i) = q
    BY <1>4, Zenon DEF Take
  <2>2. q.out = out /\ q.offset = 0 /\ q.size = p.size - n
    BY DEF Progress
  <2>3. s \in Seq(Byte) /\ Len(s) = z
    <3>1. \A l \in 1..z : <<i, l>> \in Byte
      BY <1>1 DEF Byte
    <3>2. s = [l \in 1..z |-> <<i, l>>]
      BY DEF Bytes
    <3> HIDE DEF s, z
    <3> QED
      BY ONLY <1>1, <3>1, <3>2
  <2> HIDE DEF q, z, s
  <2>4. /\ p.out \in Seq(Byte) /\ p.offset \in Nat /\ p.size \in Nat
        /\ Len(p.out) + p.size = size
        /\ p.out = <<>> => p.size = size /\ p.offset + skipped = offset
        /\ p.out # <<>> => p.offset = 0 /\ (p.size = 0 \/ offset + Len(p.out) = skipped)
        /\ \A x \in 1..Len(p.out) : ByteFits(p.out[x], offset + x)
    BY Zenon DEF SliceFits
  <2>5. Len(p.out) \in Nat /\ (Len(p.out) = 0 <=> p.out = <<>>)
    BY <2>4
  <2>6. /\ n \in Nat /\ p.offset + n <= z
        /\ Len(p.out) + n # 0
        /\ p.size - n \in Nat
        /\ (Len(p.out) + n) + (p.size - n) = size
        /\ p.size - n = 0 \/ offset + (Len(p.out) + n) = skipped + z
        /\ \A x \in 1..(Len(p.out) + n) :
             \/ x \in 1..Len(p.out)
             \/ /\ x - Len(p.out) \in 1..n
                /\ Len(p.out) + (x - Len(p.out)) = x
                /\ p.offset + (x - Len(p.out)) \in 1..z
                /\ offset + x = skipped + (p.offset + (x - Len(p.out)))
    <3>1. p.offset < z
      BY <1>4 DEF z
    <3>2. n = IF p.size < z - p.offset THEN p.size ELSE z - p.offset
      OBVIOUS
    <3> DEFINE got  == Len(p.out)
               skip == p.offset
               left == p.size
    <3>3. /\ got \in Nat /\ skip \in Nat /\ left \in Nat /\ got + left = size /\ skip < z
          /\ got = 0 => skip + skipped = offset
          /\ got # 0 => skip = 0 /\ (left = 0 \/ offset + got = skipped)
          /\ n = IF left < z - skip THEN left ELSE z - skip
      BY <2>4, <2>5, <3>1, <3>2, Zenon
    <3> HIDE DEF n, got, skip, left
    <3> QED
      <4>1. /\ n \in Nat /\ skip + n <= z
            /\ got + n # 0
            /\ left - n \in Nat
            /\ (got + n) + (left - n) = size
            /\ left - n = 0 \/ offset + (got + n) = skipped + z
            /\ \A x \in 1..(got + n) :
                 \/ x \in 1..got
                 \/ /\ x - got \in 1..n
                    /\ got + (x - got) = x
                    /\ skip + (x - got) \in 1..z
                    /\ offset + x = skipped + (skip + (x - got))
        BY <1>1, <3>3, Taking
      <4> QED
        BY <4>1, Zenon DEF got, skip, left
  <2> HIDE DEF n
  <2>7. /\ out \in Seq(Byte) /\ Len(out) = Len(p.out) + n
        /\ \A x \in 1..Len(p.out) : out[x] = p.out[x]
        /\ \A r \in 1..n : out[Len(p.out) + r] = s[p.offset + r]
    <3>1. p.out \in Seq(Byte) /\ Within(Byte, s, p.offset, n)
      BY <2>3, <2>4, <2>6 DEF Within
    <3>2. Joins(out, Byte, p.out, s, p.offset, n)
      BY <3>1, JoinHas, Zenon
    <3> HIDE DEF out
    <3> QED
      BY <3>2, Zenon DEF Joins
  <2> HIDE DEF out
  <2>8. out # <<>> /\ 0 \in Nat
    BY <2>6, <2>7
  <2>9. ASSUME NEW x \in 1..Len(out) PROVE ByteFits(out[x], offset + x)
    <3>1. CASE x \in 1..Len(p.out)
      BY <2>4, <2>7, <3>1
    <3>2. CASE x \notin 1..Len(p.out)
      <4> DEFINE r == x - Len(p.out)
                 l == p.offset + r
      <4>1. r \in 1..n /\ x = Len(p.out) + r /\ l \in 1..z /\ offset + x = skipped + l
        BY <2>6, <2>7, <2>9, <3>2, Zenon
      <4> HIDE DEF r
      <4>2. out[x] = s[l]
        BY <2>7, <4>1, Zenon
      <4> HIDE DEF l
      <4>3. s[l] = <<i, l>>
        BY <4>1 DEF s, z, Bytes
      <4>4. ByteFits(<<i, l>>, skipped + l)
        BY <4>1 DEF z
      <4> QED
        BY <4>1, <4>2, <4>3, <4>4, Zenon
    <3> QED
      BY <3>1, <3>2
  <2>10. Len(out) + (p.size - n) = size /\ (p.size - n = 0 \/ offset + Len(out) = skipped + z)
    BY <2>6, <2>7, Zenon
  <2>11. SliceFits(q, offset, size, skipped + z)
    BY <2>2, <2>6, <2>7, <2>8, <2>9, <2>10, Zenon DEF SliceFits
  <2> QED
    BY <2>1, <2>11 DEF z
<1> QED
  BY <1>2, <1>3, <1>4

\* Every record has its turn once.
Permuted(o) ==
  /\ o \in Seq(1..Len(recs))
  /\ Len(o) = Len(recs)
  /\ \A i, j \in 1..Len(o) : o[i] = o[j] => i = j

Sized == \A i \in 1..Len(recs) : /\ recs[i].size \in Nat
                                 /\ recs[i].data \in BOOLEAN
                                 /\ ~recs[i].data => recs[i].size = 0

\* The sum of the sizes in the order of the request is Size.
LEMMA OrderAddsUp ==
  ASSUME Len(recs) \in Nat, Sized, Permuted(order)
  PROVE  /\ Ends[0] = 0
         /\ Ends[Len(order)] = Size
         /\ \A k \in 0..Len(order) : Ends[k] \in Nat
         /\ \A k \in 1..Len(order) : Ends[k] = Ends[k - 1] + recs[order[k]].size
<1> DEFINE n    == Len(recs)
           sz   == [i \in 1..n |-> recs[i].size]
           P    == [k \in 0..n |-> Nat]
           next == [k \in 1..n |-> [s \in Nat |-> s + sz[order[k]]]]
<1>1. n \in Nat /\ Len(order) = n /\ \A k \in 1..n : k - 1 \in 0..n
  BY DEF Permuted
<1>2. sz \in [1..n -> Nat] /\ \A i \in 1..n : sz[i] = recs[i].size
  BY DEF Sized
<1>3. OneToOne(n, order)
  BY DEF Permuted, OneToOne
<1>4. \A k \in 0..n : P[k] = Nat
  OBVIOUS
<1>5. \A k \in 1..n, s \in Nat : next[k][s] = s + sz[order[k]]
  OBVIOUS
<1> HIDE DEF P, next, n, sz
<1>6. \A k \in 1..n : order[k] \in 1..n /\ sz[order[k]] \in Nat
  BY <1>2, <1>3 DEF OneToOne
<1>7. 0 \in P[0] /\ \A k \in 1..n : \A s \in P[k - 1] : next[k][s] \in P[k]
  <2>1. \A k \in 1..n : \A s \in Nat : s + sz[order[k]] \in Nat
    BY <1>6
  <2>2. 0 \in 0..n /\ 0 \in Nat /\ \A k \in 1..n : k \in 0..n
    BY <1>1
  <2>3. \A k \in 0..n : \A s : s \in P[k] <=> s \in Nat
    BY <1>4
  <2>4. \A k \in 1..n : \A s \in Nat : next[k][s] \in Nat
    BY <1>5, <2>1, Zenon
  <2> QED
    BY <1>1, <2>2, <2>3, <2>4, Zenon
<1>8. PICK ends : Follow(ends, n, 0, next) /\ \A k \in 0..n : ends[k] \in P[k]
  BY <1>1, <1>7, Recursion
<1>9. /\ ends[0] = 0
      /\ \A k \in 0..n : ends[k] \in Nat
      /\ \A k \in 1..n : ends[k] = ends[k - 1] + sz[order[k]]
  BY <1>1, <1>4, <1>5, <1>8, ZenonT(60) DEF Follow
<1>10. AddsUp(ends, n, order, sz)
  BY <1>9, Zenon DEF AddsUp
<1>11. /\ Size = SizeOf[n] /\ SizeOf[0] = 0
       /\ \A k \in 1..n : SizeOf[k] = SizeOf[k - 1] + sz[k]
  BY <1>2, SizesAdd DEF Sized, n
<1>12. AddsUp(SizeOf, n, InTurn(n), sz)
  BY <1>11 DEF AddsUp, InTurn
<1>13. ends[n] = SizeOf[n]
  <2>1. n \in Nat /\ sz \in [1..n -> Nat]
    BY <1>1, <1>2, Zenon
  <2>2. \A all : AddsUp(all, n, InTurn(n), sz) => ends[n] = all[n]
    BY <1>3, <1>10, <2>1, SameSum
  <2> QED
    BY <1>12, <2>2, Zenon
<1>14. \A k \in 1..n : ends[k] = ends[k - 1] + recs[order[k]].size
  BY <1>2, <1>6, <1>9, Zenon
<1> DEFINE h(g) == [k \in 0..n |-> IF k = 0 THEN 0 ELSE g[k - 1] + recs[order[k]].size]
           total == CHOOSE g : g = h(g)
           f == [k \in 0..n |-> ends[k]]
<1>15. Ends = total
  BY <1>1 DEF Ends
<1>16. \A k \in 0..n : k = 0 \/ k \in 1..n
  BY <1>1
<1>17. f = h(f)
  <2>1. \A k \in 0..n : f[k] = h(f)[k]
    BY <1>1, <1>9, <1>14, <1>16
  <2> QED
    BY <2>1
<1>18. total = h(total)
  BY <1>17, Zenon
<1> HIDE DEF total
<1>19. DOMAIN total = 0..n /\ total[0] = 0
  BY <1>1, <1>18
<1>20. \A k \in 1..n : total[k] = total[k - 1] + recs[order[k]].size
  BY <1>1, <1>18
<1>21. \A k \in 0..n : ends[k] = total[k]
  <2> DEFINE S == {k \in 0..n : ends[k] = total[k]}
  <2>1. \A k : k \in S <=> k \in 0..n /\ ends[k] = total[k]
    OBVIOUS
  <2> HIDE DEF S
  <2>2. 0 \in S
    BY <1>1, <1>9, <1>19, <2>1
  <2>3. n \in Nat
    BY <1>1
  <2>4. \A k \in 1..n : k - 1 \in S => k \in S
    BY <1>14, <1>20, <2>1, <2>3
  <2>5. 0..n \subseteq S
    BY <2>2, <2>3, <2>4, Induction
  <2> QED
    BY <2>1, <2>5, Zenon
<1>22. n \in 0..n
  BY <1>1
<1>23. total[n] = Size /\ \A k \in 0..n : total[k] \in Nat
  BY <1>9, <1>11, <1>13, <1>21, <1>22, Zenon
<1> QED
  BY <1>1, <1>15, <1>19, <1>20, <1>23, Zenon

LEMMA EndsRise ==
  ASSUME Len(recs) \in Nat, Sized, Permuted(order),
         NEW i \in 0..Len(order), NEW j \in 0..Len(order), i <= j
  PROVE  Ends[i] <= Ends[j]
<1> DEFINE n == Len(order)
           S == {k \in 0..n : i <= k => Ends[i] <= Ends[k]}
<1>1. n \in Nat
  BY DEF Permuted
<1>2. /\ \A k \in 0..n : Ends[k] \in Nat
      /\ \A k \in 1..n : Ends[k] = Ends[k - 1] + recs[order[k]].size
  BY OrderAddsUp
<1>3. \A k \in 1..n : recs[order[k]].size \in Nat
  BY SMTT(30) DEF Permuted, Sized
<1>4. \A k \in 1..n : k - 1 \in 0..n /\ k \in 0..n /\ (i <= k => i <= k - 1 \/ i = k)
  BY <1>1
<1> HIDE DEF n
<1>5. \A k : k \in S <=> k \in 0..n /\ (i <= k => Ends[i] <= Ends[k])
  OBVIOUS
<1> HIDE DEF S
<1>6. i \in 0..n /\ j \in 0..n
  BY DEF n
<1>7. 0 \in S
  BY <1>1, <1>2, <1>5, <1>6
<1>8. ASSUME NEW k \in 1..n, k - 1 \in S PROVE k \in S
  <2> DEFINE a == Ends[i]
             b == Ends[k - 1]
             c == Ends[k]
             z == recs[order[k]].size
  <2>1. a \in Nat /\ b \in Nat /\ z \in Nat /\ c = b + z /\ (i <= k - 1 => a <= b)
    BY <1>2, <1>3, <1>4, <1>5, <1>6, <1>8, Zenon
  <2> HIDE DEF a, b, c, z
  <2>2. i <= k => a <= c
    <3>1. CASE i = k
      BY <2>1, <3>1 DEF a, c
    <3>2. CASE i <= k - 1
      BY <2>1, <3>2
    <3> QED
      BY <1>4, <3>1, <3>2
  <2> QED
    BY <1>4, <1>5, <2>2, Zenon DEF a, c
<1>9. 0..n \subseteq S
  BY <1>1, <1>7, <1>8, Induction
<1> QED
  BY <1>5, <1>6, <1>9

\* A byte of the data has one place.
LEMMA OnePlace ==
  ASSUME Len(recs) \in Nat, Sized, Permuted(order), NEW k \in 1..Len(order), NEW l \in 1..recs[order[k]].size
  PROVE  ByteFits(<<order[k], l>>, Ends[k - 1] + l)
<1> SUFFICES ASSUME NEW j \in 1..Len(order), NEW m \in 1..recs[order[j]].size, Ends[j - 1] + m = Ends[k - 1] + l
             PROVE  j = k /\ m = l
  BY Zenon DEF ByteFits
<1>1. Len(order) \in Nat
  BY DEF Permuted
<1>2. /\ Ends[k] = Ends[k - 1] + recs[order[k]].size
      /\ Ends[j] = Ends[j - 1] + recs[order[j]].size
      /\ Ends[k - 1] \in Nat /\ Ends[j - 1] \in Nat
      /\ recs[order[k]].size \in Nat /\ recs[order[j]].size \in Nat
  <2>1. \A x \in 1..Len(order) : order[x] \in 1..Len(recs)
    <3> DEFINE R == 1..Len(recs)
    <3>1. order \in Seq(R)
      BY DEF Permuted
    <3> HIDE DEF R
    <3>2. \A x \in 1..Len(order) : order[x] \in R
      BY <3>1
    <3> QED
      BY <3>2 DEF R
  <2>2. k - 1 \in 0..Len(order) /\ j - 1 \in 0..Len(order)
    BY <1>1
  <2> QED
    BY <2>1, <2>2, OrderAddsUp, Zenon DEF Sized
<1>3. j < k => Ends[j] <= Ends[k - 1]
  <2>1. j < k => j \in 0..Len(order) /\ k - 1 \in 0..Len(order) /\ j <= k - 1
    BY <1>1
  <2> QED
    BY <2>1, EndsRise, Zenon
<1>4. k < j => Ends[k] <= Ends[j - 1]
  <2>1. k < j => k \in 0..Len(order) /\ j - 1 \in 0..Len(order) /\ k <= j - 1
    BY <1>1
  <2> QED
    BY <2>1, EndsRise, Zenon
<1> DEFINE a == Ends[k - 1]
           b == Ends[j - 1]
           c == Ends[k]
           d == Ends[j]
           y == recs[order[k]].size
           z == recs[order[j]].size
<1>5. /\ a \in Nat /\ b \in Nat /\ y \in Nat /\ z \in Nat /\ c = a + y /\ d = b + z
      /\ b + m = a + l /\ l \in 1..y /\ m \in 1..z
      /\ (j < k => d <= a) /\ (k < j => c <= b)
  BY <1>2, <1>3, <1>4, Zenon
<1>6. j = k => b = a
  OBVIOUS
<1> HIDE DEF a, b, c, d, y, z
<1>7. ~(j < k) /\ ~(k < j)
  BY <1>5
<1>8. j = k
  BY <1>1, <1>7
<1> QED
  BY <1>5, <1>6, <1>8

\* A slice is no larger than it may be, and while the data has not ended it is
\* not empty.
LEMMA SliceFound ==
  ASSUME Len(recs) \in Nat, Sized, Permuted(order),
         NEW offset \in Nat, NEW size \in Nat \ {0}, offset < Size
  PROVE  /\ Slice(offset, size) \in Seq(Byte)
         /\ Slice(offset, size) # <<>>
         /\ Len(Slice(offset, size)) <= size
         /\ \A q \in 1..Len(Slice(offset, size)) : ByteFits(Slice(offset, size)[q], offset + q)
<1> DEFINE ends == Ends
<1>1. /\ ends[0] = 0
      /\ ends[Len(order)] = Size
      /\ \A k \in 0..Len(order) : ends[k] \in Nat
      /\ \A k \in 1..Len(order) : ends[k] = ends[k - 1] + recs[order[k]].size
  BY OrderAddsUp
<1>2. \A k \in 1..Len(order) : \A l \in 1..recs[order[k]].size : ByteFits(<<order[k], l>>, ends[k - 1] + l)
  BY OnePlace
<1> HIDE DEF ends
<1> DEFINE n    == Len(order)
           All  == [out : Seq(Byte), offset : Nat, size : Nat]
           P    == [k \in 0..n |-> {p \in All : SliceFits(p, offset, size, ends[k])}]
           next == [k \in 1..n |-> [p \in All |-> Take(p, order[k])]]
           x    == Progress(<<>>, offset, size)
           h(g) == [k \in 0..n |-> IF k = 0 THEN x ELSE Take(g[k - 1], order[k])]
           after == CHOOSE g : g = h(g)
<1>3. Taken(offset, size) = after[n].out
  BY DEF Taken
<1>4. n \in Nat /\ \A k \in 1..n : k - 1 \in 0..n /\ k \in 0..n /\ k # 0
  BY DEF Permuted
<1>5. \A k \in 0..n : \A p : p \in P[k] <=> p \in All /\ SliceFits(p, offset, size, ends[k])
  OBVIOUS
<1>6. \A k \in 1..n, p \in All : next[k][p] = Take(p, order[k])
  OBVIOUS
<1>7. x \in P[0]
  <2>1. SliceFits(x, offset, size, ends[0]) /\ x \in All
    BY <1>1 DEF SliceFits, Progress
  <2>2. 0 \in 0..n
    BY <1>4
  <2> HIDE DEF x, All, P
  <2> QED
    BY <1>5, <2>1, <2>2
<1>8. \A k \in 0..n : k = 0 \/ k \in 1..n
  OBVIOUS
<1>9. \A p, i : p \in All => Take(p, i) = p \/ \E o, a, b : Take(p, i) = Progress(o, a, b)
  BY ZenonT(60) DEF Take
<1> HIDE DEF P, next, x
<1>10. \A k \in 1..n : \A p \in P[k - 1] : next[k][p] \in P[k]
  <2> SUFFICES ASSUME NEW k \in 1..n, NEW p \in P[k - 1] PROVE next[k][p] \in P[k]
    OBVIOUS
  <2>1. p \in All /\ SliceFits(p, offset, size, ends[k - 1])
    BY <1>4, <1>5, Zenon
  <2>2. order[k] \in 1..Len(recs) /\ order[k] \in Nat
    BY SMTT(30) DEF Permuted
  <2>3. ends[k - 1] \in Nat
    BY <1>1, <1>4
  <2>4. SliceFits(Take(p, order[k]), offset, size, ends[k - 1] + recs[order[k]].size)
    <3>1. \A l \in 1..recs[order[k]].size : ByteFits(<<order[k], l>>, ends[k - 1] + l)
      BY <1>2 DEF n
    <3>2. recs[order[k]].size \in Nat /\ recs[order[k]].data \in BOOLEAN /\ (~recs[order[k]].data => recs[order[k]].size = 0)
      BY <2>2, Zenon DEF Sized
    <3> QED
      BY <2>1, <2>2, <2>3, <3>1, <3>2, TakeFits, Zenon
  <2>5. SliceFits(Take(p, order[k]), offset, size, ends[k])
    BY <1>1, <2>4, Zenon
  <2>6. Take(p, order[k]) \in All
    <3>1. CASE Take(p, order[k]) = p
      BY <2>1, <3>1
    <3>2. CASE \E o, a, b : Take(p, order[k]) = Progress(o, a, b)
      BY <2>5, <3>2 DEF SliceFits, Progress
    <3> QED
      BY <1>9, <2>1, <3>1, <3>2, Zenon
  <2> QED
    BY <1>4, <1>5, <1>6, <2>1, <2>5, <2>6, Zenon
<1> HIDE DEF n
<1>11. PICK f : Follow(f, n, x, next) /\ \A k \in 0..n : f[k] \in P[k]
  BY <1>4, <1>7, <1>10, Recursion
<1>12. DOMAIN f = 0..n /\ f[0] = x
  BY <1>11 DEF Follow
<1>13. \A k \in 1..n : f[k] = Take(f[k - 1], order[k])
  BY <1>4, <1>5, <1>6, <1>11, Zenon DEF Follow
<1> DEFINE f1 == [k \in 0..n |-> f[k]]
<1>14. f1 = h(f1)
  <2>1. \A k \in 0..n : f1[k] = h(f1)[k]
    BY <1>4, <1>8, <1>12, <1>13 DEF n
  <2> QED
    BY <2>1
<1>15. after = h(after)
  BY <1>14, Zenon
<1> HIDE DEF after
<1>16. DOMAIN after = 0..n /\ after[0] = x
  BY <1>4, <1>15
<1>17. \A k \in 1..n : after[k] = Take(after[k - 1], order[k])
  BY <1>4, <1>15
<1>18. \A k \in 0..n : f[k] = after[k]
  <2>1. \A k \in 1..n : f[k - 1] = after[k - 1] => f[k] = after[k]
    BY <1>13, <1>17, Zenon
  <2>2. n \in Nat /\ f[0] = after[0] /\ DOMAIN f = 0..n /\ DOMAIN after = 0..n
    BY <1>4, <1>12, <1>16
  <2> QED
    BY <2>1, <2>2, Same, SMTT(30)
<1>19. SliceFits(after[n], offset, size, Size)
  <2>1. n \in 0..n
    BY <1>4
  <2>2. SliceFits(f[n], offset, size, ends[n])
    BY <1>5, <1>11, <2>1, Zenon
  <2> QED
    BY <1>1, <1>18, <2>1, <2>2, Zenon DEF n
<1>20. Size \in Nat
  BY <1>1 DEF n, Permuted
<1>21. Slice(offset, size) = after[n].out
  BY <1>3, <1>20 DEF Slice
<1> QED
  BY <1>19, <1>20, <1>21 DEF SliceFits

-----------------------------------------------------------------------------
(* The invariant.                                                          *)

Record == [entry : Entry \cup {Unnamed}, ts : Times, size : Sizes \cup {0}, data : BOOLEAN]

Recorded == /\ recs \in Seq(Record)
            /\ \A i \in 1..Len(recs) : ~recs[i].data => recs[i].size = 0

\* A header's key stands for the entry and the time of its record.
HeadersFit ==
  \A k \in DOMAIN headers :
    /\ k \in [idx : 1..Len(entries), delta : Nat]
    /\ headers[k] \in 1..Len(recs)
    /\ start + k.delta = recs[headers[k]].ts
    /\ protocol = 2 => entries[k.idx] = Target(headers[k]).entry

\* The key of each record in the order of the request.
KeysFit(key) ==
  /\ key \in [1..Len(order) -> DOMAIN headers]
  /\ \A x \in DOMAIN headers : \E k \in 1..Len(order) : x = key[k] /\ headers[x] = order[k]
  /\ \A k \in 1..Len(order) : start + key[k].delta = recs[order[k]].ts
  /\ \A k \in 1..Len(order) : protocol = 2 => entries[key[k].idx] = Target(order[k]).entry
  /\ \A i, j \in 1..Len(order) : i < j => NotAfter(key[i], key[j])

BodyFits == \A p \in 1..Len(body) : ByteFits(body[p], p)

Requested ==
  /\ order \in Seq(1..Len(recs))
  /\ entries \in Seq(Entry)
  /\ protocol = 1 => Len(entries) <= 1
  /\ start \in Nat
  /\ HeadersFit

Chosen == /\ overload \in {"entry", "records"}
          /\ type \in Types
          /\ protocol \in Protocols

NotSent == /\ order = <<>> /\ entries = <<>> /\ start = 0 /\ headers = <<>>
           /\ body = <<>>
           /\ rejected = {}
           /\ result = "none"

Answered ==
  /\ phase \in {"building", "sending", "done"}
  /\ body \in Seq(Byte)
  /\ Len(body) <= ContentLength
  /\ rejected \subseteq DOMAIN headers
  /\ result \in {"none", "ok", "invalid", "failed"}
  /\ errors = IF result = "ok" THEN {ErrorOf(k) : k \in rejected} ELSE {}
  /\ phase = "building" => NotSent
  /\ phase = "sending" => result = "none"

\* What is being sent, or was.
Sent ==
  /\ phase = "sending" \/ result = "ok" => Permuted(order) /\ BodyFits /\ \E key : KeysFit(key)
  /\ result = "ok" => Len(body) = ContentLength

IInv == Chosen /\ Recorded /\ Requested /\ Answered /\ Sent

LEMMA Sizing ==
  ASSUME Recorded
  PROVE  /\ Len(recs) \in Nat
         /\ Sized
         /\ \A i \in 1..Len(recs) : recs[i].ts \in Nat /\ recs[i].entry \in Entry \cup {Unnamed}
         /\ ContentLength \in Nat
<1>1. Len(recs) \in Nat /\ \A i \in 1..Len(recs) : recs[i] \in Record
  BY DEF Recorded
<1>2. \A r \in Record : /\ r.entry \in Entry \cup {Unnamed} /\ r.ts \in Nat
                        /\ r.size \in Nat /\ r.data \in BOOLEAN
  <2>1. Times \subseteq Nat /\ Sizes \cup {0} \subseteq Nat
    BY BatchWriteAssumption
  <2> QED
    BY <2>1 DEF Record
<1>3. Len(recs) \in Nat /\ Sized
  BY <1>1, <1>2, Zenon DEF Recorded, Sized
<1>4. \A i \in 1..Len(recs) : recs[i].ts \in Nat /\ recs[i].entry \in Entry \cup {Unnamed}
  BY <1>1, <1>2, Zenon
<1>5. \A i \in 1..Len(recs) : recs[i].size \in Nat
  BY <1>3 DEF Sized
<1>6. Size \in Nat
  BY <1>3, <1>5, SizesAdd
<1> QED
  BY <1>3, <1>4, <1>6 DEF ContentLength

LEMMA BodyHasLength == Recorded => ContentLength \in Nat
BY Sizing

LEMMA InvHasType ==
  ASSUME IInv
  PROVE  TypeOK
<1> USE DEF IInv
<1>1. errors \subseteq [entry : Entry \cup {Unnamed}, ts : Nat]
  <2> SUFFICES ASSUME NEW k \in rejected, errors = {ErrorOf(j) : j \in rejected}
               PROVE  ErrorOf(k) \in [entry : Entry \cup {Unnamed}, ts : Nat]
    BY Zenon DEF Answered
  <2>1. k \in [idx : 1..Len(entries), delta : Nat]
    BY DEF Requested, Answered, HeadersFit
  <2>2. entries[k.idx] \in Entry /\ start + k.delta \in Nat
    BY <2>1 DEF Requested
  <2> QED
    BY <2>2 DEF ErrorOf
<1>2. recs \in Seq(Record)
  BY DEF Recorded
<1> QED
  BY <1>1, <1>2 DEF TypeOK, Chosen, Requested, Answered, HeadersFit, Record

LEMMA InitInv ==
  ASSUME Init
  PROVE  IInv
<1>1. Recorded
  BY DEF Init, Recorded
<1>2. Requested
  BY DEF Init, Requested, HeadersFit
<1>3. ContentLength \in Nat
  BY <1>1, Sizing
<1>4. Answered /\ Sent
  BY <1>3 DEF Init, Answered, Sent, NotSent
<1> QED
  BY <1>1, <1>2, <1>4 DEF Init, IInv, Chosen

-----------------------------------------------------------------------------
(* The steps.                                                              *)

\* A record more leaves the others as they are.
LEMMA AddRecordInv ==
  ASSUME IInv, AddRecord
  PROVE  IInv'
<1>1. PICK r \in Record : recs' = Append(recs, r) /\ (~r.data => r.size = 0)
  <2>1. PICK e \in Entry \cup {Unnamed}, t \in Times, n \in Sizes, data \in BOOLEAN :
           /\ ~data => n = 0
           /\ recs' = Append(recs, [entry |-> e, ts |-> t, size |-> n, data |-> data])
    BY Zenon DEF AddRecord
  <2>2. [entry |-> e, ts |-> t, size |-> n, data |-> data] \in Record
    BY DEF Record
  <2> QED
    BY <2>1, <2>2
<1>2. UNCHANGED <<overload, type, protocol, phase, order, entries, start, headers, body, rejected, result, errors>>
      /\ phase = "building"
  BY DEF AddRecord, request
<1>3. NotSent
  BY <1>2 DEF IInv, Answered
<1>4. Recorded'
  <2>1. recs \in Seq(Record) /\ \A i \in 1..Len(recs) : ~recs[i].data => recs[i].size = 0
    BY DEF IInv, Recorded
  <2>2. /\ recs' \in Seq(Record) /\ Len(recs') = Len(recs) + 1 /\ recs'[Len(recs) + 1] = r
        /\ \A i \in 1..Len(recs) : recs'[i] = recs[i]
    BY <1>1, <2>1
  <2>3. \A i \in 1..Len(recs') : i = Len(recs) + 1 \/ i \in 1..Len(recs)
    BY <2>1, <2>2
  <2>4. \A i \in 1..Len(recs') : ~recs'[i].data => recs'[i].size = 0
    BY <1>1, <2>1, <2>2, <2>3, Zenon
  <2> QED
    BY <2>2, <2>4 DEF Recorded
<1>5. Requested'
  BY <1>2, <1>3 DEF IInv, NotSent, Requested, HeadersFit
<1>6. ContentLength' \in Nat
  <2>1. (Recorded => ContentLength \in Nat)'
    BY BodyHasLength, PTL
  <2> QED
    BY <1>4, <2>1
<1>7. Answered' /\ Sent'
  <2>1. /\ NotSent' /\ Len(body') = 0 /\ errors' = {} /\ result' = "none" /\ phase' = "building"
        /\ rejected' = {} /\ body' = <<>>
    BY <1>2, <1>3 DEF IInv, Answered, NotSent
  <2> QED
    BY <1>6, <2>1 DEF Answered, Sent
<1>8. Chosen'
  BY <1>2 DEF IInv, Chosen
<1> QED
  BY <1>4, <1>5, <1>7, <1>8 DEF IInv

\* A request built from the names `names`, the start `from` and the names `path`
\* of its address.
LEMMA SendInv ==
  ASSUME IInv, phase = "building",
         UNCHANGED <<overload, type, protocol, recs, body, rejected>>,
         NEW default \in Entry \cup {Unnamed}, NEW byEntry \in BOOLEAN,
         NEW o \in SortRecords(default, byEntry),
         NEW from \in Nat, \A i \in 1..Len(recs) : from <= recs[i].ts,
         \A i \in 1..Len(recs) : RecordEntry(recs[i], default) \in Entry,
         NEW path \in Seq(Entry), protocol = 1 => Len(path) <= 1,
         Len(Names(o, default)) <= Len(path),
         ~byEntry => Len(Names(o, default)) <= 1,
         protocol = 2 => /\ path = Names(o, default)
                         /\ default = IF overload = "entry" THEN Given ELSE Unnamed,
         Send(o, Names(o, default), from, default, path)
  PROVE  IInv'
<1> DEFINE names == Names(o, default)
           H == HeadersOf(o, names, from, default)
           key == [k \in 1..Len(o) |-> Key(o[k], names, from, default)]
<1>1. Recorded /\ Chosen /\ Answered /\ NotSent
  BY DEF IInv, Answered
<1>2. Len(recs) \in Nat /\ ContentLength \in Nat /\ \A i \in 1..Len(recs) : recs[i].ts \in Nat
  BY <1>1, Sizing
<1>3. Permuted(o)
  BY <1>2, Permutation DEF Permuted
<1>4. Len(o) = Len(recs) /\ o \in Seq(1..Len(recs)) /\ \A k \in 1..Len(o) : o[k] \in 1..Len(recs)
  BY <1>2, <1>3 DEF Permuted
<1>5. \A k \in 1..Len(o) : EntryAt(o, default)[k] = RecordEntry(recs[o[k]], default)
  BY DEF EntryAt
<1>6. \A k \in 1..Len(o) : EntryAt(o, default)[k] \in Entry
  BY <1>4, <1>5, Zenon
<1>7. NamesFit(names, Entry, EntryAt(o, default), Len(o))
  <2>1. Len(o) \in Nat
    BY <1>2, <1>4
  <2> QED
    BY <1>6, <2>1, EntriesAreNumbers, NamesOf, Zenon
<1>8. names \in Seq(Entry) /\ \A k \in 1..Len(o) : \E l \in 1..Len(names) : names[l] = RecordEntry(recs[o[k]], default)
  BY <1>5, <1>7 DEF NamesFit
<1>9. IF byEntry THEN Rising(names) ELSE Len(names) <= 1
  <2>1. CASE byEntry
    <3>1. Ordered(EntryAt(o, default), Len(o))
      <4>1. o \in SortRecords(default, TRUE) /\ Len(recs) \in Nat /\ Len(o) = Len(recs)
        BY <1>2, <1>4, <2>1
      <4> QED
        BY <1>6, <4>1, EntriesInOrder, Zenon
    <3> QED
      BY <1>7, <2>1, <3>1, Zenon DEF NamesFit
  <2> QED
    BY <2>1
<1>10. /\ phase' = "sending" /\ order' = o /\ entries' = path /\ start' = from /\ headers' = H
       /\ result' = result /\ errors' = errors
  BY DEF Send
<1>11. Len(names) \in Nat /\ Len(path) \in Nat /\ Len(names) <= Len(path)
  BY <1>8
<1>12. protocol = 2 => names = path /\ \A i : RecordEntry(recs[i], default) = Target(i).entry
  BY DEF Target
<1>13. \A k \in 1..Len(o) : key[k] = Key(o[k], names, from, default)
  OBVIOUS
<1> HIDE DEF names
<1>14. \A k \in 1..Len(o) : Stands(key[k], o[k], names, from, default)
  BY <1>2, <1>4, <1>8, <1>13, KeyStands
<1>15. DOMAIN H = {key[k] : k \in 1..Len(o)}
  BY <1>13, Zenon DEF HeadersOf
<1>16. \A x \in DOMAIN H : \E k \in 1..Len(o) : x = key[k] /\ H[x] = o[k]
  <2>1. Len(o) \in Nat
    BY <1>2, <1>4
  <2> SUFFICES ASSUME NEW x \in DOMAIN H PROVE \E k \in 1..Len(o) : x = key[k] /\ H[x] = o[k]
    OBVIOUS
  <2>2. PICK k \in 1..Len(o) : x = Key(o[k], names, from, default) /\ H[x] = o[k]
    BY <2>1, HeaderHasRecord
  <2> QED
    BY <1>13, <2>2, Zenon
<1> HIDE DEF H, key
<1>17. \A k \in 1..Len(o) :
         /\ key[k] \in [idx : 1..Len(path), delta : Nat]
         /\ o[k] \in 1..Len(recs)
         /\ from + key[k].delta = recs[o[k]].ts
         /\ protocol = 2 => path[key[k].idx] = Target(o[k]).entry
  <2> SUFFICES ASSUME NEW k \in 1..Len(o)
               PROVE  /\ key[k] \in [idx : 1..Len(path), delta : Nat]
                      /\ from + key[k].delta = recs[o[k]].ts
                      /\ protocol = 2 => path[key[k].idx] = Target(o[k]).entry
    BY <1>4
  <2>1. Stands(key[k], o[k], names, from, default)
    BY <1>14
  <2>2. key[k] \in [idx : 1..Len(names), delta : Nat]
    BY <2>1 DEF Stands
  <2>3. key[k] \in [idx : 1..Len(path), delta : Nat]
    BY <1>11, <2>2
  <2> QED
    BY <1>12, <2>1, <2>3, Zenon DEF Stands
<1>18. HeadersFit'
  <2>1. \A x \in DOMAIN H :
          /\ x \in [idx : 1..Len(path), delta : Nat]
          /\ H[x] \in 1..Len(recs)
          /\ from + x.delta = recs[H[x]].ts
          /\ protocol = 2 => path[x.idx] = Target(H[x]).entry
    BY <1>16, <1>17, ZenonT(60)
  <2> QED
    BY <1>10, <2>1 DEF HeadersFit, Target
<1>19. Requested'
  BY <1>4, <1>10, <1>18 DEF Requested
<1>20. PICK w : w = key
  BY Zenon
<1>21. KeysFit(w)'
  <2>1. key \in [1..Len(o) -> DOMAIN H]
    BY <1>15 DEF key
  <2>2. \A i, j \in 1..Len(o) : i < j => NotAfter(key[i], key[j])
    <3> SUFFICES ASSUME NEW i \in 1..Len(o), NEW j \in 1..Len(o), i < j PROVE NotAfter(key[i], key[j])
      OBVIOUS
    <3>1. ~Before(recs[o[j]], recs[o[i]], default, byEntry)
      BY <1>4 DEF SortRecords, SortedBy
    <3>2. recs[o[i]].ts \in Nat /\ recs[o[j]].ts \in Nat
      BY <1>2, <1>4
    <3> QED
      BY <1>8, <1>9, <1>14, <3>1, <3>2, KeysInOrder, Zenon
  <2>3. /\ order' = o /\ headers' = H /\ start' = from /\ entries' = path /\ recs' = recs
        /\ protocol' = protocol /\ \A k : Target(o[k])' = Target(o[k])
    BY <1>10 DEF Target
  <2>4. (w \in [1..Len(order) -> DOMAIN headers])'
    BY <1>20, <2>1, <2>3
  <2>5. (\A x \in DOMAIN headers : \E k \in 1..Len(order) : x = w[k] /\ headers[x] = order[k])'
    BY <1>16, <1>20, <2>3
  <2>6. (\A k \in 1..Len(order) : start + w[k].delta = recs[order[k]].ts)'
    BY <1>17, <1>20, <2>3
  <2>7. (\A k \in 1..Len(order) : protocol = 2 => entries[w[k].idx] = Target(order[k]).entry)'
    BY <1>17, <1>20, <2>3
  <2>8. (\A i, j \in 1..Len(order) : i < j => NotAfter(w[i], w[j]))'
    BY <1>20, <2>2, <2>3
  <2> QED
    BY <2>4, <2>5, <2>6, <2>7, <2>8, Zenon DEF KeysFit
<1>22. ContentLength' = ContentLength /\ Permuted(o)' /\ Recorded' /\ Chosen'
  BY <1>1, <1>3 DEF ContentLength, Size, SizeOf, Permuted, Recorded, Chosen
<1>23. Answered'
  BY <1>1, <1>2, <1>10, <1>22 DEF Answered, NotSent
<1>24. Sent'
  <2>1. Permuted(order)'
    BY <1>10, <1>22 DEF Permuted
  <2>2. body' = <<>> /\ result' = "none"
    BY <1>1, <1>10 DEF NotSent
  <2>3. BodyFits'
    BY <2>2 DEF BodyFits
  <2> QED
    BY <1>21, <2>1, <2>2, <2>3 DEF Sent
<1> QED
  BY <1>19, <1>22, <1>23, <1>24 DEF IInv

\* The request is refused, or there is nothing to send.
LEMMA NotSentInv ==
  ASSUME IInv, phase = "building", UNCHANGED <<overload, type, protocol, recs, body, rejected, request>>,
         NEW r \in {"ok", "invalid"}, r = "ok" => recs = <<>>, Return(r, {})
  PROVE  IInv'
<1>1. Recorded /\ Chosen /\ Requested /\ Answered /\ NotSent
  BY DEF IInv, Answered
<1>2. UNCHANGED <<order, entries, start, headers>>
  BY DEF request
<1>3. Recorded' /\ Chosen' /\ Requested' /\ ContentLength' = ContentLength
  BY <1>1, <1>2 DEF Recorded, Chosen, Requested, HeadersFit, Target, ContentLength, Size, SizeOf
<1>4. Answered'
  BY <1>1, <1>2, <1>3 DEF Answered, NotSent, Return
<1>5. Sent'
  <2>1. phase' = "done" /\ result' = r /\ body' = <<>> /\ order' = <<>> /\ headers' = <<>> /\ recs' = recs
    BY <1>1, <1>2 DEF NotSent, Return
  <2>2. ASSUME r = "ok" PROVE Permuted(order)' /\ BodyFits' /\ KeysFit(<<>>)' /\ Len(body') = ContentLength'
    <3>1. Len(recs) = 0
      BY <2>2
    <3>2. Size = 0
      <4>1. Len(recs) \in Nat /\ \A i \in 1..Len(recs) : recs[i].size \in Nat
        BY <3>1
      <4>2. Size = SizeOf[Len(recs)] /\ SizeOf[0] = 0
        BY <4>1, SizesAdd
      <4> QED
        BY <3>1, <4>2
    <3>3. ContentLength' = 0
      BY <1>3, <3>2 DEF ContentLength
    <3>4. Permuted(order)'
      BY <2>1, <3>1 DEF Permuted
    <3>5. BodyFits'
      BY <2>1 DEF BodyFits
    <3>6. KeysFit(<<>>)'
      BY <2>1 DEF KeysFit
    <3> QED
      BY <2>1, <3>3, <3>4, <3>5, <3>6
  <2> QED
    BY <2>1, <2>2 DEF Sent
<1> QED
  BY <1>3, <1>4, <1>5 DEF IInv

\* V1's request: the records have one entry, whether or not it is the one given.
LEMMA ProcessV1Inv ==
  ASSUME IInv, phase = "building", protocol = 1,
         UNCHANGED <<overload, type, protocol, recs, body, rejected>>,
         NEW default \in Entry, ProcessBatchV1(default)
  PROVE  IInv'
<1> DEFINE unique == {RecordEntry(recs[i], default) : i \in 1..Len(recs)}
<1>1. /\ Len(recs) \in Nat
      /\ \A i \in 1..Len(recs) : recs[i].ts \in Nat /\ recs[i].entry \in Entry \cup {Unnamed}
  BY Sizing DEF IInv
<1>2. \A i \in 1..Len(recs) : RecordEntry(recs[i], default) \in Entry
  BY <1>1, Zenon DEF RecordEntry
<1>3. CASE Invalid
  <2>1. Return("invalid", {}) /\ UNCHANGED request
    BY <1>3 DEF Invalid
  <2> QED
    BY <2>1, NotSentInv, Zenon
<1>4. CASE /\ Cardinality(unique) <= 1
           /\ \E o \in SortRecords(default, FALSE) : Send(o, Names(o, default), 0, default, <<default>>)
  <2>1. PICK o \in SortRecords(default, FALSE) : Send(o, Names(o, default), 0, default, <<default>>)
    BY <1>4
  <2>2. \A x, y \in unique : x = y
    <3>1. IsFiniteSet(Entry)
      BY BatchWriteAssumption, FS_Interval DEF Entry
    <3>2. unique \in SUBSET Entry
      BY <1>2
    <3> HIDE DEF unique
    <3>3. IsFiniteSet(unique)
      BY <3>1, <3>2, FS_Subset
    <3>4. Cardinality(unique) \in Nat
      BY <3>3, FS_CardinalityType
    <3>5. Cardinality(unique) = 0 \/ Cardinality(unique) = 1
      BY <1>4, <3>4
    <3>6. unique = {} \/ \E x : unique = {x}
      BY <3>3, <3>5, FS_EmptySet, FS_Singleton, Zenon
    <3> QED
      BY <3>6
  <2>3. Len(o) \in Nat /\ \A k \in 1..Len(o) : o[k] \in 1..Len(recs)
    <3>1. o \in Seq(1..Len(recs)) /\ Len(o) = Len(recs)
      BY <1>1, Permutation
    <3> QED
      BY <1>1, <3>1
  <2>4. \A k \in 1..Len(o) : EntryAt(o, default)[k] \in unique /\ EntryAt(o, default)[k] \in Entry
    BY <1>2, <2>3 DEF EntryAt
  <2>5. NamesFit(Names(o, default), Entry, EntryAt(o, default), Len(o))
    BY <2>3, <2>4, EntriesAreNumbers, NamesOf, Zenon
  <2> HIDE DEF unique
  <2> DEFINE names == Names(o, default)
  <2>6. names \in Seq(Entry) /\ \A l, m \in 1..Len(names) : l = m
    BY <2>2, <2>4, <2>5 DEF NamesFit
  <2>7. Len(names) <= 1
    <3> HIDE DEF names
    <3>1. Len(names) \in Nat
      BY <2>6
    <3>2. ~(Len(names) > 1)
      <4> SUFFICES ASSUME Len(names) > 1 PROVE FALSE
        OBVIOUS
      <4>1. 1 \in 1..Len(names) /\ 2 \in 1..Len(names)
        BY <3>1
      <4> QED
        BY <2>6, <4>1
    <3> QED
      BY <3>1, <3>2
  <2>8. <<default>> \in Seq(Entry) /\ Len(<<default>>) = 1
    OBVIOUS
  <2>9. 0 \in Nat /\ \A i \in 1..Len(recs) : 0 <= recs[i].ts
    BY <1>1
  <2>10. protocol # 2 /\ default \in Entry \cup {Unnamed} /\ FALSE \in BOOLEAN
    OBVIOUS
  <2>11. Len(names) <= Len(<<default>>) /\ Len(<<default>>) <= 1
    BY <2>7, <2>8
  <2> QED
    BY <1>2, <2>1, <2>7, <2>8, <2>9, <2>10, <2>11, SendInv
<1> QED
  BY <1>3, <1>4 DEF ProcessBatchV1

\* V2's request: entries by index, times from the earliest.
LEMMA ProcessV2Inv ==
  ASSUME IInv, phase = "building", protocol = 2,
         UNCHANGED <<overload, type, protocol, recs, body, rejected>>,
         NEW default \in Entry \cup {Unnamed}, NEW requireEntry \in BOOLEAN,
         requireEntry \/ default \in Entry,
         default = IF overload = "entry" THEN Given ELSE Unnamed,
         ProcessBatchV2(default, requireEntry)
  PROVE  IInv'
<1>1. /\ Len(recs) \in Nat
      /\ \A i \in 1..Len(recs) : recs[i].ts \in Nat /\ recs[i].entry \in Entry \cup {Unnamed}
  BY Sizing DEF IInv
<1>2. CASE recs = <<>> /\ Return("ok", {}) /\ UNCHANGED request
  BY <1>2, NotSentInv, Zenon
<1>3. CASE Invalid
  <2>1. Return("invalid", {}) /\ UNCHANGED request
    BY <1>3 DEF Invalid
  <2> QED
    BY <2>1, NotSentInv, Zenon
<1>4. CASE /\ recs # <<>>
           /\ requireEntry => \A i \in 1..Len(recs) : recs[i].entry # Unnamed
           /\ \E o \in SortRecords(default, TRUE) :
                Send(o, Names(o, default), StartTime(o), default, Names(o, default))
  <2>1. PICK o \in SortRecords(default, TRUE) :
           Send(o, Names(o, default), StartTime(o), default, Names(o, default))
    BY <1>4
  <2>2. \A i \in 1..Len(recs) : RecordEntry(recs[i], default) \in Entry
    BY <1>1, <1>4, Zenon DEF RecordEntry
  <2>3. Len(recs) # 0
    BY <1>4 DEF IInv, Recorded
  <2>4. StartTime(o) \in Nat /\ \A i \in 1..Len(recs) : StartTime(o) <= recs[i].ts
    BY <1>1, <2>3, StartIsEarliest
  <2>5. Len(o) \in Nat /\ \A k \in 1..Len(o) : o[k] \in 1..Len(recs)
    <3>1. o \in Seq(1..Len(recs)) /\ Len(o) = Len(recs)
      BY <1>1, Permutation
    <3> QED
      BY <1>1, <3>1
  <2>6. \A k \in 1..Len(o) : EntryAt(o, default)[k] \in Entry
    BY <2>2, <2>5 DEF EntryAt
  <2>7. NamesFit(Names(o, default), Entry, EntryAt(o, default), Len(o))
    BY <2>5, <2>6, EntriesAreNumbers, NamesOf, Zenon
  <2>8. Names(o, default) \in Seq(Entry) /\ Len(Names(o, default)) <= Len(Names(o, default))
    <3> DEFINE names == Names(o, default)
    <3>1. names \in Seq(Entry)
      BY <2>7 DEF NamesFit
    <3> HIDE DEF names
    <3>2. Len(names) <= Len(names)
      BY <3>1
    <3> QED
      BY <3>1, <3>2 DEF names
  <2> QED
    <3>1. protocol = 1 => Len(Names(o, default)) <= 1
      OBVIOUS
    <3>2. /\ Names(o, default) = Names(o, default)
          /\ default = IF overload = "entry" THEN Given ELSE Unnamed
          /\ TRUE \in BOOLEAN
      OBVIOUS
    <3> QED
      BY <2>1, <2>2, <2>4, <2>8, <3>1, <3>2, SendInv, Zenon
<1> QED
  BY <1>2, <1>3, <1>4 DEF ProcessBatchV2

LEMMA ProcessBatchInv ==
  ASSUME IInv, ProcessBatch
  PROVE  IInv'
<1>1. phase = "building" /\ UNCHANGED <<overload, type, protocol, recs, body, rejected>>
  BY DEF ProcessBatch
<1>2. protocol \in {1, 2}
  BY BatchWriteAssumption DEF IInv, Chosen
<1>3. Given \in Entry
  BY BatchWriteAssumption DEF Given, Entry
<1>4. CASE EntryBatch
  <2>1. Given = IF overload = "entry" THEN Given ELSE Unnamed
    BY <1>4 DEF EntryBatch
  <2>2. CASE protocol = 2
    <3>1. ProcessBatchV2(Given, FALSE)
      BY <1>4, <2>2 DEF EntryBatch
    <3> QED
      BY <1>1, <1>3, <2>1, <2>2, <3>1, ProcessV2Inv
  <2>3. CASE protocol = 1
    <3>1. ProcessBatchV1(Given)
      BY <1>4, <2>3 DEF EntryBatch
    <3> QED
      BY <1>1, <1>3, <2>3, <3>1, ProcessV1Inv
  <2> QED
    BY <1>2, <2>2, <2>3
<1>5. CASE RecordsBatch
  <2>1. CASE recs = <<>> /\ Return("ok", {}) /\ UNCHANGED request
    BY <1>1, <2>1, NotSentInv, Zenon
  <2>2. CASE protocol = 2 /\ ProcessBatchV2(Unnamed, TRUE)
    <3>1. Unnamed = IF overload = "entry" THEN Given ELSE Unnamed
      BY <1>5 DEF RecordsBatch
    <3>2. Unnamed \in Entry \cup {Unnamed} /\ TRUE \in BOOLEAN
      OBVIOUS
    <3> QED
      BY <1>1, <2>2, <3>1, <3>2, ProcessV2Inv, Zenon
  <2>3. CASE Invalid
    <3>1. Return("invalid", {}) /\ UNCHANGED request
      BY <2>3 DEF Invalid
    <3> QED
      BY <1>1, <3>1, NotSentInv, Zenon
  <2>4. CASE protocol = 1 /\ Named # {} /\ ProcessBatchV1(recs[FirstNamed].entry)
    <3>1. /\ Len(recs) \in Nat
          /\ \A i \in 1..Len(recs) : recs[i].entry \in Entry \cup {Unnamed}
      BY Sizing DEF IInv
    <3>2. recs[FirstNamed].entry \in Entry
      BY <2>4, <3>1, FirstIsNamed
    <3> QED
      BY <1>1, <2>4, <3>2, ProcessV1Inv
  <2> QED
    BY <1>5, <2>1, <2>2, <2>3, <2>4, Zenon DEF RecordsBatch
<1> QED
  BY <1>4, <1>5 DEF ProcessBatch

\* The end of a request, its parts as they are.
LEMMA Kept ==
  ASSUME IInv, UNCHANGED <<overload, type, protocol, recs, request>>
  PROVE  /\ Recorded' /\ Chosen' /\ Requested'
         /\ ContentLength' = ContentLength
         /\ Permuted(order) => Permuted(order)'
         /\ \A key : KeysFit(key) => KeysFit(key)'
         /\ body' = body /\ BodyFits => BodyFits'
         /\ Ends' = Ends
         /\ \A k : (ErrorOf(k))' = ErrorOf(k)
<1>1. Recorded /\ Chosen /\ Requested
  BY DEF IInv
<1>2. UNCHANGED <<order, entries, start, headers>>
  BY DEF request
<1>3. Recorded' /\ Chosen' /\ ContentLength' = ContentLength
  BY <1>1 DEF Recorded, Chosen, ContentLength, Size, SizeOf
<1>4. Requested'
  BY <1>1, <1>2 DEF Requested, HeadersFit, Target
<1>5. Permuted(order) => Permuted(order)'
  BY <1>2 DEF Permuted
<1>6. \A k : (ErrorOf(k))' = ErrorOf(k)
  BY <1>2 DEF ErrorOf
<1>7. \A key : KeysFit(key) => KeysFit(key)'
  BY <1>2 DEF KeysFit, Target
<1>8. Ends' = Ends
  BY <1>2 DEF Ends
<1>9. body' = body /\ BodyFits => BodyFits'
  BY <1>2, <1>8 DEF BodyFits, ByteFits
<1> QED
  BY <1>3, <1>4, <1>5, <1>6, <1>7, <1>8, <1>9

\* A slice is asked for while there is data left, so there is a slice, and it
\* does not reach beyond the end of the data.
LEMMA ProvideInv ==
  ASSUME IInv, Provide
  PROVE  IInv'
<1> DEFINE rest  == ContentLength - Len(body)
           size  == IF rest < MaxChunk THEN rest ELSE MaxChunk
           chunk == Slice(Len(body), size)
<1>1. /\ phase = "sending"
      /\ Len(body) < ContentLength
      /\ UNCHANGED <<overload, type, protocol, recs, request, rejected>>
      /\ \/ chunk = <<>>
         \/ body' = body \o chunk /\ UNCHANGED <<phase, result, errors>>
  BY Zenon DEF Provide
<1>2. /\ Len(recs) \in Nat /\ Sized /\ ContentLength \in Nat
      /\ \A i \in 1..Len(recs) : recs[i].size \in Nat
  BY Sizing DEF IInv, Sized
<1>3. /\ Answered /\ body \in Seq(Byte) /\ Len(body) \in Nat
      /\ Permuted(order) /\ BodyFits /\ \E key : KeysFit(key)
  BY <1>1 DEF IInv, Answered, Sent
<1>4. ContentLength = Size
  BY <1>1, <1>3 DEF ContentLength
<1>5. size \in Nat \ {0} /\ size <= rest /\ Len(body) < Size
  BY <1>1, <1>2, <1>3, <1>4, BatchWriteAssumption
<1> HIDE DEF size
<1>6. /\ chunk \in Seq(Byte) /\ chunk # <<>> /\ Len(chunk) <= size
      /\ \A q \in 1..Len(chunk) : ByteFits(chunk[q], Len(body) + q)
  BY <1>2, <1>3, <1>5, SliceFound
<1> HIDE DEF chunk
<1>7. body' = body \o chunk /\ UNCHANGED <<phase, result, errors>>
  BY <1>1, <1>6
<1>8. /\ body' \in Seq(Byte) /\ Len(body') = Len(body) + Len(chunk) /\ Len(chunk) \in Nat
      /\ \A p \in 1..Len(body) : body'[p] = body[p]
      /\ \A q \in 1..Len(chunk) : body'[Len(body) + q] = chunk[q]
  BY <1>3, <1>6, <1>7
<1>9. body' \in Seq(Byte) /\ Len(body') <= ContentLength
  BY <1>2, <1>3, <1>5, <1>6, <1>8
<1>10. UNCHANGED headers
  BY <1>1 DEF request
<1>11. /\ Recorded' /\ Chosen' /\ Requested' /\ ContentLength' = ContentLength /\ Permuted(order)'
       /\ \A k : (ErrorOf(k))' = ErrorOf(k)
       /\ Ends' = Ends /\ \A key : KeysFit(key) => KeysFit(key)'
  BY <1>1, <1>3, Kept
<1>12. errors' = IF result' = "ok" THEN {(ErrorOf(k))' : k \in rejected'} ELSE {}
  BY <1>1, <1>3, <1>7 DEF Answered
<1>13. /\ phase' = "sending" /\ result' = "none" /\ rejected' \subseteq DOMAIN headers'
  BY <1>1, <1>3, <1>7, <1>10 DEF Answered
<1>14. Answered'
  BY <1>9, <1>11, <1>12, <1>13 DEF Answered
<1>15. \A p \in 1..Len(body') : ByteFits(body'[p], p)
  <2> SUFFICES ASSUME NEW p \in 1..Len(body') PROVE ByteFits(body'[p], p)
    OBVIOUS
  <2>1. CASE p \in 1..Len(body)
    BY <1>3, <1>8, <2>1 DEF BodyFits
  <2>2. CASE p \notin 1..Len(body)
    <3> DEFINE q == p - Len(body)
    <3>1. q \in 1..Len(chunk) /\ p = Len(body) + q
      BY <1>3, <1>8, <2>2
    <3> HIDE DEF q
    <3>2. body'[p] = chunk[q]
      <4>1. body'[Len(body) + q] = chunk[q]
        BY <1>8, <3>1, Zenon
      <4> QED
        BY <3>1, <4>1, Zenon
    <3> QED
      BY <1>6, <3>1, <3>2, Zenon
  <2> QED
    BY <2>1, <2>2
<1>16. BodyFits'
  <2>1. UNCHANGED <<recs, order>> /\ Ends' = Ends
    BY <1>1, <1>11 DEF request
  <2> QED
    BY <1>15, <2>1 DEF BodyFits, ByteFits
<1>17. \E key : KeysFit(key)'
  BY <1>3, <1>11, Zenon
<1> QED
  BY <1>11, <1>13, <1>14, <1>16, <1>17 DEF IInv, Sent

LEMMA FailInv ==
  ASSUME IInv, Fail
  PROVE  IInv'
<1>1. /\ UNCHANGED <<overload, type, protocol, recs, request, body, rejected>>
      /\ phase' = "done" /\ result' = "failed" /\ errors' = {} /\ UNCHANGED headers
  BY DEF Fail, Return, request
<1>2. Recorded' /\ Chosen' /\ Requested' /\ ContentLength' = ContentLength
  BY <1>1, Kept
<1>3. Answered'
  BY <1>1, <1>2 DEF IInv, Answered
<1> QED
  BY <1>1, <1>2, <1>3 DEF IInv, Sent

LEMMA AnswerInv ==
  ASSUME IInv, Answer
  PROVE  IInv'
<1>1. PICK bad \in SUBSET DOMAIN headers :
        rejected' = bad /\ phase' = "done" /\ result' = "ok" /\ errors' = {ErrorOf(k) : k \in bad}
  BY DEF Answer, Return
<1>2. /\ UNCHANGED <<overload, type, protocol, recs, request, body>> /\ UNCHANGED headers
      /\ phase = "sending" /\ Len(body) = ContentLength
  BY DEF Answer, request
<1>3. /\ Recorded' /\ Chosen' /\ Requested' /\ ContentLength' = ContentLength
      /\ \A k : (ErrorOf(k))' = ErrorOf(k)
      /\ Permuted(order) => Permuted(order)'
      /\ body' = body /\ BodyFits => BodyFits'
      /\ \A key : KeysFit(key) => KeysFit(key)'
  BY <1>2, Kept
<1>4. errors' = {(ErrorOf(k))' : k \in rejected'}
  BY <1>1, <1>3
<1>5. Answered'
  BY <1>1, <1>2, <1>3, <1>4 DEF IInv, Answered
<1>6. Permuted(order) /\ BodyFits /\ \E key : KeysFit(key)
  BY <1>2 DEF IInv, Sent
<1>7. Permuted(order)' /\ BodyFits' /\ \E key : KeysFit(key)'
  BY <1>2, <1>3, <1>6, Zenon
<1>8. Sent'
  BY <1>2, <1>3, <1>7 DEF Sent
<1> QED
  BY <1>3, <1>5, <1>8 DEF IInv

LEMMA StutterInv ==
  ASSUME IInv, UNCHANGED vars
  PROVE  IInv'
<1>1. UNCHANGED <<overload, type, protocol, recs, request>>
      /\ UNCHANGED <<phase, body, rejected, result, errors, order, entries, start, headers>>
  BY DEF vars, request
<1>2. /\ Recorded' /\ Chosen' /\ Requested' /\ ContentLength' = ContentLength
      /\ \A k : (ErrorOf(k))' = ErrorOf(k)
      /\ Permuted(order) => Permuted(order)'
      /\ body' = body /\ BodyFits => BodyFits'
      /\ \A key : KeysFit(key) => KeysFit(key)'
  BY <1>1, Kept
<1>3. errors' = IF result' = "ok" THEN {(ErrorOf(k))' : k \in rejected'} ELSE {}
  BY <1>1, <1>2 DEF IInv, Answered
<1>4. Answered'
  BY <1>1, <1>2, <1>3 DEF IInv, Answered, NotSent
<1>5. ASSUME phase = "sending" \/ result = "ok"
      PROVE  Permuted(order)' /\ BodyFits' /\ \E key : KeysFit(key)'
  <2>1. Permuted(order) /\ BodyFits /\ \E key : KeysFit(key)
    BY <1>5 DEF IInv, Sent
  <2> QED
    BY <1>1, <1>2, <2>1, Zenon
<1>6. Sent'
  BY <1>1, <1>2, <1>5 DEF IInv, Sent
<1> QED
  BY <1>2, <1>4, <1>6 DEF IInv

\* The invariant holds of every state of a batch operation.
THEOREM InvHolds == Spec => []IInv
<1>1. Init => IInv
  BY InitInv
<1>2. IInv /\ [Next]_vars => IInv'
  <2> SUFFICES ASSUME IInv, [Next]_vars PROVE IInv'
    OBVIOUS
  <2>1. CASE AddRecord
    BY <2>1, AddRecordInv
  <2>2. CASE ProcessBatch
    BY <2>2, ProcessBatchInv
  <2>3. CASE Provide
    BY <2>3, ProvideInv
  <2>4. CASE Fail
    BY <2>4, FailInv
  <2>5. CASE Answer
    BY <2>5, AnswerInv
  <2>6. CASE UNCHANGED vars
    BY <2>6, StutterInv
  <2> QED
    BY <2>1, <2>2, <2>3, <2>4, <2>5, <2>6 DEF Next, Returned
<1> QED
  BY <1>1, <1>2, PTL DEF Spec

\* Every variable keeps its type; the deltas of the headers are not negative, no
\* more is sent than Content-Length announces (batch_v1.cc 34-76, batch_v2.cc 388-443).
THEOREM TypeCorrect == Spec => []TypeOK
<1>1. IInv => TypeOK
  BY InvHasType
<1> QED
  BY <1>1, InvHolds, PTL

\* However large the batch and the slices, the client has data for its request
\* until it has sent Size bytes (http_client.cc 181-187, bucket.h 248-269).
THEOREM NeverCutOffCorrect == Spec => []NeverCutOff
<1>1. IInv => NeverCutOff
  BY DEF IInv, Answered, NeverCutOff
<1> QED
  BY <1>1, InvHolds, PTL

\* An error names the entry and time of the record that was rejected, whatever
\* the protocol and the overload (batch_v1.cc 256-268, batch_v2.cc 469-552).
LEMMA InvAttributes ==
  ASSUME IInv
  PROVE  ErrorsAttributed
<1> SUFFICES ASSUME result = "ok", WithinPath
             PROVE  errors = {[entry |-> IF overload = "entry" THEN Unnamed ELSE Target(headers[k]).entry,
                               ts    |-> Target(headers[k]).ts] : k \in rejected}
  BY Zenon DEF ErrorsAttributed
<1>1. errors = {ErrorOf(k) : k \in rejected} /\ rejected \subseteq DOMAIN headers
  BY DEF IInv, Answered
<1>2. Requested /\ Chosen
  BY DEF IInv
<1>3. ASSUME NEW k \in rejected
      PROVE  ErrorOf(k) = [entry |-> IF overload = "entry" THEN Unnamed ELSE Target(headers[k]).entry,
                           ts    |-> Target(headers[k]).ts]
  <2>1. /\ k \in [idx : 1..Len(entries), delta : Nat]
        /\ headers[k] \in 1..Len(recs)
        /\ start + k.delta = recs[headers[k]].ts
        /\ protocol = 2 => entries[k.idx] = Target(headers[k]).entry
    BY <1>1, <1>2 DEF Requested, HeadersFit
  <2>2. Target(headers[k]).ts = start + k.delta
    BY <2>1 DEF Target
  <2>3. overload # "entry" => entries[k.idx] = Target(headers[k]).entry
    <3> SUFFICES ASSUME overload # "entry" PROVE entries[k.idx] = Target(headers[k]).entry
      OBVIOUS
    <3>1. overload = "records" /\ protocol \in {1, 2}
      BY <1>2, BatchWriteAssumption DEF Chosen
    <3>2. CASE protocol = 2
      BY <2>1, <3>2
    <3>3. CASE protocol = 1
      <4>1. Len(entries) <= 1 /\ entries \in Seq(Entry) /\ k.idx \in 1..Len(entries)
        BY <1>2, <2>1, <3>3 DEF Requested
      <4>2. k.idx = 1 /\ entries # <<>>
        BY <4>1
      <4> QED
        BY <2>1, <3>3, <4>2 DEF WithinPath
    <3> QED
      BY <3>1, <3>2, <3>3
  <2> QED
    BY <2>2, <2>3 DEF ErrorOf
<1> QED
  BY <1>1, <1>3

THEOREM ErrorsAttributedCorrect == Spec => []ErrorsAttributed
<1>1. IInv => ErrorsAttributed
  BY InvAttributes
<1> QED
  BY <1>1, InvHolds, PTL

-----------------------------------------------------------------------------
(* What the server stores.                                                 *)

\* The first n keys of w, in the order of the server.
Increasing(w, n) == \A i, j \in 1..n : i < j => Less(w[i], w[j])

\* w has each key of D, in order.
InOrder(w, n, D) ==
  /\ w \in [1..n -> D]
  /\ Increasing(w, n)
  /\ \A a \in D : \E k \in 1..n : w[k] = a

Keys(D) == \A a \in D : a.idx \in Int /\ a.delta \in Int

LEMMA LessIsStrict ==
  ASSUME NEW a, NEW b, a.idx \in Int, b.idx \in Int, a.delta \in Int, b.delta \in Int, Less(a, b)
  PROVE  ~Less(b, a)
BY DEF Less

\* There is one way to put keys in order.
LEMMA OneOrder ==
  ASSUME NEW n \in Nat, NEW D, Keys(D), NEW f, InOrder(f, n, D), NEW g, InOrder(g, n, D)
  PROVE  \A k \in 1..n : f[k] = g[k]
<1> USE DEF InOrder, Keys
<1> DEFINE T == {k \in 1..n : f[k] # g[k]}
<1> SUFFICES ASSUME T # {} PROVE FALSE
  OBVIOUS
<1>1. T \subseteq Nat
  OBVIOUS
<1>2. PICK k \in T : \A j \in T : k <= j
  BY <1>1, LeastNumber
<1>3. k \in 1..n /\ f[k] # g[k] /\ f[k] \in D /\ g[k] \in D
  BY <1>2
<1>4. \A j \in 1..n : j < k => f[j] = g[j]
  BY <1>2, <1>3
<1>5. \A a, b \in D : Less(a, b) => ~Less(b, a)
  BY LessIsStrict
<1> HIDE DEF T
<1>6. PICK j \in 1..n : g[j] = f[k]
  BY <1>3
<1>7. PICK i \in 1..n : f[i] = g[k]
  BY <1>3
<1>8. k < j
  <2>1. ~(j < k)
    <3> SUFFICES ASSUME j < k PROVE FALSE
      OBVIOUS
    <3>1. f[j] = f[k] /\ Less(f[j], f[k])
      BY <1>3, <1>4, <1>6 DEF Increasing
    <3> QED
      BY <1>3, <1>5, <3>1
  <2>2. j # k
    BY <1>3, <1>6
  <2> QED
    BY <1>3, <2>1, <2>2
<1>9. k < i
  <2>1. ~(i < k)
    <3> SUFFICES ASSUME i < k PROVE FALSE
      OBVIOUS
    <3>1. g[i] = g[k] /\ Less(g[i], g[k])
      BY <1>3, <1>4, <1>7 DEF Increasing
    <3> QED
      BY <1>3, <1>5, <3>1
  <2>2. i # k
    BY <1>3, <1>7
  <2> QED
    BY <1>3, <2>1, <2>2
<1>10. Less(g[k], f[k])
  BY <1>3, <1>6, <1>8, Zenon DEF Increasing
<1>11. Less(f[k], g[k])
  BY <1>3, <1>7, <1>9, Zenon DEF Increasing
<1> QED
  BY <1>3, <1>5, <1>10, <1>11

\* Sorted keys that differ are the headers in the order of the server.
LEMMA WireIs ==
  ASSUME NEW n \in Nat, Keys(DOMAIN headers), NEW key, InOrder(key, n, DOMAIN headers)
  PROVE  Cardinality(DOMAIN headers) = n /\ \A k \in 1..n : Wire[k] = key[k]
<1> DEFINE D == DOMAIN headers
<1>1. \A a, b \in D : Less(a, b) => ~Less(b, a)
  BY LessIsStrict DEF Keys
<1>2. /\ key \in [1..n -> D] /\ Increasing(key, n) /\ \A a \in D : \E k \in 1..n : key[k] = a
      /\ InOrder(key, n, D) /\ Keys(D)
  BY DEF InOrder
<1> HIDE DEF D
<1>3. ASSUME NEW w \in [1..n -> D], Increasing(w, n)
      PROVE  w \in Injection(1..n, D)
  <2>1. \A i, j \in 1..n : w[i] = w[j] => i = j
    <3> SUFFICES ASSUME NEW i \in 1..n, NEW j \in 1..n, w[i] = w[j], i # j PROVE FALSE
      OBVIOUS
    <3>1. i < j \/ j < i
      OBVIOUS
    <3>2. Less(w[i], w[j])
      BY <1>3, <3>1 DEF Increasing
    <3> QED
      BY <1>1, <3>2
  <2> QED
    BY <2>1 DEF Injection, IsInjective
<1>4. IsFiniteSet(1..n) /\ Cardinality(1..n) = n
  BY FS_Interval, SMTT(30)
<1>5. key \in Injection(1..n, D) /\ key \in Surjection(1..n, D)
  BY <1>2, <1>3 DEF Surjection
<1>6. IsFiniteSet(D) /\ Cardinality(D) = n
  BY <1>4, <1>5, FS_Surjection
<1>7. \E w \in [1..n -> D] : \A j, k \in DOMAIN w : j < k => Less(w[j], w[k])
  <2>1. key \in [1..n -> D] /\ DOMAIN key = 1..n
    BY <1>2
  <2> QED
    BY <1>2, <2>1, Zenon DEF Increasing
<1>8. Wire \in [1..n -> D] /\ \A j, k \in DOMAIN Wire : j < k => Less(Wire[j], Wire[k])
  BY <1>6, <1>7, Zenon DEF Wire, D
<1>9. Increasing(Wire, n)
  <2>1. DOMAIN Wire = 1..n
    BY <1>8
  <2> QED
    BY <1>8, <2>1, Zenon DEF Increasing
<1>10. Wire \in Surjection(1..n, D)
  <2>1. Wire \in Injection(1..n, D)
    BY <1>3, <1>8, <1>9
  <2> QED
    BY <1>4, <1>6, <2>1, FS_Injection
<1>11. \A a \in D : \E k \in 1..n : Wire[k] = a
  BY <1>10 DEF Surjection
<1>12. \A k \in 1..n : Wire[k] = key[k]
  <2>1. InOrder(Wire, n, D)
    BY <1>8, <1>9, <1>11, Zenon DEF InOrder
  <2>2. \A w : InOrder(w, n, D) => \A k \in 1..n : w[k] = key[k]
    <3> SUFFICES ASSUME NEW w, InOrder(w, n, D) PROVE \A k \in 1..n : w[k] = key[k]
      OBVIOUS
    <3>1. n \in Nat /\ Keys(D) /\ InOrder(key, n, D)
      BY <1>2
    <3> QED
      BY ONLY <3>1, InOrder(w, n, D), OneOrder, SMTT(20)
  <2> QED
    BY <2>1, <2>2, Zenon
<1> QED
  BY <1>6, <1>12 DEF D

\* The data of a record lies in the body where its place in the order says.
LEMMA PieceIs ==
  ASSUME Len(recs) \in Nat, Sized, Permuted(order), body \in Seq(Byte), BodyFits, Len(body) = Size,
         NEW k \in 1..Len(order)
  PROVE  SubSeq(body, Ends[k - 1] + 1, Ends[k]) = Bytes(order[k])
<1> DEFINE i == order[k]
           a == Ends[k - 1]
           z == recs[i].size
<1>1. Len(order) \in Nat /\ i \in Nat /\ z \in Nat
  <2> DEFINE R == 1..Len(recs)
  <2>1. order \in Seq(R) /\ Len(order) \in Nat
    BY DEF Permuted
  <2> HIDE DEF R
  <2>2. i \in R
    BY <2>1
  <2> HIDE DEF i
  <2> QED
    BY <2>1, <2>2 DEF R, Sized
<1>2. /\ a \in Nat /\ Ends[k] = a + z /\ Ends[k] <= Size
  <2>1. k - 1 \in 0..Len(order) /\ k \in 0..Len(order) /\ Len(order) \in 0..Len(order) /\ k <= Len(order)
    BY <1>1
  <2>2. Ends[k] <= Ends[Len(order)]
    BY <2>1, EndsRise
  <2> QED
    BY <2>1, <2>2, OrderAddsUp
<1>3. \A l \in 1..z : body[a + l] = <<i, l>>
  <2> SUFFICES ASSUME NEW l \in 1..z PROVE body[a + l] = <<i, l>>
    OBVIOUS
  <2>1. a + l \in 1..Len(body)
    <3> HIDE DEF a, z
    <3> QED
      BY <1>1, <1>2
  <2>2. ByteFits(body[a + l], a + l)
    BY <2>1, Zenon DEF BodyFits
  <2> QED
    BY <2>2, Zenon DEF ByteFits
<1> DEFINE t == Bytes(i)
<1>4. t \in Seq(Byte) /\ Len(t) = z /\ \A l \in 1..z : t[l] = <<i, l>>
  <2>1. t = [l \in 1..z |-> <<i, l>>]
    BY DEF Bytes
  <2> HIDE DEF t, i, z
  <2>2. \A l \in 1..z : <<i, l>> \in Byte
    BY <1>1 DEF Byte
  <2> QED
    BY ONLY <1>1, <2>1, <2>2
<1> HIDE DEF t, i, a, z
<1>5. SubSeq(body, a + 1, a + z) = t
  <2> DEFINE u == SubSeq(body, a + 1, a + z)
  <2>1. Within(Byte, body, a, z)
    BY <1>1, <1>2 DEF Within
  <2>2. Has(u, Byte, body, a, z)
    BY <2>1, PieceHas, Zenon
  <2> HIDE DEF u
  <2>3. u \in Seq(Byte) /\ Len(u) = z /\ \A l \in 1..z : u[l] = t[l]
    BY <1>3, <1>4, <2>2, Zenon DEF Has
  <2>4. u = t
    BY ONLY <1>1, <1>4, <2>3
  <2> QED
    BY <2>4, Zenon DEF u
<1> QED
  BY <1>2, <1>5, Zenon DEF t, i, a

\* The server cuts the body where the records end.
LEMMA StoredIs ==
  ASSUME Len(recs) \in Nat, Sized, Permuted(order), Cardinality(DOMAIN headers) = Len(order),
         \A k \in 1..Len(order) : headers[Wire[k]] = order[k]
  PROVE  Stored = {[entry |-> entries[Wire[k].idx], ts |-> start + Wire[k].delta,
                    data |-> SubSeq(body, Ends[k - 1] + 1, Ends[k])] : k \in 1..Len(order)}
<1> DEFINE n    == Cardinality(DOMAIN headers)
           h(g) == [k \in 0..n |-> IF k = 0 THEN 0 ELSE g[k - 1] + recs[headers[Wire[k]]].size]
           before == CHOOSE g : g = h(g)
           piece(k) == SubSeq(body, before[k - 1] + 1, before[k])
           f == [k \in 0..n |-> Ends[k]]
<1>1. Stored = {[entry |-> entries[Wire[k].idx], ts |-> start + Wire[k].delta, data |-> piece(k)] : k \in 1..n}
  BY DEF Stored
<1>2. n \in Nat /\ n = Len(order)
  BY DEF Permuted
<1>3. /\ Ends[0] = 0
      /\ \A k \in 1..n : Ends[k] = Ends[k - 1] + recs[order[k]].size
      /\ \A k \in 1..n : headers[Wire[k]] = order[k]
  BY <1>2, OrderAddsUp
<1> HIDE DEF n
<1>4. \A k \in 1..n : k - 1 \in 0..n /\ k \in 0..n /\ k # 0
  BY <1>2
<1>5. \A k \in 0..n : k = 0 \/ k \in 1..n
  BY <1>2
<1>6. f = h(f)
  <2>1. \A k \in 0..n : f[k] = h(f)[k]
    BY <1>3, <1>4, <1>5
  <2> QED
    BY <2>1
<1>7. before = h(before)
  BY <1>6, Zenon
<1> HIDE DEF before
<1>8. DOMAIN before = 0..n /\ before[0] = 0
  BY <1>2, <1>7
<1>9. \A k \in 1..n : before[k] = before[k - 1] + recs[order[k]].size
  BY <1>2, <1>3, <1>4, <1>7
<1>10. \A k \in 0..n : before[k] = Ends[k]
  <2> DEFINE S == {k \in 0..n : before[k] = Ends[k]}
  <2>1. \A k : k \in S <=> k \in 0..n /\ before[k] = Ends[k]
    OBVIOUS
  <2> HIDE DEF S
  <2>2. 0 \in S
    BY <1>2, <1>3, <1>8, <2>1
  <2>3. \A k \in 1..n : k - 1 \in S => k \in S
    BY <1>3, <1>4, <1>9, <2>1
  <2>4. 0..n \subseteq S
    BY <1>2, <2>2, <2>3, Induction
  <2> QED
    BY <2>1, <2>4, Zenon
<1>11. \A k \in 1..n : piece(k) = SubSeq(body, Ends[k - 1] + 1, Ends[k])
  BY <1>4, <1>10, Zenon
<1> HIDE DEF piece
<1> QED
  BY <1>1, <1>2, <1>11, Zenon

\* Records of their own have keys of their own, which lead the server through the
\* body in the order it was sent in.
LEMMA InvStores ==
  ASSUME IInv
  PROVE  StoredAsAdded
<1> SUFFICES ASSUME result = "ok", type = "write", Distinct, WithinPath
             PROVE  AsAdded
  BY Zenon DEF StoredAsAdded
<1> DEFINE n == Len(order)
<1>1. /\ Len(recs) \in Nat /\ Sized /\ \A i \in 1..Len(recs) : recs[i].ts \in Nat
      /\ Permuted(order) /\ BodyFits /\ body \in Seq(Byte) /\ Requested /\ Chosen
      /\ Len(body) = Size
  BY Sizing DEF IInv, Answered, Sent, ContentLength
<1>2. PICK key : KeysFit(key)
  BY DEF IInv, Sent
<1>3. /\ n \in Nat /\ n = Len(recs)
      /\ \A k \in 1..n : order[k] \in 1..n
      /\ \A i, j \in 1..n : order[i] = order[j] => i = j
  <2> DEFINE R == 1..Len(recs)
  <2>1. order \in Seq(R) /\ n = Len(recs) /\ \A i, j \in 1..n : order[i] = order[j] => i = j
    BY <1>1 DEF Permuted
  <2> HIDE DEF R
  <2>2. \A k \in 1..n : order[k] \in R
    BY <2>1
  <2> QED
    BY <1>1, <2>1, <2>2 DEF R
<1>4. /\ key \in [1..n -> DOMAIN headers]
      /\ \A x \in DOMAIN headers : \E k \in 1..n : x = key[k] /\ headers[x] = order[k]
      /\ \A k \in 1..n : start + key[k].delta = recs[order[k]].ts
      /\ \A k \in 1..n : protocol = 2 => entries[key[k].idx] = Target(order[k]).entry
      /\ \A i, j \in 1..n : i < j => NotAfter(key[i], key[j])
  BY <1>2, Zenon DEF KeysFit, n
<1>5. \A k \in 1..n : key[k] \in DOMAIN headers /\ key[k] \in [idx : 1..Len(entries), delta : Nat]
  BY <1>1, <1>4 DEF Requested, HeadersFit
<1> HIDE DEF n
\* V1's path names the entry of all records.
<1>6. \A k \in 1..n : entries[key[k].idx] = Target(order[k]).entry
  <2> SUFFICES ASSUME NEW k \in 1..n PROVE entries[key[k].idx] = Target(order[k]).entry
    OBVIOUS
  <2>1. protocol \in {1, 2}
    BY <1>1, BatchWriteAssumption DEF Chosen
  <2>2. CASE protocol = 1
    <3>1. Len(entries) <= 1 /\ entries \in Seq(Entry) /\ key[k].idx \in 1..Len(entries)
      BY <1>1, <1>5, <2>2 DEF Requested
    <3>2. key[k].idx = 1 /\ entries # <<>>
      BY <3>1
    <3> QED
      BY <1>3, <2>2, <3>2 DEF WithinPath
  <2> QED
    BY <1>4, <2>1, <2>2
<1>7. \A k \in 1..n : Target(order[k]).ts = start + key[k].delta
  BY <1>4 DEF Target
<1>8. \A i, j \in 1..n : key[i] = key[j] => i = j
  <2> SUFFICES ASSUME NEW i \in 1..n, NEW j \in 1..n, key[i] = key[j] PROVE i = j
    OBVIOUS
  <2>1. Target(order[i]).entry = Target(order[j]).entry /\ Target(order[i]).ts = Target(order[j]).ts
    BY <1>6, <1>7, Zenon
  <2>2. Target(order[i]) = Target(order[j])
    BY <2>1 DEF Target
  <2>3. order[i] = order[j]
    BY <1>3, <2>2, Zenon DEF Distinct
  <2> QED
    BY <1>3, <2>3
<1>9. Increasing(key, n)
  <2> SUFFICES ASSUME NEW i \in 1..n, NEW j \in 1..n, i < j PROVE Less(key[i], key[j])
    BY DEF Increasing
  <2>1. NotAfter(key[i], key[j]) /\ key[i] # key[j]
    BY <1>3, <1>4, <1>8
  <2> DEFINE x == key[i]
             y == key[j]
  <2>2. x \in [idx : 1..Len(entries), delta : Nat] /\ y \in [idx : 1..Len(entries), delta : Nat]
    BY <1>5
  <2> HIDE DEF x, y
  <2>3. NotAfter(x, y) /\ x # y
    BY <2>1 DEF x, y
  <2>4. ~(x.idx = y.idx /\ x.delta = y.delta)
    BY <2>2, <2>3
  <2>5. Less(x, y)
    BY <2>2, <2>3, <2>4 DEF NotAfter, Less
  <2> QED
    BY <2>5 DEF x, y
<1>10. \A k \in 1..n : headers[key[k]] = order[k]
  BY <1>4, <1>8, ZenonT(60)
<1>11. Cardinality(DOMAIN headers) = n /\ \A k \in 1..n : Wire[k] = key[k]
  <2>1. Keys(DOMAIN headers)
    <3> SUFFICES ASSUME NEW x \in DOMAIN headers PROVE x.idx \in Int /\ x.delta \in Int
      BY DEF Keys
    <3>1. x \in [idx : 1..Len(entries), delta : Nat]
      BY <1>1 DEF Requested, HeadersFit
    <3> QED
      BY <3>1
  <2>2. InOrder(key, n, DOMAIN headers)
    BY <1>4, <1>9 DEF InOrder
  <2> QED
    BY <1>3, <2>1, <2>2, WireIs
<1> DEFINE Wanted(i) == [entry |-> Target(i).entry, ts |-> recs[i].ts, data |-> Bytes(i)]
<1>12. Stored = {[entry |-> entries[Wire[k].idx], ts |-> start + Wire[k].delta,
                  data |-> SubSeq(body, Ends[k - 1] + 1, Ends[k])] : k \in 1..n}
  BY <1>1, <1>10, <1>11, StoredIs DEF n
<1>13. \A k \in 1..n : [entry |-> entries[Wire[k].idx], ts |-> start + Wire[k].delta,
                        data |-> SubSeq(body, Ends[k - 1] + 1, Ends[k])] = Wanted(order[k])
  <2> SUFFICES ASSUME NEW k \in 1..n
               PROVE  /\ entries[Wire[k].idx] = Target(order[k]).entry
                      /\ start + Wire[k].delta = recs[order[k]].ts
                      /\ SubSeq(body, Ends[k - 1] + 1, Ends[k]) = Bytes(order[k])
    BY Zenon
  <2>1. SubSeq(body, Ends[k - 1] + 1, Ends[k]) = Bytes(order[k])
    BY <1>1, PieceIs, Zenon DEF n
  <2> QED
    BY <1>4, <1>6, <1>11, <2>1, Zenon
<1>14. \A i \in 1..n : \E k \in 1..n : order[k] = i
  <2>1. IsFiniteSet(1..n)
    BY <1>3, FS_Interval
  <2>2. order \in Injection(1..n, 1..n)
    <3>1. order \in [1..n -> 1..n]
      BY <1>1, <1>3 DEF Permuted, n
    <3> QED
      BY <1>3, <3>1 DEF Injection, IsInjective
  <2>3. order \in Surjection(1..n, 1..n)
    BY <2>1, <2>2, FS_Injection
  <2> QED
    BY <2>3 DEF Surjection
<1> HIDE DEF Wanted
<1>15. {Wanted(order[k]) : k \in 1..n} = {Wanted(i) : i \in 1..n}
  <2>1. \A x : x \in {Wanted(order[k]) : k \in 1..n} => x \in {Wanted(i) : i \in 1..n}
    BY <1>3, Zenon
  <2>2. \A x : x \in {Wanted(i) : i \in 1..n} => x \in {Wanted(order[k]) : k \in 1..n}
    BY <1>14, Zenon
  <2> QED
    BY <2>1, <2>2, Zenon
<1>16. Stored = {Wanted(order[k]) : k \in 1..n}
  BY <1>12, <1>13, Zenon
<1> QED
  BY <1>3, <1>15, <1>16, Zenon DEF AsAdded, Wanted

\* The data of a batch ends up where the caller wants it, however many records it
\* has, whatever their order, sizes and times, and wherever the slices are cut
\* (batch_v1.cc 209-239, batch_v2.cc 388-443, bucket.h 241-280).
THEOREM StoredAsAddedCorrect == Spec => []StoredAsAdded
<1>1. IInv => StoredAsAdded
  BY InvStores
<1> QED
  BY <1>1, InvHolds, PTL
=============================================================================
