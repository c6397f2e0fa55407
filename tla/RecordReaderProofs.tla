------------------------- MODULE RecordReaderProofs -------------------------
(***************************************************************************)
(* RecordReader, for every number and size of records, every way the       *)
(* network cuts the body and every habit of the callbacks.                 *)
(*                                                                         *)
(* The argument: the bytes given, the chunk in hand and the chunks of the  *)
(* deque follow each other and are together what has arrived (InStep), so  *)
(* a callback that reads its record to the end leaves the deque where the  *)
(* next record begins (Aligned).                                           *)
(***************************************************************************)
EXTENDS RecordReader, TLAPS, WellFoundedInduction

-----------------------------------------------------------------------------
(* The inductive invariant.                                                *)

\* The bytes a + 1 .. b of the body, and a deque whose chunks are those bytes.
Run(a, b) == [k \in 1..(b - a) |-> a + k]

Cuts(cut, d, a, b) ==
  /\ cut \in [0..Len(d) -> a..b]
  /\ cut[0] = a
  /\ cut[Len(d)] = b
  /\ \A c \in 1..Len(d) : cut[c - 1] <= cut[c] /\ d[c] = Run(cut[c - 1], cut[c])

Deque(d, a, b) == \E cut : Cuts(cut, d, a, b)

Arrived == IF Closed THEN BodySize ELSE sent

InStep ==
  /\ log \in Seq([rec : Nat, byte : Byte])
  /\ \A k \in 1..Len(log) : log[k].byte = k
  /\ chunk = Run(Len(log), Len(log) + Len(chunk))
  /\ data \in Seq(Seq(Byte))
  /\ Len(log) + Len(chunk) <= Arrived
  /\ Deque(data, Len(log) + Len(chunk), Arrived)
  /\ \A c \in 1..Len(data) : data[c] = End => Closed /\ c = Len(data)

Control ==
  /\ proto \in Protocols
  /\ habits \in Habits
  /\ sizes \in Seq(Sizes)
  /\ proto = "single" => Len(sizes) = 1
  /\ sent \in 0..BodySize + 1
  /\ rpc \in {"between", "read", "deliver", "after", "crashed"}
  /\ rec \in 0..Len(sizes)
  /\ total \in Nat
  /\ chunk \in Seq(Byte)
  /\ rpc = "between" => total = 0
  /\ rpc # "between" => rec # 0
  /\ rpc # "deliver" => chunk = <<>>

\* Read of a batched record never takes more than its size.
Fits ==
  proto # "single" /\ rpc \in {"read", "deliver"} =>
    /\ total + Len(chunk) <= Record
    /\ rpc = "read" => total < Record \/ Record = 0

\* What careful callbacks have been given ends where their record does.
Aligned ==
  /\ rpc \in {"between", "after"} => Len(log) = Offset[rec]
  /\ rpc \in {"read", "deliver", "crashed"} => Len(log) = Offset[rec - 1] + total
  /\ \A k \in 1..Len(log) : log[k].rec \in 1..rec /\ k \in Own(log[k].rec)

IInv == Control /\ InStep /\ Fits /\ (Careful => Aligned) /\ NoCrash
-----------------------------------------------------------------------------
(* Induction over the naturals, by the least counterexample: the library's *)
(* theorem on minimal elements takes a set where its induction theorems    *)
(* take a predicate.                                                       *)

LEMMA LeastNumber ==
  ASSUME NEW T, T \subseteq Nat, T # {}
  PROVE  \E m \in T : \A n \in T : m <= n
<1>1. \A x, y \in Nat : x < y => <<x, y>> \in OpToRel(<, Nat)
  BY DEF OpToRel
<1>2. \E R : /\ IsWellFoundedOn(R, Nat)
             /\ \A x, y \in Nat : x < y => <<x, y>> \in R
  BY <1>1, NatLessThanWellFounded, Zenon
<1>3. PICK R : /\ IsWellFoundedOn(R, Nat)
               /\ \A x, y \in Nat : x < y => <<x, y>> \in R
  BY <1>2
<1>4. IsWellFoundedOn(R, Nat)
  BY <1>3
<1>5. \E x \in T : \A y \in T : ~(<<y, x>> \in R)
  BY ONLY <1>4, T \subseteq Nat, T # {}, WFMin, Zenon
<1>6. PICK m \in T : \A n \in T : <<n, m>> \notin R
  BY <1>5
<1>7. \A n \in T : n \in Nat /\ m \in Nat /\ ~(n < m)
  BY <1>3, <1>6, Zenon
<1>8. \A n \in T : m <= n
  BY <1>7
<1> QED
  BY <1>8

LEMMA Induction ==
  ASSUME NEW S, 0 \in S, \A n \in Nat : n \in S => n + 1 \in S
  PROVE  Nat \subseteq S
<1> SUFFICES ASSUME Nat \ S # {} PROVE FALSE
  OBVIOUS
<1>1. PICK m \in Nat \ S : \A n \in Nat \ S : m <= n
  BY LeastNumber
<1> QED
  BY <1>1, m - 1 \in Nat

-----------------------------------------------------------------------------
(* The offsets of the records.                                             *)

Sums(f, s, n) ==
  /\ f \in [0..n -> Nat]
  /\ f[0] = 0
  /\ \A i \in 1..n : f[i] = f[i - 1] + s[i]

\* The recursive function Offset is defined: its values are sums of the sizes.
LEMMA OffsetSums ==
  ASSUME sizes \in Seq(Nat)
  PROVE  Sums(Offset, sizes, Len(sizes))
<1> DEFINE S == {n \in Nat : n <= Len(sizes) => \E f : Sums(f, sizes, n)}
<1>1. 0 \in S
  <2>1. Sums([i \in 0..0 |-> 0], sizes, 0)
    BY DEF Sums
  <2> QED
    BY <2>1
<1>2. ASSUME NEW n \in Nat, n \in S PROVE n + 1 \in S
  <2> SUFFICES ASSUME n + 1 <= Len(sizes) PROVE \E f : Sums(f, sizes, n + 1)
    OBVIOUS
  <2>1. PICK f : Sums(f, sizes, n)
    BY <1>2
  <2>2. sizes[n + 1] \in Nat
    OBVIOUS
  <2> DEFINE g == [i \in 0..n + 1 |-> IF i = n + 1 THEN f[n] + sizes[n + 1] ELSE f[i]]
  <2>3. g \in [0..n + 1 -> Nat]
    BY <2>1, <2>2, SMTT(30) DEF Sums
  <2>4. g[0] = 0
    BY <2>1 DEF Sums
  <2>5. ASSUME NEW i \in 1..n + 1 PROVE g[i] = g[i - 1] + sizes[i]
    <3>1. CASE i = n + 1
      BY <3>1, <2>1 DEF Sums
    <3>2. CASE i # n + 1
      <4>1. i \in 1..n /\ i - 1 \in 0..n /\ i \in 0..n + 1
        BY <3>2
      <4>2. g[i] = f[i] /\ g[i - 1] = f[i - 1]
        BY <4>1
      <4> QED
        BY <4>1, <4>2, <2>1 DEF Sums
    <3> QED
      BY <3>1, <3>2
  <2>6. Sums(g, sizes, n + 1)
    BY <2>3, <2>4, <2>5 DEF Sums
  <2> QED
    BY <2>6
<1>3. \E f : Sums(f, sizes, Len(sizes))
  <2> HIDE DEF S
  <2>1. Nat \subseteq S
    BY <1>1, <1>2, Induction
  <2>2. Len(sizes) \in S
    BY <2>1
  <2> QED
    BY <2>2 DEF S
<1>4. PICK f : Sums(f, sizes, Len(sizes))
  BY <1>3
<1>5. f = [i \in 0..Len(sizes) |-> IF i = 0 THEN 0 ELSE f[i - 1] + sizes[i]]
  BY <1>4 DEF Sums
<1>6. Offset = CHOOSE g : g = [i \in 0..Len(sizes) |-> IF i = 0 THEN 0 ELSE g[i - 1] + sizes[i]]
  BY DEF Offset
<1>7. Offset = [i \in 0..Len(sizes) |-> IF i = 0 THEN 0 ELSE Offset[i - 1] + sizes[i]]
  BY <1>5, <1>6
<1> DEFINE U == {n \in Nat : n <= Len(sizes) => Offset[n] \in Nat}
<1>8. Nat \subseteq U
  <2>1. 0 \in U
    BY <1>7
  <2>2. ASSUME NEW n \in Nat, n \in U PROVE n + 1 \in U
    <3> SUFFICES ASSUME n + 1 <= Len(sizes) PROVE Offset[n + 1] \in Nat
      OBVIOUS
    <3>1. Offset[n + 1] = Offset[n] + sizes[n + 1]
      BY <1>7
    <3>2. sizes[n + 1] \in Nat
      OBVIOUS
    <3> QED
      BY <3>1, <3>2, <2>2
  <2> HIDE DEF U
  <2> QED
    BY <2>1, <2>2, Induction
<1>9. \A i \in 0..Len(sizes) : Offset[i] \in Nat
  BY <1>8
<1> HIDE DEF U
<1>10. Offset \in [0..Len(sizes) -> Nat]
  BY <1>7, <1>9, Zenon
<1>11. Offset[0] = 0 /\ \A i \in 1..Len(sizes) : Offset[i] = Offset[i - 1] + sizes[i]
  BY <1>7, SMTT(30)
<1> QED
  BY <1>10, <1>11 DEF Sums

LEMMA OffsetMonotonic ==
  ASSUME sizes \in Seq(Nat)
  PROVE  \A j \in 0..Len(sizes) : \A i \in 0..j : Offset[i] <= Offset[j]
<1> DEFINE S == {n \in Nat : n <= Len(sizes) => \A i \in 0..n : Offset[i] <= Offset[n]}
<1>1. Sums(Offset, sizes, Len(sizes))
  BY OffsetSums
<1>2. 0 \in S
  BY <1>1 DEF Sums
<1>3. ASSUME NEW n \in Nat, n \in S PROVE n + 1 \in S
  <2> SUFFICES ASSUME n + 1 <= Len(sizes), NEW i \in 0..n + 1 PROVE Offset[i] <= Offset[n + 1]
    OBVIOUS
  <2>1. Offset[n + 1] = Offset[n] + sizes[n + 1] /\ sizes[n + 1] \in Nat
    BY <1>1 DEF Sums
  <2>2. Offset[n] \in Nat /\ Offset[i] \in Nat
    <3>1. n \in 0..Len(sizes) /\ i \in 0..Len(sizes)
      OBVIOUS
    <3> QED
      BY <3>1, <1>1 DEF Sums
  <2>3. i <= n => Offset[i] <= Offset[n]
    BY <1>3
  <2> QED
    BY <2>1, <2>2, <2>3
<1> HIDE DEF S
<1>4. Nat \subseteq S
  BY <1>2, <1>3, Induction
<1> QED
  BY <1>4 DEF S

-----------------------------------------------------------------------------
(* Chunks and deques.                                                      *)

LEMMA RunProperties ==
  ASSUME NEW a \in Nat, NEW b \in Nat, a <= b
  PROVE  /\ Run(a, b) \in Seq(a + 1 .. b)
         /\ Len(Run(a, b)) = b - a
         /\ \A k \in 1..(b - a) : Run(a, b)[k] = a + k
BY DEF Run

LEMMA RunEmpty ==
  ASSUME NEW a \in Nat, NEW b \in Nat, a <= b
  PROVE  (Run(a, b) = <<>>) <=> (a = b)
<1>1. Run(a, b) \in Seq(a + 1 .. b) /\ Len(Run(a, b)) = b - a
  BY RunProperties
<1> HIDE DEF Run
<1> QED
  BY <1>1

LEMMA SeqWider ==
  ASSUME NEW S, NEW T, S \subseteq T, NEW s \in Seq(S)
  PROVE  s \in Seq(T)
OBVIOUS

LEMMA RunCut ==
  ASSUME NEW a \in Nat, NEW b \in Nat, NEW n \in Nat, a + n <= b
  PROVE  /\ SubSeq(Run(a, b), 1, n) = Run(a, a + n)
         /\ SubSeq(Run(a, b), n + 1, b - a) = Run(a + n, b)
BY DEF Run

LEMMA ConcatLength ==
  ASSUME NEW S, NEW s \in Seq(S), NEW t \in Seq(S)
  PROVE  s \o t \in Seq(S) /\ Len(s \o t) = Len(s) + Len(t)
OBVIOUS

LEMMA LastOne ==
  ASSUME NEW S, NEW s \in Seq(S), Len(s) = 1
  PROVE  Tail(s) = <<>>
<1> DEFINE t == Tail(s)
<1>1. t \in Seq(S) /\ Len(t) = 0
  OBVIOUS
<1> HIDE DEF t
<1>2. t = <<>>
  BY <1>1
<1> QED
  BY <1>2 DEF t

LEMMA DequeEmpty ==
  ASSUME NEW a \in Nat, NEW b \in Nat
  PROVE  Deque(<<>>, a, b) <=> a = b
<1>1. ASSUME a = b PROVE Cuts([c \in 0..0 |-> a], <<>>, a, b)
  BY <1>1 DEF Cuts
<1> QED
  BY <1>1 DEF Deque, Cuts

LEMMA DequeAppend ==
  ASSUME NEW a \in Nat, NEW b \in Nat, NEW e \in Nat, a <= b, b <= e,
         NEW d \in Seq(Seq(Int)), Deque(d, a, b)
  PROVE  Deque(Append(d, Run(b, e)), a, e)
<1>1. PICK cut : Cuts(cut, d, a, b)
  BY DEF Deque
<1> DEFINE D == Append(d, Run(b, e))
           n == Len(d) + 1
           new == [c \in 0..n |-> IF c = n THEN e ELSE cut[c]]
<1>2. Len(D) = n /\ n \in Nat /\ D[n] = Run(b, e) /\ \A c \in 1..Len(d) : D[c] = d[c]
  OBVIOUS
<1>3. new \in [0..n -> a..e] /\ new[0] = a /\ new[n] = e
  BY <1>1 DEF Cuts
<1>4. ASSUME NEW c \in 1..n PROVE new[c - 1] <= new[c] /\ D[c] = Run(new[c - 1], new[c])
  <2>1. CASE c = n
    BY <1>1, <1>2, <2>1 DEF Cuts
  <2>2. CASE c # n
    <3>1. c \in 1..Len(d) /\ c - 1 \in 0..Len(d) /\ c \in 0..n /\ c - 1 # n
      BY <2>2
    <3>2. new[c] = cut[c] /\ new[c - 1] = cut[c - 1]
      BY <3>1, <2>2
    <3> QED
      BY <3>1, <3>2, <1>1, <1>2 DEF Cuts
  <2> QED
    BY <2>1, <2>2
<1> HIDE DEF new, D, n
<1>5. Cuts(new, D, a, e)
  BY <1>2, <1>3, <1>4 DEF Cuts
<1> QED
  BY <1>5 DEF Deque, D

LEMMA DequeHead ==
  ASSUME NEW a \in Nat, NEW b \in Nat,
         NEW d \in Seq(Seq(Int)), d # <<>>, Deque(d, a, b)
  PROVE  \E m \in a..b : Head(d) = Run(a, m) /\ Deque(Tail(d), m, b)
<1>1. PICK cut : Cuts(cut, d, a, b)
  BY DEF Deque
<1> DEFINE new == [c \in 0..Len(d) - 1 |-> cut[c + 1]]
<1>2. Len(d) \in Nat \ {0} /\ Len(Tail(d)) = Len(d) - 1
  OBVIOUS
<1>3. \A c \in 1..Len(d) - 1 : Tail(d)[c] = d[c + 1]
  OBVIOUS
<1>4. cut[1] \in a..b /\ Head(d) = Run(a, cut[1])
  <2>1. 1 \in 1..Len(d) /\ 1 \in 0..Len(d) /\ Head(d) = d[1]
    BY <1>2
  <2>2. cut[1 - 1] = a /\ d[1] = Run(cut[1 - 1], cut[1])
    BY <1>1, <2>1 DEF Cuts
  <2>3. cut[1] \in a..b
    BY <1>1, <2>1 DEF Cuts
  <2> QED
    BY <2>1, <2>2, <2>3
<1>5. ASSUME NEW c \in 1..Len(d) PROVE cut[c] \in cut[1]..b
  <2> DEFINE S == {i \in Nat : i + 1 <= Len(d) => cut[1] <= cut[i + 1]}
  <2>1. 0 \in S
    BY <1>4
  <2>2. ASSUME NEW i \in Nat, i \in S PROVE i + 1 \in S
    <3> SUFFICES ASSUME i + 2 <= Len(d) PROVE cut[1] <= cut[i + 2]
      OBVIOUS
    <3>1. i + 2 \in 1..Len(d) /\ i + 1 \in 1..Len(d) /\ i + 2 \in 0..Len(d) /\ i + 1 \in 0..Len(d)
      BY <1>2
    <3>2. cut[i + 1] \in a..b /\ cut[i + 2] \in a..b
      BY <1>1, <3>1 DEF Cuts
    <3>3. cut[(i + 2) - 1] <= cut[i + 2] /\ (i + 2) - 1 = i + 1
      BY <1>1, <3>1 DEF Cuts
    <3>4. cut[1] <= cut[i + 1]
      BY <2>2, <3>1
    <3> QED
      BY <3>2, <3>3, <3>4, <1>4, SMTT(30)
  <2> HIDE DEF S
  <2>3. c - 1 \in S
    BY <2>1, <2>2, Induction, c - 1 \in Nat
  <2>4. cut[1] <= cut[c]
    BY <2>3 DEF S
  <2>5. c \in 0..Len(d)
    BY <1>2
  <2>6. cut[c] \in a..b
    BY <2>5, <1>1 DEF Cuts
  <2> QED
    BY <2>4, <2>6, <1>4
<1>6. new \in [0..Len(d) - 1 -> cut[1]..b] /\ new[0] = cut[1] /\ new[Len(d) - 1] = b
  BY <1>1, <1>2, <1>5, SMTT(30) DEF Cuts
<1>7. ASSUME NEW c \in 1..Len(d) - 1
      PROVE  new[c - 1] <= new[c] /\ Tail(d)[c] = Run(new[c - 1], new[c])
  <2>1. c + 1 \in 1..Len(d) /\ c - 1 \in 0..Len(d) - 1 /\ c \in 0..Len(d) - 1 /\ (c + 1) - 1 = c
    BY <1>2
  <2>2. new[c] = cut[c + 1] /\ new[c - 1] = cut[c]
    BY <2>1
  <2>3. cut[c] <= cut[c + 1] /\ d[c + 1] = Run(cut[c], cut[c + 1])
    BY <1>1, <2>1 DEF Cuts
  <2> QED
    BY <2>2, <2>3, <1>3
<1> HIDE DEF new
<1>8. Cuts(new, Tail(d), cut[1], b)
  BY <1>2, <1>6, <1>7 DEF Cuts
<1> QED
  BY <1>4, <1>8 DEF Deque

LEMMA DequePushFront ==
  ASSUME NEW a \in Nat, NEW m \in Nat, NEW b \in Nat, a <= m, m <= b,
         NEW d \in Seq(Seq(Int)), Deque(d, m, b)
  PROVE  Deque(<<Run(a, m)>> \o d, a, b)
<1>1. PICK cut : Cuts(cut, d, m, b)
  BY DEF Deque
<1> DEFINE D == <<Run(a, m)>> \o d
           n == Len(d) + 1
           new == [c \in 0..n |-> IF c = 0 THEN a ELSE cut[c - 1]]
<1>2. Len(D) = n /\ n \in Nat /\ D[1] = Run(a, m) /\ \A c \in 2..n : D[c] = d[c - 1]
  OBVIOUS
<1>3. new \in [0..n -> a..b] /\ new[0] = a /\ new[n] = b
  BY <1>1 DEF Cuts
<1>4. ASSUME NEW c \in 1..n PROVE new[c - 1] <= new[c] /\ D[c] = Run(new[c - 1], new[c])
  <2>1. CASE c = 1
    BY <1>1, <1>2, <2>1 DEF Cuts
  <2>2. CASE c # 1
    <3>1. c - 1 \in 1..Len(d) /\ c \in 2..n /\ c - 1 \in 0..n /\ c - 1 # 0 /\ c # 0 /\ c \in 0..n
      BY <2>2
    <3>2. new[c] = cut[c - 1] /\ new[c - 1] = cut[(c - 1) - 1]
      BY <3>1
    <3> QED
      BY <3>1, <3>2, <1>1, <1>2 DEF Cuts
  <2> QED
    BY <2>1, <2>2
<1> HIDE DEF new, D, n
<1>5. Cuts(new, D, a, b)
  BY <1>2, <1>3, <1>4 DEF Cuts
<1> QED
  BY <1>5 DEF Deque, D

-----------------------------------------------------------------------------
(* What the steps use of the sizes, and what none of them changes.         *)

LEMMA Layout ==
  ASSUME Control
  PROVE  /\ sizes \in Seq(Nat) /\ Len(sizes) \in Nat
         /\ BodySize \in Nat /\ BodySize = Offset[Len(sizes)]
         /\ Offset[0] = 0
         /\ \A i \in 0..Len(sizes) : Offset[i] \in Nat /\ Offset[i] <= BodySize
         /\ \A i \in 1..Len(sizes) : sizes[i] \in Nat /\ Offset[i] = Offset[i - 1] + sizes[i]
         /\ \A j \in 0..Len(sizes) : \A i \in 0..j : Offset[i] <= Offset[j]
         /\ sent \in Nat /\ Arrived \in Nat /\ Arrived <= BodySize
<1>1. sizes \in Seq(Nat)
  BY RecordReaderAssumption, SeqWider DEF Control
<1>2. Sums(Offset, sizes, Len(sizes))
  BY <1>1, OffsetSums
<1>3. \A j \in 0..Len(sizes) : \A i \in 0..j : Offset[i] <= Offset[j]
  BY <1>1, OffsetMonotonic
<1>4. Len(sizes) \in Nat /\ BodySize \in Nat /\ BodySize = Offset[Len(sizes)]
  BY <1>1, <1>2 DEF Sums, BodySize
<1>5. \A i \in 0..Len(sizes) : Offset[i] \in Nat /\ Offset[i] <= BodySize
  BY <1>2, <1>3, <1>4 DEF Sums
<1>6. \A i \in 1..Len(sizes) : sizes[i] \in Nat /\ Offset[i] = Offset[i - 1] + sizes[i]
  BY <1>1, <1>2 DEF Sums
<1>7. sent \in Nat /\ Arrived \in Nat /\ Arrived <= BodySize
  BY <1>4 DEF Control, Arrived, Closed
<1> QED
  BY <1>1, <1>2, <1>3, <1>4, <1>5, <1>6, <1>7 DEF Sums

LEMMA LayoutStays ==
  ASSUME UNCHANGED sizes
  PROVE  /\ Offset' = Offset
         /\ BodySize' = BodySize
         /\ Byte' = Byte
         /\ \A i : Own(i)' = Own(i)
         /\ SomeBytes' = SomeBytes
BY DEF Offset, BodySize, Byte, Own, SomeBytes

LEMMA InStepStays ==
  ASSUME InStep, UNCHANGED <<sizes, sent, data, chunk, log>>
  PROVE  InStep'
<1>1. Byte' = Byte /\ Arrived' = Arrived /\ Closed' = Closed
  BY LayoutStays DEF Arrived, Closed
<1>2. Deque(data, Len(log) + Len(chunk), Arrived)' <=> Deque(data, Len(log) + Len(chunk), Arrived)
  BY <1>1
<1> QED
  BY <1>1, <1>2 DEF InStep, End

\* A byte of a run is one of the body.
LEMMA RunOfBytes ==
  ASSUME Control, NEW a \in Nat, NEW b \in Nat, a <= b, b <= BodySize
  PROVE  Run(a, b) \in Seq(Byte)
<1>1. a + 1 .. b \subseteq Byte
  BY Layout DEF Byte
<1>2. Run(a, b) \in Seq(a + 1 .. b)
  BY RunProperties
<1> QED
  BY <1>1, <1>2, SeqWider

\* The next chunk of the deque.
LEMMA FirstChunk ==
  ASSUME Control, InStep, data # <<>>
  PROVE  LET a == Len(log) + Len(chunk)
         IN  \E m \in a..Arrived : Head(data) = Run(a, m) /\ Deque(Tail(data), m, Arrived)
<1>1. data \in Seq(Seq(Int))
  BY Layout DEF InStep, Byte
<1>2. Arrived \in Nat /\ Len(log) + Len(chunk) \in Nat
  BY Layout DEF InStep, Control
<1> QED
  BY <1>1, <1>2, DequeHead DEF InStep

\* At the end marker everything has arrived and been taken.
LEMMA AtTheEnd ==
  ASSUME Control, InStep, data # <<>>, Head(data) = End
  PROVE  /\ Len(log) + Len(chunk) = BodySize
         /\ Tail(data) = <<>>
         /\ Arrived = BodySize
<1> DEFINE a == Len(log) + Len(chunk)
<1>1. a \in Nat /\ Arrived \in Nat
  BY Layout DEF InStep, Control
<1>2. PICK m \in a..Arrived : Head(data) = Run(a, m) /\ Deque(Tail(data), m, Arrived)
  BY FirstChunk
<1>3. Closed /\ Len(data) = 1
  <2>1. 1 \in 1..Len(data) /\ data[1] = End
    BY DEF InStep
  <2> QED
    BY <2>1 DEF InStep
<1>4. Tail(data) = <<>>
  <2>1. data \in Seq(Seq(Byte))
    BY DEF InStep
  <2> QED
    BY <2>1, <1>3, LastOne, Zenon
<1>5. m = Arrived
  <2>1. m \in Nat
    BY <1>1
  <2>2. Deque(<<>>, m, Arrived)
    BY <1>2, <1>4, Zenon
  <2> QED
    BY <2>1, <2>2, <1>1, DequeEmpty
<1>6. m = a
  BY <1>1, <1>2, RunEmpty DEF End
<1> QED
  BY <1>3, <1>4, <1>5, <1>6 DEF Arrived

-----------------------------------------------------------------------------
(* The thread that receives the body.                                      *)

LEMMA ReceiveChunkKeeps ==
  ASSUME IInv, ReceiveChunk
  PROVE  IInv'
<1> USE DEF IInv
<1>1. PICK n \in 1..MaxChunk : /\ sent + n <= BodySize
                               /\ data' = Append(data, [k \in 1..n |-> sent + k])
                               /\ sent' = sent + n
  BY DEF ReceiveChunk
<1>2. n \in Nat /\ n # 0
  BY RecordReaderAssumption
<1>3. sent \in Nat /\ BodySize \in Nat /\ sent < BodySize
  BY Layout DEF ReceiveChunk
<1>4. UNCHANGED <<proto, habits, sizes, rpc, rec, total, chunk, log>>
  BY DEF ReceiveChunk
<1>5. BodySize' = BodySize /\ Byte' = Byte /\ Offset' = Offset /\ SomeBytes' = SomeBytes
  BY <1>4, LayoutStays
<1>6. ~Closed /\ ~Closed' /\ Arrived = sent /\ Arrived' = sent + n
  BY <1>1, <1>2, <1>3, <1>5 DEF Closed, Arrived
<1>7. [k \in 1..n |-> sent + k] = Run(sent, sent + n)
  BY <1>2, <1>3 DEF Run
<1>8. data' = Append(data, Run(sent, sent + n))
  BY <1>1, <1>7
<1>9. Run(sent, sent + n) \in Seq(Byte) /\ Run(sent, sent + n) # <<>>
  BY <1>1, <1>2, <1>3, RunOfBytes, RunEmpty, SMTT(30)
<1>10. Control'
  BY <1>1, <1>2, <1>3, <1>4, <1>5 DEF Control
<1>11. InStep'
  <2>1. data' \in Seq(Seq(Byte))
    BY <1>8, <1>9 DEF InStep
  <2>2. Deque(data', Len(log) + Len(chunk), sent + n)
    <3>1. data \in Seq(Seq(Int))
      BY Layout DEF InStep, Byte
    <3>2. Len(log) + Len(chunk) \in Nat /\ Len(log) + Len(chunk) <= sent
      BY <1>6 DEF InStep, Control
    <3>3. Deque(data, Len(log) + Len(chunk), sent)
      BY <1>6 DEF InStep
    <3> QED
      BY <3>1, <3>2, <3>3, <1>2, <1>3, <1>8, DequeAppend
  <2>3. \A c \in 1..Len(data') : data'[c] # End
    <3>1. \A c \in 1..Len(data) : data[c] # End
      BY <1>6 DEF InStep
    <3> QED
      BY <3>1, <1>8, <1>9 DEF InStep, End
  <2>4. Len(log) + Len(chunk) <= sent + n
    BY <1>2, <1>3, <1>6 DEF InStep, Control
  <2> QED
    BY <2>1, <2>2, <2>3, <2>4, <1>4, <1>5, <1>6 DEF InStep
<1>12. Fits' /\ (Careful => Aligned)' /\ NoCrash'
  BY <1>4, <1>5, LayoutStays DEF Fits, Record, Careful, Aligned, NoCrash
<1> QED
  BY <1>10, <1>11, <1>12

LEMMA CloseStreamKeeps ==
  ASSUME IInv, CloseStream
  PROVE  IInv'
<1> USE DEF IInv
<1>1. sent = BodySize /\ data' = Append(data, End) /\ sent' = BodySize + 1
  BY DEF CloseStream
<1>2. sent \in Nat /\ BodySize \in Nat
  BY Layout
<1>3. UNCHANGED <<proto, habits, sizes, rpc, rec, total, chunk, log>>
  BY DEF CloseStream
<1>4. BodySize' = BodySize /\ Byte' = Byte /\ Offset' = Offset /\ SomeBytes' = SomeBytes
  BY <1>3, LayoutStays
<1>5. ~Closed /\ Closed' /\ Arrived = BodySize /\ Arrived' = BodySize
  BY <1>1, <1>2, <1>4 DEF Closed, Arrived
<1>6. data' = Append(data, Run(BodySize, BodySize))
  BY <1>1, <1>2, RunEmpty DEF End
<1>7. Control'
  BY <1>1, <1>2, <1>3, <1>4 DEF Control
<1>8. InStep'
  <2>1. data' \in Seq(Seq(Byte))
    BY <1>1 DEF InStep, End
  <2>2. Deque(data', Len(log) + Len(chunk), BodySize)
    <3>1. data \in Seq(Seq(Int))
      BY Layout DEF InStep, Byte
    <3>2. Len(log) + Len(chunk) \in Nat /\ Len(log) + Len(chunk) <= BodySize
      BY <1>5 DEF InStep, Control
    <3>3. Deque(data, Len(log) + Len(chunk), BodySize)
      BY <1>5 DEF InStep
    <3> QED
      BY <3>1, <3>2, <3>3, <1>2, <1>6, DequeAppend
  <2>3. \A c \in 1..Len(data') : data'[c] = End => c = Len(data')
    <3>1. \A c \in 1..Len(data) : data[c] # End
      BY <1>5 DEF InStep
    <3> QED
      BY <3>1, <1>1 DEF InStep
  <2> QED
    BY <2>1, <2>2, <2>3, <1>3, <1>4, <1>5 DEF InStep, End
<1>9. Fits' /\ (Careful => Aligned)' /\ NoCrash'
  BY <1>3, <1>4, LayoutStays DEF Fits, Record, Careful, Aligned, NoCrash
<1> QED
  BY <1>7, <1>8, <1>9

-----------------------------------------------------------------------------
(* The worker.                                                             *)

\* The record being read lies within the body.
LEMMA ThisRecord ==
  ASSUME Control, rec # 0
  PROVE  /\ rec \in 1..Len(sizes) /\ rec - 1 \in 0..Len(sizes) /\ rec \in 0..Len(sizes)
         /\ Record \in Nat
         /\ Offset[rec - 1] \in Nat
         /\ Offset[rec] = Offset[rec - 1] + Record
         /\ Offset[rec] <= BodySize
         /\ proto = "single" => rec = 1 /\ Offset[rec] = BodySize /\ Offset[rec - 1] = 0
<1>1. rec \in 1..Len(sizes) /\ rec - 1 \in 0..Len(sizes) /\ rec \in 0..Len(sizes)
  BY Layout DEF Control
<1>2. ASSUME proto = "single" PROVE rec = 1 /\ rec = Len(sizes) /\ rec - 1 = 0
  <2>1. Len(sizes) = 1
    BY <1>2 DEF Control
  <2> QED
    BY <2>1, <1>1
<1> QED
  BY <1>1, <1>2, Layout DEF Record

LEMMA EnterRecordKeeps ==
  ASSUME IInv, EnterRecord
  PROVE  IInv'
<1> USE DEF IInv
<1>1. /\ rpc = "between" /\ rec < Len(sizes) /\ rec' = rec + 1 /\ rpc' = "read"
      /\ UNCHANGED <<proto, habits, sizes, sent, data, total, chunk, log>>
  BY DEF EnterRecord
<1>2. BodySize' = BodySize /\ Byte' = Byte /\ Offset' = Offset /\ \A i : Own(i)' = Own(i)
  BY <1>1, LayoutStays
<1>3. rec \in Nat /\ rec + 1 \in 1..Len(sizes) /\ total = 0 /\ chunk = <<>>
  BY <1>1, Layout DEF Control
<1>4. sizes[rec + 1] \in Nat
  BY <1>3, Layout
<1>5. Control'
  BY <1>1, <1>2, <1>3 DEF Control
<1>6. InStep'
  BY <1>1, InStepStays
<1>7. Fits'
  BY <1>1, <1>3, <1>4 DEF Fits, Record
<1>8. ASSUME Careful' PROVE Aligned'
  <2>1. Aligned
    BY <1>1, <1>8 DEF Careful
  <2>2. Len(log) = Offset[(rec + 1) - 1] + 0
    BY <2>1, <1>1, <1>3, Layout DEF Aligned, Control
  <2>3. \A k \in 1..Len(log) : log[k].rec \in 1..rec + 1 /\ k \in Own(log[k].rec)
    BY <2>1, <1>3 DEF Aligned
  <2>4. \A k \in 1..Len(log) : k \in Own(log[k].rec)'
    BY <2>3, <1>1, <1>2, Zenon
  <2> QED
    BY <2>2, <2>3, <2>4, <1>1, <1>2, <1>3 DEF Aligned
<1>9. NoCrash'
  BY <1>1 DEF NoCrash
<1> QED
  BY <1>5, <1>6, <1>7, <1>8, <1>9

LEMMA SkipRecordKeeps ==
  ASSUME IInv, SkipRecord
  PROVE  IInv'
<1> USE DEF IInv
<1>1. /\ "skip" \in habits /\ rpc = "between" /\ rec < Len(sizes) /\ rec' = rec + 1
      /\ UNCHANGED <<proto, habits, sizes, sent, data, rpc, total, chunk, log>>
  BY DEF SkipRecord
<1>2. BodySize' = BodySize /\ Byte' = Byte
  BY <1>1, LayoutStays
<1>3. rec + 1 \in 0..Len(sizes) /\ rec + 1 # 0
  BY <1>1, Layout DEF Control
<1>4. Control'
  BY <1>1, <1>2, <1>3 DEF Control
<1>5. InStep'
  BY <1>1, InStepStays
<1>6. Fits' /\ ~Careful' /\ NoCrash'
  BY <1>1 DEF Fits, Careful, NoCrash
<1> QED
  BY <1>4, <1>5, <1>6

LEMMA TakeChunkKeeps ==
  ASSUME IInv, TakeChunk
  PROVE  IInv'
<1> USE DEF IInv
<1> DEFINE remaining == IF Rest = <<>> THEN Tail(data) ELSE <<Rest>> \o Tail(data)
<1>1. /\ rpc = "read" /\ data # <<>> /\ Head(data) # End
      /\ chunk' = SubSeq(Head(data), 1, Cut) /\ data' = remaining
      /\ rpc' = IF Cut = 0 THEN "read" ELSE "deliver"
      /\ UNCHANGED <<proto, habits, sizes, sent, rec, total, log>>
  BY DEF TakeChunk, Take, ChunkReady
<1>2. BodySize' = BodySize /\ Byte' = Byte /\ Offset' = Offset /\ \A i : Own(i)' = Own(i)
  BY <1>1, LayoutStays
<1>3. chunk = <<>> /\ rec # 0 /\ Len(log) \in Nat /\ Len(log) + Len(chunk) = Len(log)
  BY <1>1 DEF Control, InStep
<1>4. PICK m \in Len(log)..Arrived : Head(data) = Run(Len(log), m) /\ Deque(Tail(data), m, Arrived)
  BY <1>1, <1>3, FirstChunk
<1>5. m \in Nat /\ Len(log) <= m /\ m <= Arrived /\ Arrived \in Nat /\ Arrived <= BodySize /\ BodySize \in Nat
  BY <1>3, <1>4, Layout
<1>6. Len(Head(data)) = m - Len(log)
  BY <1>3, <1>4, <1>5, RunProperties
<1>7. /\ Room \in Nat
      /\ proto # "single" => Room = Record - total
      /\ proto = "single" => Room = BodySize
  BY <1>1, <1>3, <1>5, ThisRecord DEF Room, Fits, Control
<1>8. Cut \in Nat /\ Len(log) + Cut <= m /\ Cut <= Room
  BY <1>3, <1>5, <1>6, <1>7 DEF Cut
<1> DEFINE a == Len(log)
           e == Len(log) + Cut
<1>9. /\ a \in Nat /\ e \in Nat /\ a <= e /\ e <= m /\ e <= BodySize /\ m <= BodySize
      /\ e - a = Cut /\ e = a + Cut /\ a + Cut <= m
  BY <1>3, <1>5, <1>8
<1>10. chunk' = Run(a, e) /\ Rest = Run(e, m)
  <2>1. SubSeq(Run(a, m), 1, Cut) = Run(a, a + Cut) /\ SubSeq(Run(a, m), Cut + 1, m - a) = Run(a + Cut, m)
    BY <1>5, <1>8, <1>9, RunCut, ZenonT(60)
  <2>2. chunk' = SubSeq(Run(a, m), 1, Cut)
    BY <1>1, <1>4, Zenon
  <2>3. Rest = SubSeq(Run(a, m), Cut + 1, m - a)
    BY <1>4, <1>6, Zenon DEF Rest
  <2> QED
    BY <2>1, <2>2, <2>3, <1>9, Zenon
<1> HIDE DEF a, e
<1>11. Len(chunk') = Cut /\ chunk' \in Seq(Byte)
  <2>1. Run(a, e) \in Seq(Byte)
    BY <1>9, RunOfBytes, Zenon
  <2>2. Len(Run(a, e)) = e - a
    BY <1>9, RunProperties, Zenon
  <2> QED
    BY <2>1, <2>2, <1>9, <1>10
<1>12. Rest \in Seq(Byte) /\ (Rest = <<>> <=> e = m)
  <2>1. Run(e, m) \in Seq(Byte)
    BY <1>5, <1>9, RunOfBytes, Zenon
  <2>2. (Run(e, m) = <<>>) <=> (e = m)
    BY <1>5, <1>9, RunEmpty, Zenon
  <2> QED
    BY <2>1, <2>2, <1>10, Zenon
<1>13. Tail(data) \in Seq(Seq(Byte)) /\ Tail(data) \in Seq(Seq(Int))
  BY <1>1, Layout DEF InStep, Byte
<1>14. Control'
  <2>1. Cut = 0 => chunk' = <<>>
    BY <1>11
  <2> QED
    BY <2>1, <1>1, <1>2, <1>3, <1>11 DEF Control
<1>15. InStep'
  <2>1. Arrived' = Arrived /\ Closed' = Closed
    BY <1>1, <1>2 DEF Arrived, Closed
  <2>2. Deque(remaining, e, Arrived)
    <3>1. CASE Rest = <<>>
      BY <3>1, <1>4, <1>12
    <3>2. CASE Rest # <<>>
      <4>1. Deque(<<Run(e, m)>> \o Tail(data), e, Arrived)
        BY <1>4, <1>5, <1>9, <1>13, DequePushFront, Zenon
      <4> QED
        BY <4>1, <3>2, <1>10, Zenon
    <3> QED
      BY <3>1, <3>2
  <2>3. remaining \in Seq(Seq(Byte))
    BY <1>12, <1>13
  <2>4. \A c \in 1..Len(remaining) : remaining[c] = End => Closed /\ c = Len(remaining)
    <3>1. \A c \in 1..Len(data) - 1 : Tail(data)[c] = End => Closed /\ c = Len(data) - 1
      BY <1>1 DEF InStep
    <3>2. Len(Tail(data)) = Len(data) - 1 /\ Len(data) \in Nat \ {0}
      BY <1>1 DEF InStep
    <3>3. CASE Rest = <<>>
      BY <3>1, <3>2, <3>3
    <3>4. CASE Rest # <<>>
      <4> DEFINE t == Tail(data)
      <4> HIDE DEF t
      <4>1. t \in Seq(Seq(Byte)) /\ Len(t) = Len(data) - 1
            /\ \A c \in 1..Len(data) - 1 : t[c] = End => Closed /\ c = Len(data) - 1
        BY <3>1, <3>2, <1>13 DEF t
      <4>2. \A c \in 1..Len(<<Rest>> \o t) : (<<Rest>> \o t)[c] = End => Closed /\ c = Len(<<Rest>> \o t)
        BY <4>1, <3>2, <3>4 DEF End
      <4> QED
        BY <4>2, <3>4 DEF t
    <3> QED
      BY <3>3, <3>4
  <2>5. Len(log) + Cut <= Arrived
    BY <1>3, <1>5, <1>8
  <2> HIDE DEF remaining
  <2> QED
    BY <2>1, <2>2, <2>3, <2>4, <2>5, <1>1, <1>2, <1>10, <1>11 DEF InStep, End, a, e
<1>16. Fits'
  <2>1. ASSUME proto # "single"
        PROVE  total + Cut <= Record /\ (Cut = 0 => total < Record \/ Record = 0)
    BY <2>1, <1>1, <1>3, <1>7, <1>8, ThisRecord, SMTT(30) DEF Fits, Control
  <2> QED
    BY <2>1, <1>1, <1>11 DEF Fits, Record
<1>17. ASSUME Careful' PROVE Aligned'
  <2>1. Aligned
    BY <1>1, <1>17 DEF Careful
  <2>2. \A k \in 1..Len(log) : k \in Own(log[k].rec)'
    <3>1. \A k \in 1..Len(log) : k \in Own(log[k].rec)
      BY <2>1 DEF Aligned
    <3> QED
      BY <3>1, <1>1, <1>2, Zenon
  <2> QED
    BY <2>1, <2>2, <1>1, <1>2 DEF Aligned
<1>18. NoCrash'
  BY <1>1 DEF NoCrash
<1> QED
  BY <1>14, <1>15, <1>16, <1>17, <1>18

LEMMA ReadToEndKeeps ==
  ASSUME IInv, ReadToEnd
  PROVE  IInv'
<1> USE DEF IInv
<1>1. /\ rpc = "read" /\ data # <<>> /\ Head(data) = End /\ data' = Tail(data) /\ rpc' = "after"
      /\ UNCHANGED <<proto, habits, sizes, sent, rec, total, chunk, log>>
  BY DEF ReadToEnd
<1>2. BodySize' = BodySize /\ Byte' = Byte /\ Offset' = Offset /\ \A i : Own(i)' = Own(i)
  BY <1>1, LayoutStays
<1>3. chunk = <<>> /\ rec # 0 /\ Len(log) \in Nat
  BY <1>1 DEF Control, InStep
<1>4. Len(log) = BodySize /\ data' = <<>> /\ Arrived = BodySize
  BY <1>1, <1>3, AtTheEnd
<1>5. Control'
  BY <1>1, <1>2, <1>3 DEF Control
<1>6. InStep'
  <2>1. Arrived' = BodySize
    BY <1>1, <1>2, <1>4 DEF Arrived, Closed
  <2>2. Deque(<<>>, BodySize, BodySize)
    BY Layout, DequeEmpty
  <2>3. Len(log) + Len(chunk) = BodySize
    BY <1>3, <1>4
  <2>4. Deque(data', Len(log') + Len(chunk'), Arrived')
    BY <2>1, <2>2, <2>3, <1>1, <1>4, Zenon
  <2>5. data' \in Seq(Seq(Byte)) /\ Len(data') = 0
    BY <1>4
  <2>6. Len(log') + Len(chunk') <= Arrived'
    BY <2>1, <2>3, <1>1, Layout
  <2> QED
    BY <2>4, <2>5, <2>6, <1>1, <1>2 DEF InStep
<1>7. Fits' /\ NoCrash'
  BY <1>1 DEF Fits, NoCrash
<1>8. ASSUME Careful' PROVE Aligned'
  <2>1. Aligned
    BY <1>1, <1>8 DEF Careful
  <2>2. \A k \in 1..Len(log) : k \in Own(log[k].rec)'
    <3>1. \A k \in 1..Len(log) : k \in Own(log[k].rec)
      BY <2>1 DEF Aligned
    <3> QED
      BY <3>1, <1>1, <1>2, Zenon
  <2>3. Len(log) = Offset[rec]
    BY <2>1, <1>1, <1>3, <1>4, ThisRecord, SMTT(30) DEF Aligned, Fits, Control
  <2> QED
    BY <2>1, <2>2, <2>3, <1>1, <1>2 DEF Aligned
<1> QED
  BY <1>5, <1>6, <1>7, <1>8

LEMMA ReadToEndUncheckedKeeps ==
  ASSUME IInv, ReadToEndUnchecked
  PROVE  IInv'
<1> USE DEF IInv
<1>1. /\ proto = "v1" /\ rpc = "read" /\ data # <<>> /\ Head(data) = End /\ rpc' = "crashed"
      /\ UNCHANGED <<proto, habits, sizes, sent, data, rec, total, chunk, log>>
  BY DEF ReadToEndUnchecked
<1>2. BodySize' = BodySize /\ Byte' = Byte /\ Offset' = Offset /\ \A i : Own(i)' = Own(i)
  BY <1>1, LayoutStays
<1>3. chunk = <<>> /\ rec # 0 /\ Len(log) \in Nat
  BY <1>1 DEF Control, InStep
<1>4. Len(log) = BodySize
  BY <1>1, <1>3, AtTheEnd
<1>5. Control'
  BY <1>1, <1>2, <1>3 DEF Control
<1>6. InStep'
  BY <1>1, InStepStays
<1>7. Fits'
  BY <1>1 DEF Fits
<1>8. ASSUME Careful' PROVE Aligned'
  <2>1. Aligned
    BY <1>1, <1>8 DEF Careful
  <2>2. \A k \in 1..Len(log) : k \in Own(log[k].rec)'
    <3>1. \A k \in 1..Len(log) : k \in Own(log[k].rec)
      BY <2>1 DEF Aligned
    <3> QED
      BY <3>1, <1>1, <1>2, Zenon
  <2> QED
    BY <2>1, <2>2, <1>1, <1>2 DEF Aligned
<1>9. NoCrash'
  <2> SUFFICES ASSUME Careful, SomeBytes PROVE FALSE
    BY <1>1, LayoutStays DEF NoCrash, Careful
  <2>1. Record > 0
    BY ThisRecord, <1>3 DEF SomeBytes, Record
  <2>2. total < Record /\ Len(log) = Offset[rec - 1] + total
    BY <2>1, <1>1 DEF Fits, Aligned
  <2> QED
    BY <2>2, <1>3, <1>4, ThisRecord, SMTT(30) DEF Control
<1> QED
  BY <1>5, <1>6, <1>7, <1>8, <1>9

LEMMA DeliverKeeps ==
  ASSUME IInv, Deliver
  PROVE  IInv'
<1> USE DEF IInv
<1> DEFINE given == [k \in 1..Len(chunk) |-> [rec |-> rec, byte |-> chunk[k]]]
<1>1. /\ rpc = "deliver" /\ log' = log \o given /\ total' = total + Len(chunk) /\ chunk' = <<>>
      /\ UNCHANGED <<proto, habits, sizes, sent, data, rec>>
  BY DEF Deliver, GiveChunk
<1>2. \/ rpc' = IF proto # "single" /\ total' >= Record THEN "after" ELSE "read"
      \/ "partial" \in habits /\ rpc' = "after"
  BY DEF Deliver
<1>3. BodySize' = BodySize /\ Byte' = Byte /\ Offset' = Offset /\ \A i : Own(i)' = Own(i)
  BY <1>1, LayoutStays
<1> DEFINE L == Len(log)
           n == Len(chunk)
<1>4. rec # 0 /\ L \in Nat /\ n \in Nat /\ total \in Nat /\ chunk = Run(L, L + n) /\ L + n <= Arrived
  BY <1>1 DEF Control, InStep
<1>5. Arrived \in Nat /\ Arrived <= BodySize /\ BodySize \in Nat
  BY Layout
<1>6. \A k \in 1..n : chunk[k] = L + k /\ L + k \in Byte
  <2>1. \A k \in 1..(L + n) - L : Run(L, L + n)[k] = L + k
    BY <1>4 DEF Run
  <2> QED
    BY <2>1, <1>4, <1>5 DEF Byte
<1>7. rec \in Nat /\ rec \in 1..Len(sizes)
  BY <1>4, ThisRecord
<1>8. given \in Seq([rec : Nat, byte : Byte]) /\ Len(given) = n
  BY <1>4, <1>6, <1>7
<1>9. /\ log' \in Seq([rec : Nat, byte : Byte])
      /\ Len(log') = L + n
      /\ \A k \in 1..L : log'[k] = log[k]
      /\ \A k \in L + 1 .. L + n : log'[k].rec = rec /\ log'[k].byte = k
  <2>1. log \in Seq([rec : Nat, byte : Byte])
    BY DEF InStep
  <2>2. \A k \in 1..n : given[k] = [rec |-> rec, byte |-> L + k]
    BY <1>6
  <2> HIDE DEF given
  <2>3. \A k \in L + 1 .. L + n : (log \o given)[k] = given[k - L] /\ k - L \in 1..n /\ L + (k - L) = k
    BY <2>1, <1>4, <1>8
  <2>4. ASSUME NEW k \in L + 1 .. L + n PROVE log'[k].rec = rec /\ log'[k].byte = k
    <3>1. log'[k] = given[k - L] /\ k - L \in 1..n /\ L + (k - L) = k
      BY <2>3, <1>1
    <3>2. given[k - L] = [rec |-> rec, byte |-> L + (k - L)]
      BY <3>1, <2>2
    <3> QED
      BY <3>1, <3>2
  <2>5. log' \in Seq([rec : Nat, byte : Byte]) /\ Len(log') = L + n
    BY <2>1, <1>1, <1>8, ConcatLength DEF L
  <2>6. \A k \in 1..L : log'[k] = log[k]
    BY <2>1, <1>1, <1>8
  <2> QED
    BY <2>4, <2>5, <2>6
<1> HIDE DEF given, L, n
<1>10. Control'
  BY <1>1, <1>2, <1>3, <1>4 DEF Control, n
<1>11. InStep'
  <2>1. Arrived' = Arrived /\ Closed' = Closed
    BY <1>1, <1>3 DEF Arrived, Closed
  <2>2. Len(log') + Len(chunk') = L + n /\ Len(log') = L + n
    BY <1>1, <1>4, <1>9
  <2>3. chunk' = Run(L + n, L + n)
    BY <1>1, <1>4, RunEmpty
  <2>4. \A k \in 1..L + n : log'[k].byte = k
    <3>1. \A k \in 1..L : log[k].byte = k
      BY DEF InStep, L
    <3>2. \A k \in 1..L + n : k \in 1..L \/ k \in L + 1 .. L + n
      BY <1>4
    <3> QED
      BY <3>1, <3>2, <1>9
  <2>5. Deque(data, L + n, Arrived)
    BY DEF InStep, L, n
  <2> QED
    BY <2>1, <2>2, <2>3, <2>4, <2>5, <1>1, <1>3, <1>4, <1>9 DEF InStep, End
<1>12. Fits'
  BY <1>1, <1>2, <1>4, ThisRecord DEF Fits, Record, Control, n
<1>13. ASSUME Careful' PROVE Aligned'
  <2>1. Aligned /\ habits = {}
    BY <1>1, <1>13 DEF Careful
  <2>2. L = Offset[rec - 1] + total
    BY <2>1, <1>1 DEF Aligned, L
  <2> DEFINE from == Offset[rec - 1]
             to == Offset[rec]
             size == Record
  <2>3. /\ from \in Nat /\ to \in Nat /\ size \in Nat /\ to = from + size
        /\ proto = "single" => to = BodySize
    BY <1>4, ThisRecord
  <2>4. proto # "single" => total + n <= size
    BY <1>1 DEF Fits, n
  <2> HIDE DEF from, to, size
  <2>5. L + n <= to
    BY <2>2, <2>3, <2>4, <1>4, <1>5 DEF from
  <2>6. ASSUME NEW k \in 1..L + n PROVE log'[k].rec \in 1..rec /\ k \in Own(log'[k].rec)
    <3>1. CASE k \in 1..L
      BY <3>1, <2>1, <1>9 DEF Aligned, L
    <3>2. CASE k \in L + 1 .. L + n
      <4>1. log'[k].rec = rec
        BY <3>2, <1>9
      <4>2. k \in Own(rec)
        <5>1. from + 1 <= k /\ k <= to /\ k \in Int
          BY <3>2, <2>2, <2>5, <2>3, <1>4 DEF from
        <5> QED
          BY <5>1, <2>3 DEF Own, from, to
      <4> QED
        BY <4>1, <4>2, <1>7
    <3> QED
      BY <3>1, <3>2, <1>4
  <2>7. \A k \in 1..Len(log') : log'[k].rec \in 1..rec /\ k \in Own(log'[k].rec)
    BY <2>6, <1>9
  <2>8. \A k \in 1..Len(log') : k \in (Own(log[k].rec))'
    BY <2>7, <1>3, Zenon
  <2>9. rpc' = "after" => L + n = to
    <3>1. rpc' = "after" => total + n >= size
      BY <2>1, <1>1, <1>2 DEF n, size
    <3> QED
      BY <3>1, <2>2, <2>5, <2>3, <1>4 DEF from
  <2>10. L + n = from + (total + n)
    BY <2>2, <2>3, <1>4 DEF from
  <2>11. rpc' \in {"read", "after"}
    BY <1>2
  <2> QED
    BY <2>7, <2>8, <2>9, <2>10, <2>11, <1>1, <1>3, <1>9 DEF Aligned, n, from, to
<1>14. NoCrash'
  BY <1>2 DEF NoCrash
<1> QED
  BY <1>10, <1>11, <1>12, <1>13, <1>14

LEMMA ReadAgainKeeps ==
  ASSUME IInv, ReadAgain
  PROVE  IInv'
<1> USE DEF IInv
<1>1. /\ "again" \in habits /\ rpc = "after" /\ total' = 0 /\ rpc' = "read"
      /\ UNCHANGED <<proto, habits, sizes, sent, data, rec, chunk, log>>
  BY DEF ReadAgain
<1>2. BodySize' = BodySize /\ Byte' = Byte
  BY <1>1, LayoutStays
<1>3. rec # 0 /\ chunk = <<>> /\ Record \in Nat
  BY <1>1, ThisRecord DEF Control
<1>4. Control'
  BY <1>1, <1>2, <1>3 DEF Control
<1>5. InStep'
  BY <1>1, InStepStays
<1>6. Fits'
  BY <1>1, <1>3 DEF Fits, Record
<1>7. ~Careful' /\ NoCrash'
  BY <1>1 DEF Careful, NoCrash
<1> QED
  BY <1>4, <1>5, <1>6, <1>7

LEMMA LeaveRecordKeeps ==
  ASSUME IInv, LeaveRecord
  PROVE  IInv'
<1> USE DEF IInv
<1>1. /\ rpc = "after" /\ total' = 0 /\ rpc' = "between"
      /\ UNCHANGED <<proto, habits, sizes, sent, data, rec, chunk, log>>
  BY DEF LeaveRecord
<1>2. BodySize' = BodySize /\ Byte' = Byte /\ Offset' = Offset /\ \A i : Own(i)' = Own(i)
  BY <1>1, LayoutStays
<1>3. Control'
  BY <1>1, <1>2 DEF Control
<1>4. InStep'
  BY <1>1, InStepStays
<1>5. Fits' /\ NoCrash'
  BY <1>1 DEF Fits, NoCrash
<1>6. ASSUME Careful' PROVE Aligned'
  <2>1. Aligned
    BY <1>1, <1>6 DEF Careful
  <2>2. \A k \in 1..Len(log) : k \in Own(log[k].rec)'
    <3>1. \A k \in 1..Len(log) : k \in Own(log[k].rec)
      BY <2>1 DEF Aligned
    <3> QED
      BY <3>1, <1>1, <1>2, Zenon
  <2> QED
    BY <2>1, <2>2, <1>1, <1>2 DEF Aligned
<1> QED
  BY <1>3, <1>4, <1>5, <1>6

-----------------------------------------------------------------------------
(* The invariant holds, and what it says of the properties.                *)

LEMMA InitIInv == Init => IInv
<1> SUFFICES ASSUME Init PROVE IInv
  OBVIOUS
<1>1. PICK n \in (IF proto = "single" THEN {1} ELSE 1..MaxRecords) : sizes \in [1..n -> Sizes]
  BY DEF Init
<1>2. n \in Nat
  BY RecordReaderAssumption
<1>3. sizes \in Seq(Sizes) /\ Len(sizes) = n
  BY <1>1, <1>2
<1>4. sizes \in Seq(Nat)
  BY <1>3, RecordReaderAssumption, SeqWider
<1>5. Sums(Offset, sizes, Len(sizes))
  BY <1>4, OffsetSums
<1>6. BodySize \in Nat /\ Offset[0] = 0
  BY <1>2, <1>3, <1>5 DEF Sums, BodySize
<1>7. Control
  BY <1>1, <1>3, <1>6 DEF Init, Control
<1>8. InStep
  <2>1. ~Closed /\ Arrived = 0
    BY <1>6 DEF Init, Closed, Arrived
  <2>2. Deque(<<>>, 0, 0) /\ Run(0, 0) = <<>>
    BY DequeEmpty, RunEmpty
  <2> QED
    BY <2>1, <2>2 DEF Init, InStep
<1>9. Fits /\ Aligned /\ NoCrash
  BY <1>6 DEF Init, Fits, Aligned, NoCrash
<1> QED
  BY <1>7, <1>8, <1>9 DEF IInv

LEMMA StutterIInv ==
  ASSUME IInv, UNCHANGED vars
  PROVE  IInv'
<1>1. UNCHANGED <<proto, habits, sizes, sent, data, rpc, rec, total, chunk, log>>
  BY DEF vars
<1>2. BodySize' = BodySize /\ Byte' = Byte /\ Offset' = Offset /\ SomeBytes' = SomeBytes /\ \A i : Own(i)' = Own(i)
  BY <1>1, LayoutStays
<1>3. InStep'
  BY <1>1, InStepStays DEF IInv
<1>4. Control' /\ Fits' /\ NoCrash'
  BY <1>1, <1>2 DEF IInv, Control, Fits, Record, NoCrash, Careful
<1>5. ASSUME Careful' PROVE Aligned'
  <2>1. Aligned
    BY <1>1, <1>5 DEF IInv, Careful
  <2>2. \A k \in 1..Len(log) : k \in Own(log[k].rec)'
    <3>1. \A k \in 1..Len(log) : k \in Own(log[k].rec)
      BY <2>1 DEF Aligned
    <3> QED
      BY <3>1, <1>1, <1>2, Zenon
  <2> QED
    BY <2>1, <2>2, <1>1, <1>2 DEF Aligned
<1> QED
  BY <1>3, <1>4, <1>5 DEF IInv

LEMMA NextIInv == IInv /\ [Next]_vars => IInv'
<1> SUFFICES ASSUME IInv, [Next]_vars PROVE IInv'
  OBVIOUS
<1>1. CASE ReceiveChunk
  BY <1>1, ReceiveChunkKeeps
<1>2. CASE CloseStream
  BY <1>2, CloseStreamKeeps
<1>3. CASE EnterRecord
  BY <1>3, EnterRecordKeeps
<1>4. CASE SkipRecord
  BY <1>4, SkipRecordKeeps
<1>5. CASE TakeChunk
  BY <1>5, TakeChunkKeeps
<1>6. CASE ReadToEnd
  BY <1>6, ReadToEndKeeps
<1>7. CASE ReadToEndUnchecked
  BY <1>7, ReadToEndUncheckedKeeps
<1>8. CASE Deliver
  BY <1>8, DeliverKeeps
<1>9. CASE ReadAgain
  BY <1>9, ReadAgainKeeps
<1>10. CASE LeaveRecord
  BY <1>10, LeaveRecordKeeps
<1>11. CASE UNCHANGED vars
  BY <1>11, StutterIInv
<1> QED
  BY <1>1, <1>2, <1>3, <1>4, <1>5, <1>6, <1>7, <1>8, <1>9, <1>10, <1>11
     DEF Next, ReaderStep, Poll, Finished

LEMMA IInvHolds == Spec => []IInv
BY InitIInv, NextIInv, PTL DEF Spec

\* No byte belongs to two records.
LEMMA OneOwner ==
  ASSUME Control, NEW i \in 1..Len(sizes), NEW j \in 1..Len(sizes), NEW k \in Own(i), k \in Own(j)
  PROVE  i = j
<1>1. ASSUME NEW p \in 1..Len(sizes), NEW q \in 1..Len(sizes), k \in Own(p), k \in Own(q) PROVE ~(p < q)
  <2> SUFFICES ASSUME p < q PROVE FALSE
    OBVIOUS
  <2>1. Len(sizes) \in Nat /\ p \in 0..(q - 1) /\ q - 1 \in 0..Len(sizes) /\ p \in 0..Len(sizes)
    BY Layout
  <2>2. Offset[p] <= Offset[q - 1] /\ Offset[p] \in Nat /\ Offset[q - 1] \in Nat
    BY <2>1, Layout
  <2> QED
    BY <2>2, <1>1 DEF Own
<1>2. ~(i < j) /\ ~(j < i)
  BY <1>1
<1> QED
  BY <1>2

\* A careful callback's bytes are those of its record among the first Len(log).
LEMMA GivenIsOwn ==
  ASSUME Control, InStep, Aligned, NEW i \in 1..Len(sizes)
  PROVE  \A b : b \in Given(i) <=> b \in 1..Len(log) /\ b \in Own(i)
<1>1. ASSUME NEW b \in Given(i) PROVE b \in 1..Len(log) /\ b \in Own(i)
  <2>1. PICK k \in 1..Len(log) : log[k].rec = i /\ log[k].byte = b
    BY DEF Given
  <2>2. b = k
    BY <2>1 DEF InStep
  <2>3. k \in Own(log[k].rec)
    BY DEF Aligned
  <2> QED
    BY <2>1, <2>2, <2>3
<1>2. ASSUME NEW b \in 1..Len(log), b \in Own(i) PROVE b \in Given(i)
  <2>1. log[b].rec \in 1..rec /\ b \in Own(log[b].rec) /\ log[b].byte = b
    BY DEF Aligned, InStep
  <2>2. log[b].rec \in 1..Len(sizes)
    BY <2>1, Layout, SMTT(30) DEF Control
  <2>3. log[b].rec = i
    BY <2>1, <2>2, <1>2, OneOwner
  <2> QED
    BY <2>1, <2>3 DEF Given
<1> QED
  BY <1>1, <1>2

\* The state has the types of TypeOK: every chunk in the deque and in Read's
\* hand holds bytes of the body, and no record past the last is read
\* (bucket.cc 682-695, batch_v2.cc 302-344).
THEOREM TypeCorrect == Spec => []TypeOK
<1>1. IInv => TypeOK
  <2> SUFFICES ASSUME IInv PROVE TypeOK
    OBVIOUS
  <2>1. Control /\ InStep
    BY DEF IInv
  <2>2. sent \in Nat
    BY <2>1, Layout
  <2> QED
    BY <2>1, <2>2 DEF Control, InStep, TypeOK
<1> QED
  BY <1>1, IInvHolds, PTL

\* Whatever the callbacks do, the bytes of the body are given in order and none
\* twice (batch_v1.cc 156-160, batch_v2.cc 316-320).
THEOREM BytesInOrderCorrect == Spec => []BytesInOrder
<1>1. IInv => BytesInOrder
  BY DEF IInv, InStep, BytesInOrder
<1> QED
  BY <1>1, IInvHolds, PTL

\* Callbacks that read their record once and to the end get bytes of that
\* record only, from its first byte on (batch_v1.cc 147-181, batch_v2.cc 307-341).
THEOREM CarefulGetOwnBytesCorrect == Spec => []CarefulGetOwnBytes
<1>1. IInv => CarefulGetOwnBytes
  <2> SUFFICES ASSUME IInv, Careful, NEW i \in 1..Len(sizes), NEW b \in Given(i)
               PROVE  b \in Own(i) /\ Offset[i - 1] + 1 .. b \subseteq Given(i)
    BY DEF CarefulGetOwnBytes, OwnBytes
  <2>1. Control /\ InStep /\ Aligned
    BY DEF IInv
  <2>2. \A x : x \in Given(i) <=> x \in 1..Len(log) /\ x \in Own(i)
    BY <2>1, GivenIsOwn
  <2>3. b \in 1..Len(log) /\ b \in Own(i)
    BY <2>2
  <2>4. Len(sizes) \in Nat /\ i \in 0..Len(sizes) /\ i - 1 \in 0..Len(sizes)
    BY <2>1, Layout
  <2>5. Offset[i - 1] \in Nat /\ Offset[i] \in Nat
    BY <2>1, <2>4, Layout
  <2>6. ASSUME NEW x \in Offset[i - 1] + 1 .. b PROVE x \in 1..Len(log) /\ x \in Own(i)
    BY <2>3, <2>5 DEF Own
  <2> QED
    BY <2>2, <2>3, <2>6
<1> QED
  BY <1>1, IInvHolds, PTL

\* After its callback a record has been given whole, whatever came before it
\* (batch_v1.cc 168-180, batch_v2.cc 328-340).
THEOREM WholeRecordsCorrect == Spec => []WholeRecords
<1>1. IInv => WholeRecords
  <2> SUFFICES ASSUME IInv, Careful, NEW i \in 1..Len(sizes), i < rec \/ (i = rec /\ rpc = "between")
               PROVE  Given(i) = Own(i)
    BY DEF WholeRecords
  <2>1. Control /\ InStep /\ Aligned
    BY DEF IInv
  <2>2. \A x : x \in Given(i) <=> x \in 1..Len(log) /\ x \in Own(i)
    BY <2>1, GivenIsOwn
  <2>3. /\ Len(sizes) \in Nat /\ rec \in 0..Len(sizes) /\ i \in 0..Len(sizes) /\ i - 1 \in 0..Len(sizes)
        /\ i \in 0..rec /\ (i < rec => i \in 0..(rec - 1) /\ rec - 1 \in 0..Len(sizes))
    BY <2>1, Layout, SMTT(30) DEF Control
  <2>4. Offset[i - 1] \in Nat /\ Offset[i] \in Nat
    BY <2>1, <2>3, Layout
  <2>5. Offset[i] <= Len(log)
    <3>1. CASE rpc \in {"between", "after"}
      <4>1. Offset[i] <= Offset[rec]
        BY <2>1, <2>3, Layout
      <4> QED
        BY <4>1, <3>1, <2>1 DEF Aligned
    <3>2. CASE rpc \notin {"between", "after"}
      <4>1. Offset[i] <= Offset[rec - 1] /\ Offset[rec - 1] \in Nat
        BY <3>2, <2>1, <2>3, Layout
      <4>2. total \in Nat /\ Len(log) = Offset[rec - 1] + total
        BY <3>2, <2>1 DEF Aligned, Control
      <4> QED
        BY <4>1, <4>2, <2>4
    <3> QED
      BY <3>1, <3>2
  <2>6. ASSUME NEW x \in Own(i) PROVE x \in 1..Len(log)
    <3>1. Len(log) \in Nat
      BY <2>1 DEF InStep
    <3> QED
      BY <3>1, <2>4, <2>5 DEF Own
  <2> QED
    BY <2>2, <2>6
<1> QED
  BY <1>1, IInvHolds, PTL

\* With careful callbacks and no empty record the V1 reader never meets the end
\* marker in place of a chunk (batch_v1.cc 152-156).
THEOREM NoCrashCorrect == Spec => []NoCrash
<1>1. IInv => NoCrash
  BY DEF IInv
<1> QED
  BY <1>1, IInvHolds, PTL
=============================================================================
