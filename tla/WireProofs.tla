----------------------------- MODULE WireProofs -----------------------------
(***************************************************************************)
(* What goes over the wire: WriteStream, the body of a write, for data of  *)
(* every length, every chunk size and whatever the callback returns; and   *)
(* BatchResponse, the headers of a batch response, for any number of       *)
(* records and entries and all times.                                      *)
(*                                                                         *)
(* WriteStream: the bytes on the wire rise (Rising), and unless a stream   *)
(* was cut they are the first ones of the data (Prefix), because the next  *)
(* chunk begins where the wire ends.                                       *)
(*                                                                         *)
(* BatchResponse: the headers are those of the records sent, each under    *)
(* its own key (Held), and the keys rise in the order of the body.  There  *)
(* is only one way to put keys in order (OnlyOrder), so both parsers find  *)
(* the order of the body; V1 as long as strings of digits order as the     *)
(* numbers they stand for (DigitsOrder).  After each turn of the V2 loop   *)
(* the record remembered for an entry is the last one sent of it           *)
(* (TurnsGo), which is what its next header leaves out.                    *)
(***************************************************************************)
EXTENDS WriteStream, BatchResponse, TLAPS, FiniteSetTheorems, SequenceTheorems, WellFoundedInduction

-----------------------------------------------------------------------------
(* WriteStream.                                                            *)


-----------------------------------------------------------------------------
(* The inductive invariant.                                                *)

Cutting == record.reads = "stream" /\ overlong

Types ==
  /\ record \in [content_length : 0..Length, reads : {"nothing", "position", "stream", "all"}, length : 0..Length]
  /\ phase \in {"filling", "sending", "waiting", "ok", "error"}
  /\ taken \in 0..record.length
  /\ overlong \in BOOLEAN
  /\ wire \in Seq(1..Length)
  /\ record.reads = "all" => record.content_length = record.length

Rising ==
  /\ \A i, j \in 1..Len(wire) : i < j => wire[i] < wire[j]
  /\ record.reads = "stream" => \A i \in 1..Len(wire) : wire[i] <= taken

Prefix ==
  /\ Len(wire) <= record.length
  /\ Len(wire) <= record.content_length
  /\ record.reads = "nothing" => wire = <<>>
  /\ record.reads = "stream" => Len(wire) <= taken
  /\ record.reads = "stream" /\ ~overlong => taken = Len(wire)
  /\ ~Cutting => \A i \in 1..Len(wire) : wire[i] = i

\* The wire is empty before the request and final once it is stored.
Phases ==
  /\ phase = "filling" => wire = <<>> /\ taken = 0 /\ overlong = FALSE
  /\ phase \in {"waiting", "ok"} => Len(wire) = record.content_length
  /\ stored # {} => /\ phase \in {"waiting", "ok", "error"}
                    /\ stored = {wire}
                    /\ Len(wire) = record.content_length

IInv == Types /\ Rising /\ Prefix /\ Phases

-----------------------------------------------------------------------------
(* Sequences.                                                              *)

LEMMA Elements ==
  ASSUME NEW S, NEW s \in Seq(S)
  PROVE  Len(s) \in Nat /\ DOMAIN s = 1..Len(s) /\ \A i \in 1..Len(s) : s[i] \in S
OBVIOUS

LEMMA Narrower ==
  ASSUME NEW S, NEW T, NEW s \in Seq(T), \A i \in 1..Len(s) : s[i] \in S
  PROVE  s \in Seq(S)
OBVIOUS

LEMMA Joined ==
  ASSUME NEW S, NEW s \in Seq(S), NEW t \in Seq(S)
  PROVE  /\ s \o t \in Seq(S)
         /\ Len(s \o t) = Len(s) + Len(t)
         /\ \A i \in 1..Len(s) : (s \o t)[i] = s[i]
         /\ \A i \in Len(s) + 1 .. Len(s) + Len(t) : (s \o t)[i] = t[i - Len(s)]
OBVIOUS

-----------------------------------------------------------------------------
(* Chunks.                                                                 *)

\* What the record's fields are.
LEMMA Fields ==
  ASSUME Types
  PROVE  /\ record.content_length \in Nat /\ record.content_length <= Length
         /\ record.length \in Nat /\ record.length <= Length
         /\ record.reads \in {"nothing", "position", "stream", "all"}
         /\ taken \in Nat /\ taken <= record.length
         /\ Len(wire) \in Nat
BY SizeAssumption DEF Types

\* The bytes from + 1 .. from + k.
Piece(data, from, k) ==
  /\ data \in Seq(Nat)
  /\ Len(data) = k
  /\ \A i \in 1..k : data[i] = from + i

LEMMA PieceOfData ==
  ASSUME NEW n \in Nat, NEW from \in Nat, NEW k \in Nat, from + k <= n
  PROVE  Piece(SubSeq(Data(n), from + 1, from + k), from, k)
BY DEF Data, Piece

LEMMA PieceCut ==
  ASSUME NEW from \in Nat, NEW k \in Nat, NEW c \in Nat, c <= k, NEW data, Piece(data, from, k)
  PROVE  Piece(SubSeq(data, 1, c), from, c)
BY DEF Piece

\* Every chunk that the callback may return begins where it reads next.
LEMMA ChunkShape ==
  ASSUME Types, Prefix, Len(wire) < record.content_length, NEW data \in Chunks
  PROVE  /\ record.reads # "nothing"
         /\ From \in Nat
         /\ \E k \in Nat : From + k <= record.length /\ Piece(data, From, k)
<1> DEFINE n == record.length - From
           Upto(k) == SubSeq(Data(record.length), From + 1, From + k)
<1>1. record.reads # "nothing"
  BY DEF Chunks
<1>2. From \in Nat /\ From <= record.length /\ record.length \in Nat /\ n \in Nat
  BY Fields DEF From, Prefix
<1>3. Size \in Nat
  BY Fields, SizeAssumption DEF Size, Lesser
<1>4. data \in (IF record.reads = "all" THEN {Upto(Lesser(n, Size))} ELSE {Upto(k) : k \in 0..n})
  BY <1>1, Fields DEF Chunks
<1>5. \E k \in 0..n : data = Upto(k)
  <2>1. CASE record.reads = "all"
    <3>1. Lesser(n, Size) \in 0..n
      BY <1>2, <1>3 DEF Lesser
    <3> QED
      BY <3>1, <2>1, <1>4
  <2>2. CASE record.reads # "all"
    BY <2>2, <1>4
  <2> QED
    BY <2>1, <2>2
<1>6. PICK k \in 0..n : data = Upto(k)
  BY <1>5
<1>7. k \in Nat /\ From + k <= record.length
  BY <1>2
<1>8. Piece(Upto(k), From, k)
  BY <1>2, <1>7, PieceOfData
<1> QED
  BY <1>1, <1>2, <1>6, <1>7, <1>8

-----------------------------------------------------------------------------
(* Steps.                                                                  *)

LEMMA InitIInv == Init => IInv
<1> SUFFICES ASSUME Init PROVE IInv
  OBVIOUS
<1>1. Types
  <2>1. /\ record \in [content_length : 0..Length, reads : {"nothing"}, length : {0}]
        /\ record.length = 0 /\ record.reads = "nothing" /\ 0 \in 0..Length
    BY SizeAssumption DEF Init
  <2>2. record \in [content_length : 0..Length, reads : {"nothing", "position", "stream", "all"}, length : 0..Length]
    BY <2>1
  <2>3. overlong \in BOOLEAN /\ phase \in {"filling", "sending", "waiting", "ok", "error"}
    BY Zenon DEF Init
  <2>4. taken \in 0..record.length /\ wire \in Seq(1..Length)
    BY <2>1 DEF Init
  <2> QED
    BY <2>1, <2>2, <2>3, <2>4, Zenon DEF Types
<1>2. Rising /\ Prefix /\ Phases
  BY <1>1, Fields DEF Init, Rising, Prefix, Phases, Cutting
<1> QED
  BY <1>1, <1>2 DEF IInv

\* While the record is being filled nothing has been sent.
LEMMA FillingKeeps ==
  ASSUME IInv, Write \/ WriteAll
  PROVE  IInv'
<1>1. /\ phase = "filling" /\ phase' = "filling"
      /\ UNCHANGED <<taken, overlong, wire, stored>>
  BY DEF Write, WriteAll
<1>2. wire = <<>> /\ taken = 0 /\ overlong = FALSE /\ stored = {}
  BY <1>1 DEF IInv, Phases
<1>3. /\ record' \in [content_length : 0..Length, reads : {"nothing", "position", "stream", "all"}, length : 0..Length]
      /\ record'.reads = "all" => record'.content_length = record'.length
  BY DEF Write, WriteAll
<1>4. Types'
  BY <1>1, <1>2, <1>3, SizeAssumption DEF IInv, Types
<1>5. record'.content_length \in Nat /\ record'.length \in Nat
  BY <1>3, SizeAssumption
<1>6. Rising' /\ Prefix' /\ Phases'
  BY <1>1, <1>2, <1>5 DEF Rising, Prefix, Phases, Cutting
<1> QED
  BY <1>4, <1>6 DEF IInv

\* Only the phase changes, and does not return to filling or to waiting.
LEMMA PhaseKeeps ==
  ASSUME IInv, UNCHANGED <<record, taken, overlong, wire, stored>>,
         \/ phase' = "sending" /\ phase = "filling"
         \/ phase' = "waiting" /\ phase = "sending" /\ Len(wire) >= record.content_length
         \/ phase' = "ok" /\ phase = "waiting"
         \/ phase' = "error"
  PROVE  IInv'
<1>1. Types' /\ Rising' /\ Prefix'
  BY DEF IInv, Types, Rising, Prefix, Cutting
<1>2. Phases'
  BY Fields DEF IInv, Phases, Prefix
<1> QED
  BY <1>1, <1>2 DEF IInv

LEMMA StoreKeeps ==
  ASSUME IInv, Store
  PROVE  IInv'
<1>1. /\ phase = "waiting" /\ stored' = {SubSeq(wire, 1, record.content_length)}
      /\ UNCHANGED <<record, phase, taken, overlong, wire>>
  BY DEF Store
<1>2. Len(wire) = record.content_length /\ wire \in Seq(1..Length)
  BY <1>1 DEF IInv, Phases, Types
<1>3. SubSeq(wire, 1, record.content_length) = wire
  BY <1>2
<1>4. Types' /\ Rising' /\ Prefix'
  BY <1>1 DEF IInv, Types, Rising, Prefix, Cutting
<1>5. Phases'
  BY <1>1, <1>2, <1>3 DEF IInv, Phases
<1> QED
  BY <1>4, <1>5 DEF IInv

LEMMA ProvideKeeps ==
  ASSUME IInv, Provide
  PROVE  IInv'
<1>1. /\ phase = "sending" /\ Len(wire) < record.content_length
      /\ UNCHANGED <<record, stored>>
  BY DEF Provide
<1>2. PICK data \in Chunks :
        /\ taken' = From + Len(data)
        /\ overlong' = (overlong \/ Len(data) > Size)
        /\ IF Stops(TRUE, data)
           THEN phase' = "error" /\ wire' = wire
           ELSE phase' = phase /\ wire' = wire \o Cut(data)
  BY DEF Provide
<1>3. Types /\ Rising /\ Prefix /\ Phases
  BY DEF IInv
<1>4. record.reads # "nothing" /\ From \in Nat
  BY <1>1, <1>2, <1>3, ChunkShape
<1>5. PICK k \in Nat : From + k <= record.length /\ Piece(data, From, k)
  BY <1>1, <1>2, <1>3, ChunkShape
<1> DEFINE from == From
           w == Len(wire)
           c == IF Stops(TRUE, data) THEN 0 ELSE Lesser(k, Size)
<1>6. Size \in Nat /\ w + Size <= record.content_length
  BY <1>1, <1>3, Fields, SizeAssumption DEF Size, Lesser
<1>7. Len(data) = k /\ taken' = from + k
  BY <1>2, <1>5 DEF Piece
<1>8. c \in Nat /\ c <= k /\ c <= Size /\ (k <= Size => c = k)
  <2>1. CASE Stops(TRUE, data)
    BY <2>1, <1>6, <1>7 DEF Stops
  <2>2. CASE ~Stops(TRUE, data)
    BY <2>2, <1>6 DEF Lesser
  <2> QED
    BY <2>1, <2>2
<1>9. /\ wire' \in Seq(Nat) /\ Len(wire') = w + c
      /\ \A i \in 1..w : wire'[i] = wire[i]
      /\ \A i \in w + 1 .. w + c : wire'[i] = from + (i - w)
  <2>1. wire \in Seq(Nat)
    BY <1>3, SizeAssumption DEF Types
  <2>2. CASE Stops(TRUE, data)
    BY <2>1, <2>2, <1>2
  <2>3. CASE ~Stops(TRUE, data)
    <3> DEFINE cut == SubSeq(data, 1, c)
    <3>1. Piece(cut, from, c)
      BY <1>4, <1>5, <1>8, PieceCut
    <3>2. wire' = wire \o cut
      BY <2>3, <1>2, <1>7 DEF Cut
    <3> HIDE DEF cut, c, from
    <3>3. cut \in Seq(Nat) /\ Len(cut) = c /\ \A i \in 1..c : cut[i] = from + i
      BY <3>1 DEF Piece
    <3>4. /\ wire' \in Seq(Nat) /\ Len(wire') = w + c
          /\ \A i \in 1..w : wire'[i] = wire[i]
          /\ \A i \in w + 1 .. w + c : wire'[i] = cut[i - w]
      BY <3>2, <3>3, <2>1, Joined
    <3>5. \A i \in w + 1 .. w + c : i - w \in 1..c
      BY <1>8, <2>1
    <3> QED
      BY <3>3, <3>4, <3>5
  <2> QED
    BY <2>2, <2>3
<1>10. phase' \in {"sending", "error"} /\ stored = {}
  BY <1>1, <1>2, <1>3 DEF Phases
<1>11. overlong' \in BOOLEAN
  BY <1>2, <1>3 DEF Types
<1>12. ~overlong' => ~overlong /\ c = k
  <2>1. ~overlong' => ~overlong /\ ~(k > Size)
    BY <1>2, <1>7, Zenon
  <2> HIDE DEF c
  <2>2. ~(k > Size) => c = k
    BY <1>6, <1>8
  <2> QED
    BY <2>1, <2>2, Zenon
<1>13. from = IF record.reads = "stream" THEN taken ELSE w
  BY DEF From
<1>14. /\ w \in Nat /\ taken \in Nat /\ from \in Nat /\ k \in Nat /\ c \in Nat
       /\ record.length \in Nat /\ record.length <= Length /\ record.content_length \in Nat
       /\ from + k <= record.length
  BY <1>3, <1>4, <1>5, <1>8, Fields
<1> HIDE DEF from, w, c
<1>15. /\ w <= from
       /\ record.reads # "stream" => w = from
       /\ record.reads = "stream" => taken = from
  BY <1>3, <1>13, <1>14 DEF Prefix, w
<1>16. \A i \in 1..w : wire[i] \in Nat /\ 1 <= wire[i] /\ wire[i] <= from
  <2>1. \A i \in 1..w : wire[i] \in 1..Length
    <3>1. wire \in Seq(1..Length)
      BY <1>3 DEF Types
    <3> QED
      BY <3>1, Elements, Zenon DEF w
  <2>2. record.reads = "stream" => \A i \in 1..w : wire[i] <= taken
    BY <1>3 DEF Rising, w
  <2>3. record.reads # "stream" => \A i \in 1..w : wire[i] = i
    BY <1>3 DEF Prefix, Cutting, w
  <2> QED
    BY <2>1, <2>2, <2>3, <1>14, <1>15, SizeAssumption
<1>17. \A i \in 1..w + c : i \in 1..w \/ i \in w + 1 .. w + c
  BY <1>14
<1>18. Types'
  <2>1. \A i \in 1..w + c : wire'[i] \in 1..Length
    <3>1. ASSUME NEW i \in 1..w PROVE wire'[i] \in 1..Length
      <4>1. wire'[i] = wire[i] /\ wire[i] \in Nat /\ 1 <= wire[i] /\ wire[i] <= from
        BY <1>9, <1>16
      <4> QED
        BY <4>1, <1>14, SizeAssumption
    <3>2. ASSUME NEW i \in w + 1 .. w + c PROVE wire'[i] \in 1..Length
      <4>1. wire'[i] = from + (i - w)
        BY <1>9
      <4> QED
        BY <4>1, <1>8, <1>14, SizeAssumption
    <3> QED
      BY <3>1, <3>2, <1>17
  <2>2. wire' \in Seq(1..Length)
    BY <2>1, <1>9, Narrower
  <2>3. taken' \in 0..record.length
    BY <1>7, <1>14
  <2> QED
    BY <2>2, <2>3, <1>1, <1>3, <1>10, <1>11 DEF Types
<1>19. Rising'
  <2>1. ASSUME NEW i \in 1..w + c, NEW j \in 1..w + c, i < j PROVE wire'[i] < wire'[j]
    <3>1. CASE i \in 1..w /\ j \in 1..w
      BY <3>1, <2>1, <1>3, <1>9 DEF Rising, w
    <3>2. CASE i \in 1..w /\ j \in w + 1 .. w + c
      <4>1. wire'[i] = wire[i] /\ wire[i] \in Nat /\ wire[i] <= from
        BY <3>2, <1>9, <1>16
      <4>2. wire'[j] = from + (j - w)
        BY <3>2, <1>9
      <4> QED
        BY <3>2, <4>1, <4>2, <1>14
    <3>3. CASE i \in w + 1 .. w + c /\ j \in w + 1 .. w + c
      BY <3>3, <2>1, <1>9, <1>14
    <3> QED
      BY <3>1, <3>2, <3>3, <2>1, <1>14
  <2>2. ASSUME NEW i \in 1..w + c PROVE wire'[i] <= from + k
    BY <1>8, <1>9, <1>14, <1>16, <1>17, SMTT(30)
  <2> QED
    BY <2>1, <2>2, <1>7, <1>9 DEF Rising
<1>20. Prefix'
  <2>1. w + c <= record.length /\ w + c <= record.content_length /\ w + c <= taken'
    BY <1>6, <1>7, <1>8, <1>14, <1>15
  <2>2. ~overlong' /\ record.reads = "stream" => taken' = w + c
    BY <1>3, <1>7, <1>12, <1>13, <1>14 DEF Prefix, w
  <2>3. ASSUME ~Cutting', NEW i \in 1..w + c PROVE wire'[i] = i
    <3>1. ~Cutting /\ from = w
      BY <2>3, <1>1, <1>3, <1>12, <1>13 DEF Cutting, Prefix, w
    <3>2. CASE i \in 1..w
      BY <3>1, <3>2, <1>3, <1>9 DEF Prefix, w
    <3>3. CASE i \in w + 1 .. w + c
      BY <3>1, <3>3, <1>9, <1>14
    <3> QED
      BY <3>2, <3>3, <1>17
  <2> QED
    BY <2>1, <2>2, <2>3, <1>1, <1>4, <1>9 DEF Prefix, Cutting
<1>21. Phases'
  BY <1>1, <1>10 DEF Phases
<1> QED
  BY <1>18, <1>19, <1>20, <1>21 DEF IInv

LEMMA NextIInv == IInv /\ [Next]_vars => IInv'
<1> SUFFICES ASSUME IInv, [Next]_vars PROVE IInv'
  OBVIOUS
<1>1. CASE Write \/ WriteAll
  BY <1>1, FillingKeeps
<1>2. CASE Post
  BY <1>2, PhaseKeeps DEF Post
<1>3. CASE Stop
  BY <1>3, PhaseKeeps DEF Stop
<1>4. CASE Provide
  BY <1>4, ProvideKeeps
<1>5. CASE Sent
  BY <1>5, PhaseKeeps DEF Sent
<1>6. CASE Store
  BY <1>6, StoreKeeps
<1>7. CASE Answer
  BY <1>7, PhaseKeeps DEF Answer
<1>8. CASE Fail
  BY <1>8, PhaseKeeps DEF Fail
<1>9. CASE UNCHANGED vars
  BY <1>9 DEF vars, IInv, Types, Rising, Prefix, Phases, Cutting
<1> QED
  BY <1>1, <1>2, <1>3, <1>4, <1>5, <1>6, <1>7, <1>8, <1>9 DEF Next

LEMMA IInvHolds == Spec => []IInv
BY InitIInv, NextIInv, PTL DEF Spec

-----------------------------------------------------------------------------
(* Theorems.                                                               *)

\* No byte is sent twice and never more than was promised, whatever the callback
\* returns (http_client.cc 177-195).
THEOREM TypeCorrect == Spec => []TypeOK
<1>1. IInv => TypeOK
  <2> SUFFICES ASSUME IInv PROVE TypeOK
    OBVIOUS
  <2>1. Types /\ Rising /\ Prefix
    BY DEF IInv
  <2>2. \A i \in 1..Len(wire) : wire[i] \in 1..Length
    BY <2>1, Elements, Zenon DEF Types
  <2>3. DOMAIN wire = 1..Len(wire)
    BY <2>1, Elements, Zenon DEF Types
  <2>4. Range(wire) \subseteq 1..Length
    BY <2>2, <2>3 DEF Range
  <2>5. IsInjective(wire)
    <3> SUFFICES ASSUME NEW i \in DOMAIN wire, NEW j \in DOMAIN wire, wire[i] = wire[j] PROVE i = j
      BY DEF IsInjective
    <3>1. i \in 1..Len(wire) /\ j \in 1..Len(wire) /\ wire[i] \in Int /\ i \in Int /\ j \in Int
      BY <2>2, <2>3
    <3>2. ~(i < j) /\ ~(j < i)
      BY <3>1, <2>1 DEF Rising
    <3> QED
      BY <3>1, <3>2
  <2>6. taken \in 0..Length
    BY <2>1, Fields, SizeAssumption
  <2> QED
    BY <2>1, <2>4, <2>5, <2>6 DEF TypeOK, Types, Prefix
<1> QED
  BY <1>1, IInvHolds, PTL

\* What the server stores is the beginning of the caller's data, all of it with
\* WriteAll, unless a stream returned more than it was asked for (bucket.cc
\* 161-171, http_client.cc 177-189).
THEOREM StoredAsGivenCorrect == Spec => []StoredAsGiven
<1>1. IInv => StoredAsGiven
  <2> SUFFICES ASSUME IInv, NEW body \in stored
               PROVE  /\ ~(record.reads = "stream" /\ overlong) => body = Data(record.content_length)
                      /\ record.reads = "all" => body = Data(record.length)
                      /\ record.reads = "nothing" => body = <<>>
                      /\ Len(body) <= record.length
    BY DEF StoredAsGiven
  <2>1. Types /\ Prefix /\ Phases
    BY DEF IInv
  <2>2. body = wire /\ Len(wire) = record.content_length
    BY <2>1 DEF Phases
  <2>3. ASSUME ~Cutting PROVE wire = Data(Len(wire))
    <3>1. wire \in Seq(1..Length) /\ \A i \in 1..Len(wire) : wire[i] = i
      BY <2>1, <2>3 DEF Types, Prefix
    <3> QED
      BY <3>1 DEF Data
  <2>4. record.reads = "all" => ~Cutting /\ record.content_length = record.length
    BY <2>1 DEF Cutting, Types
  <2> QED
    BY <2>1, <2>2, <2>3, <2>4 DEF Prefix, Cutting
<1> QED
  BY <1>1, IInvHolds, PTL

-----------------------------------------------------------------------------
(* BatchResponse.                                                          *)


-----------------------------------------------------------------------------
(* Induction over the naturals.                                            *)

LEMMA LeastNumber ==
  ASSUME NEW T, T \subseteq Nat, T # {}
  PROVE  \E m \in T : \A n \in T : m <= n
<1>1. \A x, y \in Nat : x < y => <<x, y>> \in OpToRel(<, Nat)
  BY DEF OpToRel
<1>2. \E R : /\ IsWellFoundedOn(R, Nat)
             /\ \A x, y \in Nat : x < y => <<x, y>> \in R
  BY <1>1, NatLessThanWellFounded, Zenon
<1>3. PICK R : /\ IsWellFoundedOn(R, Nat)
               /\ \A x, y \in Nat : x < y => <<x, y>> \in R
  BY <1>2
<1>4. IsWellFoundedOn(R, Nat)
  BY <1>3
<1>5. \E x \in T : \A y \in T : ~(<<y, x>> \in R)
  BY ONLY <1>4, T \subseteq Nat, T # {}, WFMin, Zenon
<1>6. PICK m \in T : \A n \in T : <<n, m>> \notin R
  BY <1>5
<1>7. \A n \in T : n \in Nat /\ m \in Nat /\ ~(n < m)
  BY <1>3, <1>6, Zenon
<1>8. \A n \in T : m <= n
  BY <1>7
<1> QED
  BY <1>8

\* What holds of a number if of all that are smaller.
LEMMA Induction ==
  ASSUME NEW S, \A n \in Nat : (\A m \in Nat : m < n => m \in S) => n \in S
  PROVE  Nat \subseteq S
<1> SUFFICES ASSUME Nat \ S # {} PROVE FALSE
  OBVIOUS
<1>1. Nat \ S \subseteq Nat
  OBVIOUS
<1>2. PICK n \in Nat \ S : \A m \in Nat \ S : n <= m
  BY <1>1, LeastNumber
<1>3. \A m \in Nat : m < n => m \in S
  BY <1>2
<1> QED
  BY <1>2, <1>3

\* The greatest of some numbers with a bound.
LEMMA GreatestNumber ==
  ASSUME NEW T, T \subseteq Nat, T # {}, NEW b \in Nat, \A t \in T : t <= b
  PROVE  Max(T) \in T /\ \A t \in T : t <= Max(T)
<1> DEFINE U == {u \in Nat : \A t \in T : t <= u}
<1>1. U \subseteq Nat /\ U # {}
  OBVIOUS
<1>2. PICK m \in U : \A u \in U : m <= u
  BY <1>1, LeastNumber
<1>3. m \in T
  <2> SUFFICES ASSUME m \notin T PROVE FALSE
    OBVIOUS
  <2>1. PICK t \in T : TRUE
    OBVIOUS
  <2>2. t <= m /\ t # m /\ t \in Nat /\ m \in Nat
    BY <1>2
  <2>3. m - 1 \in Nat
    BY <2>2
  <2>4. \A u \in T : u <= m /\ u # m /\ u \in Nat
    BY <1>2
  <2>5. \A u \in T : u <= m - 1
    BY <2>2, <2>4
  <2>6. m - 1 \in U
    BY <2>3, <2>5
  <2> QED
    BY <1>2, <2>2, <2>6
<1>4. \A t \in T : t <= m
  BY <1>2
<1>5. Max(T) \in T /\ \A t \in T : Max(T) >= t
  BY <1>3, <1>4 DEF Max
<1> QED
  BY <1>5

-----------------------------------------------------------------------------
(* Sets in order.                                                          *)

\* s has the elements of S in the order R.
Orders(s, S, R) ==
  s \in SetToSeqs(S) /\ \A i, j \in 1..Len(s) : i < j => <<s[i], s[j]>> \in R

\* What the elements of SetToSeqs are.
LEMMA SeqsOf ==
  ASSUME NEW S, IsFiniteSet(S), NEW s \in SetToSeqs(S)
  PROVE  /\ Len(s) = Cardinality(S) /\ Len(s) \in Nat /\ DOMAIN s = 1..Len(s)
         /\ \A k \in 1..Len(s) : s[k] \in S
         /\ \A x \in S : \E k \in 1..Len(s) : s[k] = x
         /\ \A i, j \in 1..Len(s) : s[i] = s[j] => i = j
<1> DEFINE D == 1..Cardinality(S)
<1>1. Cardinality(S) \in Nat
  BY FS_CardinalityType
<1>2. s \in [D -> S] /\ \A i, j \in D : i # j => s[i] # s[j]
  BY DEF SetToSeqs
<1>3. s \in Seq(S) /\ Len(s) = Cardinality(S)
  BY <1>1, <1>2
<1>4. IsFiniteSet(D) /\ Cardinality(D) = Cardinality(S)
  BY <1>1, FS_Interval
<1>5. s \in Injection(D, S)
  BY <1>2 DEF Injection, IsInjective
<1>6. s \in Surjection(D, S)
  BY <1>4, <1>5, FS_Injection
<1>7. \A x \in S : \E k \in D : s[k] = x
  BY <1>6 DEF Surjection
<1> QED
  BY <1>1, <1>2, <1>3, <1>7

\* There is no more than one way to put them in order.
LEMMA OnlyOrder ==
  ASSUME NEW S, IsFiniteSet(S), NEW R, \A x, y \in S : ~(<<x, y>> \in R /\ <<y, x>> \in R),
         NEW s, Orders(s, S, R), NEW t, Orders(t, S, R)
  PROVE  s = t
<1> DEFINE n == Cardinality(S)
<1>1. /\ n \in Nat /\ Len(s) = n /\ Len(t) = n /\ DOMAIN s = 1..n /\ DOMAIN t = 1..n
      /\ s \in SetToSeqs(S) /\ t \in SetToSeqs(S)
  BY SeqsOf DEF Orders
<1>2. /\ \A k \in 1..n : s[k] \in S /\ t[k] \in S
      /\ \A x \in S : (\E k \in 1..n : s[k] = x) /\ (\E k \in 1..n : t[k] = x)
      /\ \A i, j \in 1..n : (s[i] = s[j] => i = j) /\ (t[i] = t[j] => i = j)
  BY <1>1, SeqsOf
<1>3. \A i, j \in 1..n : i < j => <<s[i], s[j]>> \in R /\ <<t[i], t[j]>> \in R
  BY <1>1 DEF Orders
<1> HIDE DEF n
<1>4. ASSUME NEW k \in 1..n, s[k] # t[k] PROVE FALSE
  <2> DEFINE T == {i \in 1..n : s[i] # t[i]}
  <2>1. T \subseteq Nat /\ T # {}
    BY <1>1, <1>4
  <2>2. PICK m \in T : \A i \in T : m <= i
    BY <2>1, LeastNumber
  <2>3. m \in 1..n /\ s[m] # t[m] /\ \A i \in 1..n : i < m => s[i] = t[i]
    BY <1>1, <2>2
  <2>4. PICK i \in 1..n : t[i] = s[m]
    BY <1>2, <2>3
  <2>5. PICK j \in 1..n : s[j] = t[m]
    BY <1>2, <2>3
  <2>6. m < i
    <3>1. i # m
      BY <2>3, <2>4
    <3>2. ~(i < m)
      <4> SUFFICES ASSUME i < m PROVE FALSE
        OBVIOUS
      <4>1. s[i] = s[m]
        BY <2>3, <2>4
      <4> QED
        BY <1>2, <2>3, <4>1, <3>1
    <3> QED
      BY <1>1, <2>3, <3>1, <3>2
  <2>7. m < j
    <3>1. j # m
      BY <2>3, <2>5
    <3>2. ~(j < m)
      <4> SUFFICES ASSUME j < m PROVE FALSE
        OBVIOUS
      <4>1. t[j] = t[m]
        BY <2>3, <2>5
      <4> QED
        BY <1>2, <2>3, <4>1, <3>1
    <3> QED
      BY <1>1, <2>3, <3>1, <3>2
  <2>8. <<s[m], s[j]>> \in R /\ <<t[m], t[i]>> \in R
    BY <1>3, <2>3, <2>6, <2>7
  <2> QED
    BY <1>2, <2>3, <2>4, <2>5, <2>8
<1>5. s = [k \in 1..n |-> s[k]] /\ t = [k \in 1..n |-> t[k]]
  BY <1>1 DEF SetToSeqs
<1> QED
  BY <1>4, <1>5

\* There is one, if no two of them are without an order.
LEMMA SomeOrder ==
  ASSUME NEW S, IsFiniteSet(S), NEW R,
         \A x \in S : <<x, x>> \notin R,
         \A x, y \in S : x # y => <<x, y>> \in R \/ <<y, x>> \in R,
         \A x, y, z \in S : <<x, y>> \in R /\ <<y, z>> \in R => <<x, z>> \in R
  PROVE  \E s : Orders(s, S, R)
<1> DEFINE n == Cardinality(S)
           Below(x) == {y \in S : <<y, x>> \in R}
           r == [x \in S |-> Cardinality(Below(x)) + 1]
<1>1. n \in Nat /\ IsFiniteSet(1..n) /\ Cardinality(1..n) = n
  BY FS_CardinalityType, FS_Interval
<1>2. ASSUME NEW x \in S, NEW y \in S, <<x, y>> \in R
      PROVE  /\ Cardinality(Below(x)) \in Nat /\ Cardinality(Below(y)) \in Nat
             /\ Cardinality(Below(x)) < Cardinality(Below(y))
  <2>1. Below(y) \in SUBSET S /\ Below(x) \in SUBSET Below(y)
    BY <1>2
  <2>2. x \in Below(y) /\ x \notin Below(x)
    BY <1>2
  <2> HIDE DEF Below
  <2>3. IsFiniteSet(Below(y))
    BY <2>1, FS_Subset
  <2>4. /\ IsFiniteSet(Below(x)) /\ Cardinality(Below(x)) <= Cardinality(Below(y))
        /\ Cardinality(Below(x)) = Cardinality(Below(y)) => Below(x) = Below(y)
    BY <2>1, <2>3, FS_Subset
  <2>5. Cardinality(Below(x)) \in Nat /\ Cardinality(Below(y)) \in Nat
    BY <2>3, <2>4, FS_CardinalityType
  <2> QED
    BY <2>2, <2>4, <2>5
<1>3. ASSUME NEW x \in S
      PROVE  Cardinality(Below(x)) \in Nat /\ Cardinality(Below(x)) < n
  <2>1. Below(x) \in SUBSET S /\ x \notin Below(x)
    OBVIOUS
  <2> HIDE DEF Below
  <2>2. /\ IsFiniteSet(Below(x)) /\ Cardinality(Below(x)) <= n
        /\ Cardinality(Below(x)) = n => Below(x) = S
    BY <2>1, FS_Subset
  <2>3. Cardinality(Below(x)) \in Nat
    BY <2>2, FS_CardinalityType
  <2> QED
    BY <1>1, <2>1, <2>2, <2>3
<1>4. r \in [S -> 1..n]
  BY <1>1, <1>3
<1>5. \A x, y \in S : <<x, y>> \in R => r[x] < r[y]
  BY <1>2
<1>6. \A x \in S : r[x] \in Nat
  BY <1>1, <1>4
<1> HIDE DEF r
<1>7. ASSUME NEW x \in S, NEW y \in S, r[x] = r[y] PROVE x = y
  <2> SUFFICES ASSUME x # y PROVE FALSE
    OBVIOUS
  <2>1. r[x] \in Nat /\ r[y] \in Nat /\ ~(r[x] < r[y]) /\ ~(r[y] < r[x])
    BY <1>6, <1>7
  <2>2. <<x, y>> \in R \/ <<y, x>> \in R
    OBVIOUS
  <2> QED
    BY <1>5, <2>1, <2>2
<1>8. r \in Injection(S, 1..n)
  BY <1>4, <1>7 DEF Injection, IsInjective
<1>9. r \in Surjection(S, 1..n)
  BY <1>1, <1>8, FS_Injection
<1>10. \A k \in 1..n : \E x \in S : r[x] = k
  BY <1>9 DEF Surjection
<1> DEFINE s == [k \in 1..n |-> CHOOSE x \in S : r[x] = k]
<1>11. \A k \in 1..n : s[k] \in S /\ r[s[k]] = k
  BY <1>10
<1>12. DOMAIN s = 1..n /\ s = [k \in 1..n |-> s[k]]
  OBVIOUS
<1> HIDE DEF s
<1>13. s \in [1..n -> S] /\ \A i, j \in 1..n : i # j => s[i] # s[j]
  BY <1>11, <1>12
<1>14. s \in SetToSeqs(S)
  BY <1>13 DEF SetToSeqs
<1>15. Len(s) = n
  BY <1>14, SeqsOf
<1>16. ASSUME NEW i \in 1..n, NEW j \in 1..n, i < j PROVE <<s[i], s[j]>> \in R
  <2>1. s[i] # s[j] /\ s[i] \in S /\ s[j] \in S
    BY <1>11, <1>13, <1>16
  <2>2. <<s[j], s[i]>> \in R => j < i
    BY <1>5, <1>11, <2>1
  <2> QED
    BY <1>1, <1>16, <2>1, <2>2
<1> QED
  BY <1>14, <1>15, <1>16 DEF Orders

\* Numbered without gaps and without repetition, a set has as many elements.
LEMMA Numbered ==
  ASSUME NEW S, NEW n \in Nat, NEW s, DOMAIN s = 1..n, s \in Seq(S),
         \A x \in S : \E k \in 1..n : s[k] = x,
         \A i, j \in 1..n : s[i] = s[j] => i = j
  PROVE  IsFiniteSet(S) /\ Cardinality(S) = n /\ s \in SetToSeqs(S) /\ Len(s) = n
<1>1. IsFiniteSet(1..n) /\ Cardinality(1..n) = n
  BY FS_Interval
<1>2. s \in [1..n -> S] /\ Len(s) = n
  OBVIOUS
<1>3. s \in Injection(1..n, S) /\ s \in Surjection(1..n, S)
  BY <1>2 DEF Injection, Surjection, IsInjective
<1>4. IsFiniteSet(S) /\ Cardinality(S) = n
  BY <1>1, <1>3, FS_Surjection
<1>5. s \in SetToSeqs(S)
  BY <1>2, <1>4 DEF SetToSeqs
<1> QED
  BY <1>2, <1>4, <1>5

-----------------------------------------------------------------------------
(* The digits of a number.                                                 *)

LEMMA Decimal ==
  ASSUME NEW n \in Nat
  PROVE  /\ n \div 10 \in Nat /\ n % 10 \in 0..9 /\ n = 10 * (n \div 10) + (n % 10)
         /\ n >= 10 => n \div 10 < n
  OBVIOUS

\* d has the digits of the numbers up to n.
DigitsTo(d, n) ==
  /\ d \in [0..n -> Seq(Nat)]
  /\ \A m \in 0..n : /\ m < 10 => d[m] = <<m>>
                     /\ ~(m < 10) => d[m] = Append(d[m \div 10], m % 10)

LEMMA DigitsExist == \A n \in Nat : \E d : DigitsTo(d, n)
<1> DEFINE S == {n \in Nat : \E d : DigitsTo(d, n)}
<1>1. ASSUME NEW n \in Nat, \A m \in Nat : m < n => m \in S PROVE n \in S
  <2>1. CASE n = 0
    <3> DEFINE d == [m \in 0..0 |-> <<0>>]
    <3>1. \A m \in 0..0 : m = 0 /\ d[m] = <<0>> /\ <<0>> \in Seq(Nat)
      OBVIOUS
    <3>2. d \in [0..0 -> Seq(Nat)]
      BY <3>1
    <3> HIDE DEF d
    <3>3. DigitsTo(d, 0)
      BY <3>1, <3>2 DEF DigitsTo
    <3> QED
      BY <2>1, <3>3
  <2>2. CASE n # 0
    <3>1. n - 1 \in Nat /\ n - 1 < n
      BY <2>2
    <3>2. PICK d : DigitsTo(d, n - 1)
      BY <1>1, <3>1
    <3> DEFINE new == IF n < 10 THEN <<n>> ELSE Append(d[n \div 10], n % 10)
               e == [m \in 0..n |-> IF m = n THEN new ELSE d[m]]
    <3>3. \A m \in 0..(n - 1) : d[m] \in Seq(Nat)
      BY <3>2 DEF DigitsTo
    <3>4. new \in Seq(Nat)
      <4>1. CASE n < 10
        BY <4>1
      <4>2. CASE n >= 10
        <5>1. n \div 10 \in 0..(n - 1) /\ n % 10 \in Nat
          BY <4>2, Decimal
        <5>2. d[n \div 10] \in Seq(Nat)
          BY <3>3, <5>1
        <5> QED
          BY <4>2, <5>1, <5>2
      <4> QED
        BY <4>1, <4>2
    <3>5. \A m \in 0..n : m = n \/ m \in 0..(n - 1)
      OBVIOUS
    <3>6. DOMAIN e = 0..n /\ e[n] = new /\ \A m \in 0..(n - 1) : e[m] = d[m]
      OBVIOUS
    <3>7. e \in [0..n -> Seq(Nat)]
      BY <3>3, <3>4, <3>5
    <3> HIDE DEF e
    <3>8. ASSUME NEW m \in 0..n
          PROVE  /\ m < 10 => e[m] = <<m>>
                 /\ ~(m < 10) => e[m] = Append(e[m \div 10], m % 10)
      <4>1. ~(m < 10) => m \div 10 \in 0..(n - 1) /\ e[m \div 10] = d[m \div 10]
        <5> SUFFICES ASSUME ~(m < 10) PROVE m \div 10 \in 0..(n - 1)
          BY <3>6
        <5> QED
          BY Decimal
      <4>2. CASE m = n
        BY <3>6, <4>1, <4>2, Zenon
      <4>3. CASE m # n
        <5>1. m \in 0..(n - 1)
          BY <3>5, <4>3
        <5>2. /\ m < 10 => d[m] = <<m>>
              /\ ~(m < 10) => d[m] = Append(d[m \div 10], m % 10)
          BY <3>2, <5>1, Zenon DEF DigitsTo
        <5>3. e[m] = d[m]
          BY <3>6, <5>1
        <5> QED
          BY <4>1, <5>2, <5>3, Zenon
      <4> QED
        BY <4>2, <4>3
    <3>9. DigitsTo(e, n)
      BY <3>7, <3>8 DEF DigitsTo
    <3> QED
      BY <3>9
  <2> QED
    BY <2>1, <2>2
<1> HIDE DEF S
<1>2. Nat \subseteq S
  BY <1>1, Induction
<1> QED
  BY <1>2 DEF S

LEMMA DigitsAgree ==
  ASSUME NEW i \in Nat, NEW d, DigitsTo(d, i), NEW j \in Nat, NEW e, DigitsTo(e, j)
  PROVE  \A m \in Nat : m <= i /\ m <= j => d[m] = e[m]
<1> DEFINE S == {m \in Nat : m <= i /\ m <= j => d[m] = e[m]}
<1>1. ASSUME NEW n \in Nat, \A m \in Nat : m < n => m \in S PROVE n \in S
  <2> SUFFICES ASSUME n <= i, n <= j PROVE d[n] = e[n]
    OBVIOUS
  <2>1. /\ n < 10 => d[n] = <<n>> /\ e[n] = <<n>>
        /\ ~(n < 10) => d[n] = Append(d[n \div 10], n % 10) /\ e[n] = Append(e[n \div 10], n % 10)
    <3>1. n \in 0..i /\ n \in 0..j
      OBVIOUS
    <3> QED
      BY <3>1, Zenon DEF DigitsTo
  <2>2. ~(n < 10) => d[n \div 10] = e[n \div 10]
    <3> SUFFICES ASSUME ~(n < 10) PROVE d[n \div 10] = e[n \div 10]
      OBVIOUS
    <3>1. n \div 10 \in Nat /\ n \div 10 < n /\ n \div 10 <= i /\ n \div 10 <= j
      BY Decimal
    <3> QED
      BY <1>1, <3>1
  <2>3. CASE n < 10
    BY <2>1, <2>3, Zenon
  <2>4. CASE ~(n < 10)
    <3>1. Append(d[n \div 10], n % 10) = Append(e[n \div 10], n % 10)
      BY <2>2, <2>4
    <3> QED
      BY <2>1, <2>4, <3>1, Zenon
  <2> QED
    BY <2>3, <2>4, Zenon
<1> HIDE DEF S
<1>2. Nat \subseteq S
  BY <1>1, Induction
<1> QED
  BY <1>2 DEF S

LEMMA DigitsOf ==
  ASSUME NEW n \in Nat
  PROVE  /\ n < 10 => Digits[n] = <<n>>
         /\ ~(n < 10) => Digits[n] = Append(Digits[n \div 10], n % 10)
         /\ Digits[n] \in Seq(Nat)
<1> DEFINE h(g) == [m \in Nat |-> IF m < 10 THEN <<m>> ELSE Append(g[m \div 10], m % 10)]
           digits == CHOOSE g : g = h(g)
           to(m) == CHOOSE d : DigitsTo(d, m)
           f == [m \in Nat |-> to(m)[m]]
<1>1. Digits = digits
  BY DEF Digits
<1>2. \A m \in Nat : DigitsTo(to(m), m)
  BY DigitsExist
<1> HIDE DEF to
<1>3. ASSUME NEW m \in Nat
      PROVE  /\ m < 10 => f[m] = <<m>>
             /\ ~(m < 10) => f[m] = Append(f[m \div 10], m % 10)
             /\ f[m] \in Seq(Nat)
  <2>1. f[m] = to(m)[m] /\ f[m] \in Seq(Nat)
    BY <1>2 DEF DigitsTo
  <2>2. /\ m < 10 => to(m)[m] = <<m>>
        /\ ~(m < 10) => to(m)[m] = Append(to(m)[m \div 10], m % 10)
    <3>1. m \in 0..m
      OBVIOUS
    <3> QED
      BY <1>2, <3>1, Zenon DEF DigitsTo
  <2>3. ~(m < 10) => to(m)[m \div 10] = f[m \div 10]
    <3> SUFFICES ASSUME ~(m < 10) PROVE to(m)[m \div 10] = f[m \div 10]
      OBVIOUS
    <3> DEFINE k == m \div 10
    <3>1. k \in Nat /\ k <= m
      BY Decimal
    <3> HIDE DEF k
    <3>2. to(m)[k] = to(k)[k]
      BY <1>2, <3>1, DigitsAgree
    <3>3. f[k] = to(k)[k]
      BY <3>1
    <3> QED
      BY <3>2, <3>3 DEF k
  <2> QED
    BY <2>1, <2>2, <2>3, Zenon
<1>4. f = h(f)
  <2>1. \A m \in Nat : f[m] = h(f)[m]
    BY <1>3
  <2>2. DOMAIN f = Nat /\ DOMAIN h(f) = Nat /\ f = [m \in Nat |-> f[m]] /\ h(f) = [m \in Nat |-> h(f)[m]]
    OBVIOUS
  <2> QED
    BY <2>1
<1>5. digits = h(digits)
  BY <1>4, Zenon
<1> HIDE DEF digits, f
<1>6. \A m \in Nat : /\ m < 10 => digits[m] = <<m>>
                     /\ ~(m < 10) => digits[m] = Append(digits[m \div 10], m % 10)
  BY <1>5
<1> DEFINE S == {m \in Nat : digits[m] = f[m]}
<1>7. ASSUME NEW m \in Nat, \A k \in Nat : k < m => k \in S PROVE m \in S
  <2>1. ~(m < 10) => digits[m \div 10] = f[m \div 10]
    <3> SUFFICES ASSUME ~(m < 10) PROVE digits[m \div 10] = f[m \div 10]
      OBVIOUS
    <3>1. m \div 10 \in Nat /\ m \div 10 < m
      BY Decimal
    <3> QED
      BY <1>7, <3>1
  <2>2. CASE m < 10
    BY <1>3, <1>6, <2>2, Zenon
  <2>3. CASE ~(m < 10)
    <3>1. Append(digits[m \div 10], m % 10) = Append(f[m \div 10], m % 10)
      BY <2>1, <2>3
    <3> QED
      BY <1>3, <1>6, <2>3, <3>1, Zenon
  <2> QED
    BY <2>2, <2>3
<1>8. Nat \subseteq S
  <2> HIDE DEF S
  <2> QED
    BY <1>7, Induction
<1>9. digits[n] \in Seq(Nat)
  BY <1>3, <1>8
<1> QED
  BY <1>1, <1>6, <1>9, Zenon

\* A number of one digit, and one with digits of q and a last digit r.
Short(n) == n < 10 /\ Len(Digits[n]) = 1 /\ Digits[n][1] = n

Long(n, q, r) ==
  /\ q \in Nat /\ q < n /\ r \in Nat /\ r < 10 /\ n = 10 * q + r
  /\ Len(Digits[q]) \in Nat \ {0}
  /\ Len(Digits[n]) = Len(Digits[q]) + 1
  /\ \A k \in 1..Len(Digits[q]) : Digits[n][k] = Digits[q][k]
  /\ Digits[n][Len(Digits[n])] = r

\* No number of one digit has as many as a longer one.
LEMMA NotBoth ==
  ASSUME NEW a, NEW b, NEW q, NEW r, Long(a, q, r), Short(b)
  PROVE  Len(Digits[a]) # Len(Digits[b])
<1> DEFINE l == Len(Digits[q])
<1>1. l \in Nat \ {0} /\ Len(Digits[a]) = l + 1
  BY DEF Long
<1>2. Len(Digits[b]) = 1
  BY DEF Short
<1> HIDE DEF l
<1> QED
  BY <1>1, <1>2

LEMMA DigitsShape ==
  ASSUME NEW n \in Nat
  PROVE  /\ Len(Digits[n]) \in Nat \ {0} /\ \A k \in 1..Len(Digits[n]) : Digits[n][k] \in Nat
         /\ Short(n) \/ \E q, r : Long(n, q, r)
<1>1. Digits[n] \in Seq(Nat)
  BY DigitsOf
<1>2. CASE n < 10
  <2>1. Digits[n] = <<n>>
    BY <1>2, DigitsOf
  <2> QED
    BY <1>2, <2>1 DEF Short
<1>3. CASE ~(n < 10)
  <2> DEFINE q == n \div 10
             r == n % 10
  <2>1. q \in Nat /\ q < n /\ r \in Nat /\ n = 10 * q + r /\ r < 10
    BY <1>3, Decimal
  <2>2. Digits[n] = Append(Digits[q], r)
    BY <1>3, DigitsOf, Zenon
  <2>3. Digits[q] \in Seq(Nat) /\ Len(Digits[q]) # 0
    <3>1. q \in Nat
      BY <2>1
    <3> HIDE DEF q
    <3>2. Digits[q] \in Seq(Nat)
      BY <3>1, DigitsOf
    <3>3. CASE q < 10
      <4>1. Digits[q] = <<q>>
        BY <3>1, <3>3, DigitsOf
      <4> QED
        BY <3>2, <4>1
    <3>4. CASE ~(q < 10)
      <4>1. q \div 10 \in Nat /\ q % 10 \in Nat
        BY <3>1, Decimal
      <4>2. Digits[q] = Append(Digits[q \div 10], q % 10)
        BY <3>1, <3>4, DigitsOf, Zenon
      <4>3. Digits[q \div 10] \in Seq(Nat)
        BY <4>1, DigitsOf
      <4> QED
        BY <3>2, <4>1, <4>2, <4>3
    <3> QED
      BY <3>2, <3>3, <3>4
  <2> HIDE DEF q, r
  <2>4. /\ Len(Digits[n]) = Len(Digits[q]) + 1
        /\ \A k \in 1..Len(Digits[q]) : Digits[n][k] = Digits[q][k]
        /\ Digits[n][Len(Digits[q]) + 1] = r
    BY <2>1, <2>2, <2>3
  <2>5. Len(Digits[q]) \in Nat \ {0}
    BY <2>3
  <2>6. Long(n, q, r)
    BY <2>1, <2>4, <2>5 DEF Long
  <2>7. Len(Digits[n]) \in Nat \ {0}
    BY <2>4, <2>5
  <2> QED
    BY <1>1, <2>6, <2>7
<1> QED
  BY <1>2, <1>3

\* The first n digits of two numbers are the same.
Alike(a, b, n) == \A k \in 1..n : Digits[a][k] = Digits[b][k]

\* Different numbers have different digits.
LEMMA DigitsDiffer ==
  ASSUME NEW a \in Nat, NEW b \in Nat, Len(Digits[a]) = Len(Digits[b]), Alike(a, b, Len(Digits[a]))
  PROVE  a = b
<1> DEFINE S == {x \in Nat : \A y \in Nat :
                   Len(Digits[x]) = Len(Digits[y]) /\ Alike(x, y, Len(Digits[x])) => x = y}
<1>1. ASSUME NEW x \in Nat, \A z \in Nat : z < x => z \in S PROVE x \in S
  <2> SUFFICES ASSUME NEW y \in Nat, Len(Digits[x]) = Len(Digits[y]), Alike(x, y, Len(Digits[x]))
               PROVE  x = y
    OBVIOUS
  <2>1. CASE Short(x)
    <3>1. ~ \E q, r : Long(y, q, r)
      BY <2>1 DEF Short, Long
    <3>2. Short(y)
      BY <3>1, DigitsShape
    <3> QED
      BY <2>1, <3>2 DEF Short, Alike
  <2>2. CASE \E p, r : Long(x, p, r)
    <3>1. PICK p, r : Long(x, p, r)
      BY <2>2
    <3>2. ~Short(y)
      BY <3>1, NotBoth
    <3>3. PICK q, u : Long(y, q, u)
      BY <3>2, DigitsShape
    <3>4. /\ Len(Digits[p]) = Len(Digits[q]) /\ Len(Digits[x]) = Len(Digits[p]) + 1
          /\ Len(Digits[p]) \in Nat /\ p \in Nat /\ q \in Nat /\ p < x
      <4>1. Len(Digits[p]) \in Nat /\ Len(Digits[x]) = Len(Digits[p]) + 1 /\ p \in Nat /\ p < x
        BY <3>1 DEF Long
      <4>2. Len(Digits[q]) \in Nat /\ Len(Digits[y]) = Len(Digits[q]) + 1 /\ q \in Nat
        BY <3>3 DEF Long
      <4>3. Len(Digits[p]) = Len(Digits[q])
        BY ONLY <4>1, <4>2, Len(Digits[x]) = Len(Digits[y])
      <4> QED
        BY <4>1, <4>2, <4>3, Zenon
    <3>5. \A k \in 1..Len(Digits[p]) : Digits[p][k] = Digits[q][k]
      <4> SUFFICES ASSUME NEW k \in 1..Len(Digits[p]) PROVE Digits[p][k] = Digits[q][k]
        OBVIOUS
      <4>1. Digits[x][k] = Digits[p][k] /\ Digits[y][k] = Digits[q][k]
        BY <3>1, <3>3, <3>4 DEF Long
      <4>2. k \in 1..Len(Digits[x])
        BY <3>4
      <4> QED
        BY <4>1, <4>2 DEF Alike
    <3>6. p = q
      BY <1>1, <3>1, <3>4, <3>5 DEF Long, Alike
    <3>7. r = u
      <4>1. Len(Digits[x]) \in 1..Len(Digits[x])
        BY <3>4
      <4> QED
        BY <3>1, <3>3, <4>1 DEF Long, Alike
    <3> QED
      BY <3>1, <3>3, <3>6, <3>7 DEF Long
  <2> QED
    BY <2>1, <2>2, DigitsShape
<1> HIDE DEF S
<1>2. Nat \subseteq S
  BY <1>1, Induction
<1> QED
  BY <1>2 DEF S

\* The string of b goes on, or has the greater digit, at place k.
LessAt(a, b, k) ==
  /\ k \in 1..Len(Digits[b]) /\ k <= Len(Digits[a]) + 1
  /\ \A j \in 1..(k - 1) : Digits[a][j] = Digits[b][j]
  /\ k <= Len(Digits[a]) => Digits[a][k] < Digits[b][k]

LEMMA StringLessIs ==
  ASSUME NEW a, NEW b
  PROVE  StringLess(a, b) <=> \E k : LessAt(a, b, k)
BY DEF StringLess, LessAt

\* Of the same length, the string of the smaller number comes first.
LEMMA DigitsOrder ==
  ASSUME NEW a \in Nat, NEW b \in Nat, Len(Digits[a]) = Len(Digits[b]), a < b
  PROVE  StringLess(a, b)
<1> DEFINE S == {x \in Nat : \A y \in Nat :
                   Len(Digits[x]) = Len(Digits[y]) /\ x < y => \E k : LessAt(x, y, k)}
<1>1. ASSUME NEW x \in Nat, \A z \in Nat : z < x => z \in S PROVE x \in S
  <2> SUFFICES ASSUME NEW y \in Nat, Len(Digits[x]) = Len(Digits[y]), x < y
               PROVE  \E k : LessAt(x, y, k)
    OBVIOUS
  <2>1. CASE Short(x)
    <3>1. ~ \E q, r : Long(y, q, r)
      BY <2>1 DEF Short, Long
    <3>2. Short(y)
      BY <3>1, DigitsShape
    <3>3. LessAt(x, y, 1)
      BY <2>1, <3>2 DEF LessAt, Short
    <3> QED
      BY <3>3
  <2>2. CASE \E p, r : Long(x, p, r)
    <3>1. PICK p, r : Long(x, p, r)
      BY <2>2
    <3>2. ~Short(y)
      BY <3>1, NotBoth
    <3>3. PICK q, u : Long(y, q, u)
      BY <3>2, DigitsShape
    <3> DEFINE m == Len(Digits[p])
    <3>4. /\ Len(Digits[q]) = m /\ Len(Digits[x]) = m + 1 /\ Len(Digits[y]) = m + 1
          /\ m \in Nat /\ p \in Nat /\ q \in Nat /\ p < x
      <4>1. m \in Nat /\ Len(Digits[x]) = m + 1 /\ p \in Nat /\ p < x
        BY <3>1 DEF Long
      <4>2. Len(Digits[q]) \in Nat /\ Len(Digits[y]) = Len(Digits[q]) + 1 /\ q \in Nat
        BY <3>3 DEF Long
      <4> HIDE DEF m
      <4>3. Len(Digits[q]) = m
        BY ONLY <4>1, <4>2, Len(Digits[x]) = Len(Digits[y])
      <4> QED
        BY <4>1, <4>2, <4>3, Zenon
    <3>5. \A k \in 1..m : Digits[x][k] = Digits[p][k] /\ Digits[y][k] = Digits[q][k]
      BY <3>1, <3>3, <3>4 DEF Long
    <3>6. Digits[x][m + 1] = r /\ Digits[y][m + 1] = u
      BY <3>1, <3>3, <3>4 DEF Long
    <3>7. CASE p < q
      <4>1. PICK k : LessAt(p, q, k)
        BY <1>1, <3>4, <3>7
      <4> HIDE DEF m
      <4>2. k \in 1..Len(Digits[q]) /\ \A j \in 1..(k - 1) : Digits[p][j] = Digits[q][j]
        BY <4>1 DEF LessAt
      <4>3. k \in 1..m /\ \A j \in 1..(k - 1) : j \in 1..m
        BY <3>4, <4>2
      <4>4. Digits[p][k] < Digits[q][k]
        BY <3>4, <4>1, <4>3 DEF LessAt, m
      <4>5. Digits[x][k] < Digits[y][k] /\ \A j \in 1..(k - 1) : Digits[x][j] = Digits[y][j]
        BY <3>5, <4>2, <4>3, <4>4
      <4>6. k \in 1..(m + 1)
        BY <3>4, <4>3
      <4>7. LessAt(x, y, k)
        BY <3>4, <4>5, <4>6 DEF LessAt
      <4> QED
        BY <4>7
    <3>8. CASE p = q
      <4> HIDE DEF m
      <4>1. r < u
        BY <3>1, <3>3, <3>8 DEF Long
      <4>2. \A j \in 1..(m + 1 - 1) : j \in 1..m
        BY <3>4
      <4>3. \A j \in 1..(m + 1 - 1) : Digits[x][j] = Digits[y][j]
        BY <3>5, <3>8, <4>2
      <4>4. LessAt(x, y, m + 1)
        BY <3>4, <3>6, <4>1, <4>3 DEF LessAt
      <4> QED
        BY <4>4
    <3>9. p <= q
      BY <3>1, <3>3 DEF Long
    <3> QED
      BY <3>4, <3>7, <3>8, <3>9
  <2> QED
    BY <2>1, <2>2, DigitsShape
<1> HIDE DEF S
<1>2. Nat \subseteq S
  BY <1>1, Induction
<1> QED
  BY <1>2, StringLessIs DEF S

\* As strings, numbers have an order.
LEMMA StringOrder ==
  /\ \A a, b \in Nat : ~(StringLess(a, b) /\ StringLess(b, a))
  /\ \A a, b \in Nat : a # b => StringLess(a, b) \/ StringLess(b, a)
  /\ \A a, b, c \in Nat : StringLess(a, b) /\ StringLess(b, c) => StringLess(a, c)
<1> DEFINE l(a) == Len(Digits[a])
           d(a) == Digits[a]
<1>1. \A a \in Nat : l(a) \in Nat /\ \A k \in 1..l(a) : d(a)[k] \in Nat
  BY DigitsShape
<1>2. ASSUME NEW a \in Nat, NEW b \in Nat, NEW i, LessAt(a, b, i), NEW j, LessAt(b, a, j) PROVE FALSE
  <2>1. /\ i \in Nat /\ j \in Nat /\ i <= l(b) /\ j <= l(a) /\ 1 <= i /\ 1 <= j
        /\ i <= l(a) => d(a)[i] < d(b)[i]
        /\ j <= l(b) => d(b)[j] < d(a)[j]
        /\ \A k \in 1..(i - 1) : d(a)[k] = d(b)[k]
        /\ \A k \in 1..(j - 1) : d(a)[k] = d(b)[k]
    BY <1>1, <1>2 DEF LessAt
  <2>2. /\ i <= l(a) => d(a)[i] \in Nat /\ d(b)[i] \in Nat
        /\ j <= l(b) => d(a)[j] \in Nat /\ d(b)[j] \in Nat
    <3>1. l(a) \in Nat /\ l(b) \in Nat
      BY <1>1
    <3>2. /\ i \in 1..l(b) /\ j \in 1..l(a)
          /\ i <= l(a) => i \in 1..l(a)
          /\ j <= l(b) => j \in 1..l(b)
      BY <2>1, <3>1
    <3> QED
      BY <1>1, <3>2
  <2>3. CASE i = j
    BY <2>1, <2>2, <2>3, <1>1
  <2>4. CASE i < j
    <3>1. i \in 1..(j - 1) /\ i <= l(a)
      BY <2>1, <2>4, <1>1
    <3> QED
      BY <2>1, <2>2, <3>1
  <2>5. CASE j < i
    <3>1. j \in 1..(i - 1) /\ j <= l(b)
      BY <2>1, <2>5, <1>1
    <3> QED
      BY <2>1, <2>2, <3>1
  <2> QED
    BY <2>1, <2>3, <2>4, <2>5
<1>3. ASSUME NEW a \in Nat, NEW b \in Nat, a # b PROVE \E k : LessAt(a, b, k) \/ LessAt(b, a, k)
  <2> DEFINE T == {k \in 1..l(a) : k <= l(b) /\ d(a)[k] # d(b)[k]}
  <2>1. CASE T = {}
    <3>1. \A k \in 1..l(a) : k <= l(b) => d(a)[k] = d(b)[k]
      BY <2>1
    <3>2. l(a) # l(b)
      <4> SUFFICES ASSUME l(a) = l(b) PROVE FALSE
        OBVIOUS
      <4>1. \A k \in 1..l(a) : k <= l(b)
        BY <1>1
      <4>2. Alike(a, b, l(a))
        BY <3>1, <4>1 DEF Alike
      <4> QED
        BY <1>3, <4>2, DigitsDiffer
    <3>3. CASE l(a) < l(b)
      <4>1. l(a) + 1 \in 1..l(b) /\ ~(l(a) + 1 <= l(a)) /\ \A j \in 1..(l(a) + 1 - 1) : j \in 1..l(a) /\ j <= l(b)
        BY <1>1, <3>3
      <4>2. LessAt(a, b, l(a) + 1)
        BY <1>1, <3>1, <4>1 DEF LessAt
      <4> QED
        BY <4>2
    <3>4. CASE l(b) < l(a)
      <4>1. l(b) + 1 \in 1..l(a) /\ ~(l(b) + 1 <= l(b)) /\ \A j \in 1..(l(b) + 1 - 1) : j \in 1..l(a) /\ j <= l(b)
        BY <1>1, <3>4
      <4>2. LessAt(b, a, l(b) + 1)
        BY <1>1, <3>1, <4>1 DEF LessAt
      <4> QED
        BY <4>2
    <3> QED
      BY <1>1, <3>2, <3>3, <3>4
  <2>2. CASE T # {}
    <3>1. T \subseteq Nat
      BY <1>1
    <3> HIDE DEF T
    <3>2. PICK m \in T : \A k \in T : m <= k
      BY <2>2, <3>1, LeastNumber
    <3>3. m \in 1..l(a) /\ m \in 1..l(b) /\ d(a)[m] # d(b)[m]
      BY <1>1, <3>2 DEF T
    <3>4. \A j \in 1..(m - 1) : j \in 1..l(a) /\ j <= l(b) /\ j \notin T
      BY <1>1, <3>1, <3>2, <3>3
    <3>5. \A j \in 1..(m - 1) : d(a)[j] = d(b)[j]
      BY <3>4 DEF T
    <3>6. d(a)[m] \in Nat /\ d(b)[m] \in Nat
      BY <1>1, <3>3
    <3>7. d(a)[m] < d(b)[m] => LessAt(a, b, m)
      BY <1>1, <3>3, <3>5 DEF LessAt
    <3>8. d(b)[m] < d(a)[m] => LessAt(b, a, m)
      BY <1>1, <3>3, <3>5 DEF LessAt
    <3> QED
      BY <3>3, <3>6, <3>7, <3>8
  <2> QED
    BY <2>1, <2>2
<1>4. ASSUME NEW a \in Nat, NEW b \in Nat, NEW c \in Nat, NEW i, LessAt(a, b, i), NEW j, LessAt(b, c, j)
      PROVE  \E k : LessAt(a, c, k)
  <2>1. /\ i \in Nat /\ j \in Nat /\ 1 <= i /\ 1 <= j
        /\ i <= l(b) /\ i <= l(a) + 1 /\ j <= l(c) /\ j <= l(b) + 1
        /\ i <= l(a) => d(a)[i] < d(b)[i]
        /\ j <= l(b) => d(b)[j] < d(c)[j]
        /\ \A k \in 1..(i - 1) : d(a)[k] = d(b)[k]
        /\ \A k \in 1..(j - 1) : d(b)[k] = d(c)[k]
    BY <1>1, <1>4 DEF LessAt
  <2>2. /\ i <= l(a) => d(a)[i] \in Nat
        /\ d(b)[i] \in Nat
        /\ j <= l(b) => d(b)[j] \in Nat
        /\ d(c)[j] \in Nat
    <3>1. l(a) \in Nat /\ l(b) \in Nat /\ l(c) \in Nat
      BY <1>1
    <3>2. /\ i \in 1..l(b) /\ j \in 1..l(c)
          /\ i <= l(a) => i \in 1..l(a)
          /\ j <= l(b) => j \in 1..l(b)
      BY <2>1, <3>1
    <3> QED
      BY <1>1, <3>2
  <2>3. CASE i < j
    <3>1. i \in 1..(j - 1) /\ i \in 1..l(c) /\ \A k \in 1..(i - 1) : k \in 1..(j - 1)
      BY <1>1, <2>1, <2>3
    <3>2. i <= l(a) => d(a)[i] < d(c)[i]
      BY <2>1, <3>1
    <3>3. \A k \in 1..(i - 1) : d(a)[k] = d(c)[k]
      BY <2>1, <3>1
    <3>4. LessAt(a, c, i)
      BY <1>1, <2>1, <3>1, <3>2, <3>3 DEF LessAt
    <3> QED
      BY <3>4
  <2>4. CASE j < i
    <3>1. j \in 1..(i - 1) /\ j \in 1..l(c) /\ j <= l(b) /\ j <= l(a) + 1 /\ \A k \in 1..(j - 1) : k \in 1..(i - 1)
      <4>1. l(a) \in Nat /\ l(b) \in Nat /\ l(c) \in Nat
        BY <1>1
      <4> QED
        BY <2>1, <2>4, <4>1
    <3>2. LessAt(a, c, j)
      BY <2>1, <3>1 DEF LessAt
    <3> QED
      BY <3>2
  <2>5. CASE i = j
    <3>1. i \in 1..l(c)
      BY <1>1, <2>1, <2>5
    <3>2. i <= l(a) => d(a)[i] < d(c)[i]
      <4> SUFFICES ASSUME i <= l(a) PROVE d(a)[i] < d(c)[i]
        OBVIOUS
      <4>1. d(c)[i] \in Nat /\ d(b)[i] < d(c)[i] /\ d(a)[i] < d(b)[i]
        BY <2>1, <2>2, <2>5
      <4> QED
        BY <2>2, <4>1
    <3>3. LessAt(a, c, i)
      BY <1>1, <2>1, <2>5, <3>1, <3>2 DEF LessAt
    <3> QED
      BY <3>3
  <2> QED
    BY <2>1, <2>3, <2>4, <2>5
<1>5. \A a, b \in Nat : ~(StringLess(a, b) /\ StringLess(b, a))
  BY <1>2, StringLessIs
<1>6. \A a, b \in Nat : a # b => StringLess(a, b) \/ StringLess(b, a)
  BY <1>3, StringLessIs
<1>7. \A a, b, c \in Nat : StringLess(a, b) /\ StringLess(b, c) => StringLess(a, c)
  BY <1>4, StringLessIs
<1> QED
  BY <1>5, <1>6, <1>7

-----------------------------------------------------------------------------
(* The inductive invariant.                                                *)

SentRecords == [entry : 0..Entries, ts : Nat, size : Sizes, type : ContentTypes, labels : LabelMaps,
                last : BOOLEAN]

Sane ==
  /\ proto \in {1, 2}
  /\ names \in [1..Entries -> 1..Entries] /\ IsInjective(names)
  /\ start \in Nat
  /\ last \in BOOLEAN
  /\ stage \in {"sending", "complete", "parsed"}
  /\ stage = "sending" => last = FALSE
  /\ sent \in Seq(SentRecords)
  /\ \A k \in 1..Len(sent) : sent[k].last = (last /\ k = Len(sent))

\* V1: the records by rising time, each described in full.
HeldV1 ==
  /\ \A k \in 1..Len(sent) :
       /\ sent[k].entry = Unnamed
       /\ headers[sent[k].ts] = [size |-> sent[k].size, type |-> sent[k].type, labels |-> sent[k].labels]
  /\ \A j, k \in 1..Len(sent) : j < k => sent[j].ts < sent[k].ts
  /\ \A x : x \in DOMAIN headers <=> \E k \in 1..Len(sent) : x = sent[k].ts

\* The records before the k-th in its entry, and what it has in common with the
\* last of them.
Earlier(k) == {j \in 1..(k - 1) : sent[j].entry = sent[k].entry}

Base(k) ==
  IF Earlier(k) = {} THEN [type |-> DefaultType, labels |-> <<>>]
  ELSE [type |-> sent[Max(Earlier(k))].type, labels |-> sent[Max(Earlier(k))].labels]

Described(k) ==
  [size  |-> sent[k].size,
   type  |-> IF sent[k].type = Base(k).type THEN NoType ELSE sent[k].type,
   delta |-> Delta(sent[k].labels, Base(k).labels)]

\* V2: the records under rising keys, each described by what has changed.
KeyFits(key, k) ==
  /\ key.idx \in 1..Entries
  /\ key = [idx |-> key.idx, delta |-> sent[k].ts - start]
  /\ names[key.idx] = sent[k].entry
  /\ sent[k].ts >= start
  /\ headers[key] = Described(k)

HeldV2(keys) ==
  /\ DOMAIN keys = 1..Len(sent)
  /\ \A k \in 1..Len(sent) : KeyFits(keys[k], k)
  /\ \A j, k \in 1..Len(sent) : j < k => KeyLess(keys[j], keys[k])
  /\ \A x : x \in DOMAIN headers <=> \E k \in 1..Len(sent) : x = keys[k]

Held ==
  /\ proto = 1 => HeldV1
  /\ proto = 2 => \E keys : HeldV2(keys)

ResponseInv ==
  /\ Sane
  /\ Held
  /\ stage = "parsed" => parsed = IF proto = 1 THEN RecordsV1 ELSE RecordsV2

LEMMA ResponseInitInv == ResponseInit => ResponseInv
<1> SUFFICES ASSUME ResponseInit PROVE ResponseInv
  OBVIOUS
<1>1. sent = <<>> /\ Len(sent) = 0 /\ DOMAIN headers = {} /\ last = FALSE /\ stage = "sending"
  BY DEF ResponseInit
<1>2. Sane
  <2>1. names \in [1..Entries -> 1..Entries] /\ IsInjective(names)
    BY DEF ResponseInit
  <2>2. start \in Nat /\ proto \in {1, 2}
    BY BatchResponseAssumption DEF ResponseInit
  <2>3. sent \in Seq(SentRecords)
    BY <1>1
  <2>4. last \in BOOLEAN /\ stage \in {"sending", "complete", "parsed"}
    BY <1>1
  <2>5. \A k \in 1..Len(sent) : sent[k].last = (last /\ k = Len(sent))
    BY <1>1
  <2> QED
    BY <1>1, <2>1, <2>2, <2>3, <2>4, <2>5, Zenon DEF Sane
<1>3. HeldV1
  BY <1>1 DEF HeldV1
<1>4. HeldV2(<<>>)
  <2>1. DOMAIN <<>> = {}
    OBVIOUS
  <2> QED
    BY <1>1, <2>1 DEF HeldV2
<1> QED
  BY <1>1, <1>2, <1>3, <1>4 DEF ResponseInv, Held

-----------------------------------------------------------------------------
(* Steps.                                                                  *)

\* The first n records stay what they are, but for the mark of the last.
Stay(n) ==
  \A j \in 1..n : /\ sent'[j].entry = sent[j].entry /\ sent'[j].ts = sent[j].ts /\ sent'[j].size = sent[j].size
                  /\ sent'[j].type = sent[j].type /\ sent'[j].labels = sent[j].labels

\* So do their descriptions.
LEMMA DescriptionStays ==
  ASSUME NEW n \in Nat, Stay(n), NEW k \in 1..n
  PROVE  Earlier(k)' = Earlier(k) /\ Base(k)' = Base(k) /\ Described(k)' = Described(k)
<1>1. \A j \in 1..(k - 1) : j \in 1..n
  OBVIOUS
<1>2. Earlier(k)' = Earlier(k)
  BY <1>1 DEF Earlier, Stay
<1>3. Base(k)' = Base(k)
  <2>1. CASE Earlier(k) = {}
    BY <1>2, <2>1 DEF Base
  <2>2. CASE Earlier(k) # {}
    <3>1. Earlier(k) \subseteq Nat /\ \A j \in Earlier(k) : j <= n
      BY <1>1 DEF Earlier
    <3>2. Max(Earlier(k)) \in Earlier(k)
      BY <2>2, <3>1, GreatestNumber
    <3> DEFINE m == Max(Earlier(k))
    <3>3. m \in 1..n
      BY <1>1, <3>2 DEF Earlier
    <3>4. Max(Earlier(k))' = m
      BY <1>2
    <3> HIDE DEF m
    <3>5. sent'[m].type = sent[m].type /\ sent'[m].labels = sent[m].labels
      BY <3>3 DEF Stay
    <3> QED
      BY <1>2, <2>2, <3>4, <3>5 DEF Base, m
  <2> QED
    BY <2>1, <2>2
<1>4. Described(k)' = Described(k)
  BY <1>3 DEF Described, Stay, Delta
<1> QED
  BY <1>2, <1>3, <1>4

LEMMA SentTypes ==
  ASSUME Sane
  PROVE  /\ Len(sent) \in Nat /\ sent \in Seq(SentRecords)
         /\ \A k \in 1..Len(sent) :
              /\ sent[k] \in SentRecords
              /\ sent[k].entry \in 0..Entries /\ sent[k].ts \in Nat /\ sent[k].size \in Sizes
              /\ sent[k].type \in ContentTypes /\ sent[k].labels \in LabelMaps
<1>1. sent \in Seq(SentRecords)
  BY DEF Sane
<1>2. \A k \in 1..Len(sent) : sent[k] \in SentRecords
  BY <1>1
<1>3. \A r \in SentRecords : /\ r.entry \in 0..Entries /\ r.ts \in Nat /\ r.size \in Sizes
                            /\ r.type \in ContentTypes /\ r.labels \in LabelMaps
  BY DEF SentRecords
<1> QED
  BY <1>1, <1>2, <1>3

\* A record sent is the last, and the others stay.
LEMMA Sends ==
  ASSUME Sane, NEW r, r \in SentRecords, r.last = FALSE, stage = "sending", sent' = Append(sent, r),
         UNCHANGED <<proto, names, start, last, stage, parsed>>
  PROVE  /\ Sane' /\ Len(sent) \in Nat /\ Len(sent') = Len(sent) + 1
         /\ sent'[Len(sent')] = r /\ Stay(Len(sent)) /\ \A k \in 1..Len(sent) : sent'[k] = sent[k]
<1>1. sent \in Seq(SentRecords) /\ Len(sent) \in Nat
  BY DEF Sane
<1>2. /\ sent' \in Seq(SentRecords) /\ Len(sent') = Len(sent) + 1 /\ sent'[Len(sent) + 1] = r
      /\ \A k \in 1..Len(sent) : sent'[k] = sent[k]
  BY <1>1
<1>3. Stay(Len(sent))
  BY <1>2 DEF Stay
<1>4. \A k \in 1..Len(sent') : sent'[k].last = FALSE
  <2> SUFFICES ASSUME NEW k \in 1..Len(sent') PROVE sent'[k].last = FALSE
    OBVIOUS
  <2>1. CASE k = Len(sent) + 1
    BY <1>2, <2>1
  <2>2. CASE k # Len(sent) + 1
    <3>1. k \in 1..Len(sent)
      BY <1>1, <1>2, <2>2
    <3>2. sent[k].last = (last /\ k = Len(sent)) /\ last = FALSE
      BY <3>1 DEF Sane
    <3> QED
      BY <1>2, <3>1, <3>2
  <2> QED
    BY <2>1, <2>2
<1>5. last' = FALSE
  BY DEF Sane
<1>6. \A k \in 1..Len(sent') : sent'[k].last = (last' /\ k = Len(sent'))
  BY <1>4, <1>5
<1>7. Sane'
  <2>1. proto' \in {1, 2} /\ names' \in [1..Entries -> 1..Entries] /\ IsInjective(names') /\ start' \in Nat
    BY DEF Sane
  <2>2. last' \in BOOLEAN /\ stage' \in {"sending", "complete", "parsed"} /\ (stage' = "sending" => last' = FALSE)
    BY <1>5
  <2> QED
    BY <1>2, <1>6, <2>1, <2>2, Zenon DEF Sane
<1> QED
  BY <1>1, <1>2, <1>3, <1>7

LEMMA SendV1Keeps ==
  ASSUME ResponseInv, NEW ts \in Times, NEW size \in Sizes, NEW type \in ContentTypes, NEW labels \in LabelMaps,
         SendV1(ts, size, type, labels), stage = "sending",
         UNCHANGED <<proto, names, start, last, stage, parsed>>
  PROVE  ResponseInv'
<1> DEFINE n == Len(sent)
           r == [entry |-> Unnamed, ts |-> ts, size |-> size, type |-> type, labels |-> labels, last |-> FALSE]
<1>1. proto = 1 /\ sent' = Append(sent, r) /\ Sane /\ HeldV1 /\ ts \in Nat
  BY BatchResponseAssumption DEF SendV1, ResponseInv, Held
<1>2. r \in SentRecords /\ r.last = FALSE
  BY <1>1, BatchResponseAssumption DEF SentRecords, Unnamed
<1>3. r.entry = Unnamed /\ r.ts = ts /\ r.size = size /\ r.type = type /\ r.labels = labels
  OBVIOUS
<1> HIDE DEF r
<1>4. /\ Sane' /\ n \in Nat /\ Len(sent') = n + 1 /\ sent'[n + 1] = r
      /\ \A k \in 1..n : sent'[k] = sent[k]
  BY <1>1, <1>2, Sends DEF ResponseInv
<1>5. \A k \in 1..n : sent[k].ts \in Nat
  BY <1>1, SentTypes
<1>6. n # 0 => sent[n].ts < ts
  <2> SUFFICES ASSUME n # 0 PROVE sent[n].ts < ts
    OBVIOUS
  <2>1. sent # <<>>
    OBVIOUS
  <2>2. Follows(1, ts) /\ proto = 1
    BY DEF SendV1
  <2> QED
    BY <2>1, <2>2 DEF Follows, Last
<1>7. \A k \in 1..n : sent[k].ts < ts
  <2> SUFFICES ASSUME NEW k \in 1..n PROVE sent[k].ts < ts
    OBVIOUS
  <2>1. k = n \/ sent[k].ts < sent[n].ts
    BY <1>1, <1>4 DEF HeldV1
  <2> QED
    BY <1>1, <1>4, <1>5, <1>6, <2>1
<1>8. \A x : x \in DOMAIN headers' <=> x \in DOMAIN headers \/ x = ts
  BY DEF SendV1
<1>9. /\ headers'[ts] = [size |-> size, type |-> type, labels |-> labels]
      /\ \A x \in DOMAIN headers : x # ts => headers'[x] = headers[x]
  BY DEF SendV1
<1>10. \A k \in 1..Len(sent') : k = n + 1 \/ k \in 1..n
  BY <1>4
<1> HIDE DEF n
<1>11. ASSUME NEW k \in 1..Len(sent')
       PROVE  /\ sent'[k].entry = Unnamed
              /\ headers'[sent'[k].ts] = [size |-> sent'[k].size, type |-> sent'[k].type, labels |-> sent'[k].labels]
  <2>1. CASE k = n + 1
    BY <1>3, <1>4, <1>9, <2>1
  <2>2. CASE k \in 1..n
    <3>1. sent[k].ts \in DOMAIN headers /\ sent[k].ts # ts
      BY <1>1, <1>5, <1>7, <2>2 DEF HeldV1, n
    <3> QED
      BY <1>1, <1>4, <1>9, <2>2, <3>1 DEF HeldV1, n
  <2> QED
    BY <1>10, <2>1, <2>2
<1>12. ASSUME NEW j \in 1..Len(sent'), NEW k \in 1..Len(sent'), j < k PROVE sent'[j].ts < sent'[k].ts
  <2>1. j \in 1..n
    BY <1>4, <1>12
  <2>2. CASE k = n + 1
    BY <1>3, <1>4, <1>7, <2>1, <2>2
  <2>3. CASE k \in 1..n
    BY <1>1, <1>4, <1>12, <2>1, <2>3 DEF HeldV1, n
  <2> QED
    BY <1>10, <2>2, <2>3
<1>13. ASSUME NEW x PROVE x \in DOMAIN headers' <=> \E k \in 1..Len(sent') : x = sent'[k].ts
  <2>1. x \in DOMAIN headers <=> \E k \in 1..n : x = sent[k].ts
    BY <1>1 DEF HeldV1, n
  <2>2. (\E k \in 1..Len(sent') : x = sent'[k].ts) <=> (\E k \in 1..n : x = sent[k].ts) \/ x = ts
    <3>1. \A k \in 1..n : k \in 1..Len(sent')
      BY <1>4
    <3>2. n + 1 \in 1..Len(sent')
      BY <1>4
    <3> QED
      BY <1>3, <1>4, <1>10, <3>1, <3>2
  <2> QED
    BY <1>8, <2>1, <2>2
<1>14. HeldV1'
  BY <1>11, <1>12, <1>13 DEF HeldV1
<1>15. proto' = 1 /\ stage' # "parsed"
  BY <1>1
<1> QED
  BY <1>4, <1>14, <1>15 DEF ResponseInv, Held


\* Keys are ordered by a strict order.
LEMMA KeyOrder ==
  ASSUME NEW a, NEW b, NEW c, a.idx \in Nat, b.idx \in Nat, c.idx \in Nat,
         a.delta \in Int, b.delta \in Int, c.delta \in Int
  PROVE  /\ KeyLess(a, b) => a # b /\ ~KeyLess(b, a)
         /\ KeyLess(a, b) /\ KeyLess(b, c) => KeyLess(a, c)
BY DEF KeyLess

\* The fields of the keys.
LEMMA KeyTypes ==
  ASSUME Sane, NEW keys, HeldV2(keys), NEW k \in 1..Len(sent)
  PROVE  /\ keys[k].idx \in 1..Entries /\ keys[k].idx \in Nat
         /\ keys[k].delta = sent[k].ts - start /\ keys[k].delta \in Int
         /\ keys[k] = [idx |-> keys[k].idx, delta |-> keys[k].delta]
         /\ names[keys[k].idx] = sent[k].entry /\ sent[k].ts >= start
         /\ start + keys[k].delta = sent[k].ts
         /\ headers[keys[k]] = Described(k)
<1>1. KeyFits(keys[k], k)
  BY DEF HeldV2
<1>2. sent[k].ts \in Nat /\ start \in Nat
  BY SentTypes DEF Sane
<1>3. keys[k] = [idx |-> keys[k].idx, delta |-> sent[k].ts - start]
  BY <1>1 DEF KeyFits
<1>4. keys[k].delta = sent[k].ts - start
  BY <1>3
<1>5. keys[k].idx \in 1..Entries /\ names[keys[k].idx] = sent[k].entry /\ sent[k].ts >= start
      /\ headers[keys[k]] = Described(k)
  BY <1>1 DEF KeyFits
<1>6. keys[k] = [idx |-> keys[k].idx, delta |-> keys[k].delta]
  BY <1>3, <1>4
<1> HIDE <1>3
<1>7. keys[k].delta \in Int /\ start + keys[k].delta = sent[k].ts
  BY <1>2, <1>4
<1>8. keys[k].idx \in Nat
  BY <1>5, BatchResponseAssumption
<1> QED
  BY <1>4, <1>5, <1>6, <1>7, <1>8

LEMMA SendV2Keeps ==
  ASSUME ResponseInv, NEW idx \in 1..Entries, NEW ts \in Times, NEW size \in Sizes, NEW type \in ContentTypes,
         NEW labels \in LabelMaps, SendV2(idx, ts, size, type, labels), stage = "sending",
         UNCHANGED <<proto, names, start, last, stage, parsed>>
  PROVE  ResponseInv'
<1>0. PICK n : n = Len(sent)
  OBVIOUS
<1> DEFINE key == [idx |-> idx, delta |-> ts - start]
           base == Inherited(idx)
           r == [entry |-> names[idx], ts |-> ts, size |-> size, type |-> type, labels |-> labels, last |-> FALSE]
           value == [size |-> size, type |-> IF type = base.type THEN NoType ELSE type,
                     delta |-> Delta(labels, base.labels)]
<1>1. proto = 2 /\ sent' = Append(sent, r) /\ Sane /\ ts \in Nat /\ ts >= start
  BY BatchResponseAssumption DEF SendV2, ResponseInv
<1>2. PICK keys : HeldV2(keys)
  BY <1>1 DEF ResponseInv, Held
<1>3. /\ start \in Nat /\ Entries \in Nat /\ idx \in Nat
      /\ names \in [1..Entries -> 1..Entries] /\ IsInjective(names)
  <2>1. start \in Nat /\ names \in [1..Entries -> 1..Entries] /\ IsInjective(names)
    BY <1>1, Zenon DEF Sane
  <2>2. Entries \in Nat
    BY BatchResponseAssumption
  <2>3. idx \in Nat
    BY <2>2
  <2> QED
    BY <2>1, <2>2, <2>3
<1>4. names[idx] \in 1..Entries
  BY <1>3
<1>5. r \in SentRecords /\ r.last = FALSE
  BY <1>1, <1>3, <1>4 DEF SentRecords
<1>6. r.entry = names[idx] /\ r.ts = ts /\ r.size = size /\ r.type = type /\ r.labels = labels
  OBVIOUS
<1>7. key.idx = idx /\ key.delta = ts - start /\ key = [idx |-> key.idx, delta |-> ts - start]
  OBVIOUS
<1>8. key.delta \in Int
  BY <1>1, <1>3, <1>7
<1>9. /\ \A x : x \in DOMAIN headers' <=> x \in DOMAIN headers \/ x = key
      /\ headers'[key] = value
      /\ \A x \in DOMAIN headers : x # key => headers'[x] = headers[x]
  BY DEF SendV2
<1> HIDE DEF r, key
<1>10. /\ Sane' /\ n \in Nat /\ Len(sent') = n + 1 /\ sent'[n + 1] = r /\ Stay(n)
       /\ \A k \in 1..n : sent'[k] = sent[k]
  BY <1>0, <1>1, <1>5, Sends DEF ResponseInv
<1>11. n # 0 => KeyLess(keys[n], key)
  <2> SUFFICES ASSUME n # 0 PROVE KeyLess(keys[n], key)
    OBVIOUS
  <2>1. sent # <<>> /\ Last(sent) = sent[n] /\ n \in 1..Len(sent)
    BY <1>0, <1>10 DEF Last
  <2>2. /\ keys[n].idx \in 1..Entries /\ keys[n].idx \in Nat
        /\ keys[n].delta = sent[n].ts - start /\ names[keys[n].idx] = sent[n].entry
    BY <1>0, <1>1, <1>2, <2>1, KeyTypes
  <2>3. sent[n].entry # Unnamed
    BY <1>3, <2>2 DEF Unnamed
  <2> DEFINE p == CHOOSE i \in 1..Entries : sent[n].entry \in {names[i], Unnamed}
  <2>4. p = keys[n].idx
    <3>1. \A i \in 1..Entries : sent[n].entry \in {names[i], Unnamed} <=> i = keys[n].idx
      BY <1>3, <2>2, <2>3 DEF IsInjective
    <3> QED
      BY <2>2, <3>1
  <2>5. p < idx \/ (p = idx /\ sent[n].ts < ts)
    <3>1. Follows(idx, ts)
      BY DEF SendV2
    <3> QED
      BY <1>1, <2>1, <3>1 DEF Follows
  <2> HIDE DEF p
  <2>6. sent[n].ts \in Nat
    BY <1>0, <1>1, <2>1, SentTypes
  <2>7. sent[n].ts < ts => sent[n].ts - start < ts - start
    BY <1>1, <1>3, <2>6
  <2> QED
    BY <1>7, <2>2, <2>4, <2>5, <2>7 DEF KeyLess
<1>12. \A k \in 1..n : KeyLess(keys[k], key)
  <2> SUFFICES ASSUME NEW k \in 1..n PROVE KeyLess(keys[k], key)
    OBVIOUS
  <2>1. k = n \/ KeyLess(keys[k], keys[n])
    BY <1>0, <1>2, <1>10 DEF HeldV2
  <2>2. n \in 1..n /\ n # 0
    BY <1>10
  <2>3. keys[k].idx \in Nat /\ keys[k].delta \in Int /\ keys[n].idx \in Nat /\ keys[n].delta \in Int
    BY <1>0, <1>1, <1>2, <2>2, KeyTypes
  <2>4. key.idx \in Nat
    BY <1>3, <1>7
  <2> QED
    BY <1>8, <1>11, <2>1, <2>2, <2>3, <2>4, KeyOrder
<1>13. \A k \in 1..n : keys[k] # key
  <2> SUFFICES ASSUME NEW k \in 1..n PROVE keys[k] # key
    OBVIOUS
  <2>1. keys[k].idx \in Nat /\ keys[k].delta \in Int /\ key.idx \in Nat
    BY <1>0, <1>1, <1>2, <1>3, <1>7, KeyTypes
  <2> QED
    BY <1>8, <1>12, <2>1, KeyOrder
<1>14. \A k \in 1..Len(sent') : k = n + 1 \/ k \in 1..n
  BY <1>10
<1>15. PICK after : /\ DOMAIN after = 1..(n + 1) /\ after[n + 1] = key
                    /\ \A k \in 1..n : after[k] = keys[k]
  <2> DEFINE f == [k \in 1..(n + 1) |-> IF k = n + 1 THEN key ELSE keys[k]]
  <2>1. DOMAIN f = 1..(n + 1) /\ f[n + 1] = key /\ \A k \in 1..n : f[k] = keys[k]
    BY <1>10
  <2> HIDE DEF f
  <2> QED
    BY <2>1
<1>16. DOMAIN after = 1..Len(sent')
  BY <1>10, <1>15
<1>17. Described(n + 1)' = value
  <2> DEFINE before == {k \in 1..Len(sent) : sent[k].entry = names[idx]}
  <2>1. Earlier(n + 1)' = before
    <3>1. (n + 1) - 1 = n
      BY <1>10
    <3> QED
      BY <1>0, <1>6, <1>10, <3>1 DEF Earlier
  <2>2. Base(n + 1)' = base
    <3>1. CASE before = {}
      BY <2>1, <3>1 DEF Base, Inherited
    <3>2. CASE before # {}
      <4>1. before \subseteq Nat /\ \A j \in before : j <= n
        BY <1>0, <1>10
      <4>2. Max(before) \in before
        BY <1>10, <3>2, <4>1, GreatestNumber
      <4>3. Max(before) \in 1..n
        BY <1>0, <4>2
      <4> DEFINE m == Max(before)
      <4>4. Max(Earlier(n + 1))' = m
        BY <2>1
      <4>5. base = [type |-> sent[m].type, labels |-> sent[m].labels]
        BY <3>2 DEF Inherited
      <4> HIDE DEF m, before
      <4>6. sent'[m] = sent[m]
        BY <1>10, <4>3 DEF m
      <4> QED
        BY <2>1, <3>2, <4>4, <4>5, <4>6 DEF Base
    <3> QED
      BY <3>1, <3>2
  <2> HIDE DEF base
  <2> QED
    BY <1>6, <1>10, <2>2 DEF Described, Delta
<1>18. ASSUME NEW k \in 1..n PROVE /\ keys[k] \in DOMAIN headers /\ Described(k)' = Described(k)
                                   /\ KeyFits(keys[k], k)
  BY <1>0, <1>2, <1>10, DescriptionStays DEF HeldV2
<1>19. ASSUME NEW k \in 1..Len(sent') PROVE KeyFits(after[k], k)'
  <2>1. CASE k = n + 1
    <3>1. after[k] = key /\ sent'[k].ts = ts /\ sent'[k].entry = names[idx]
      BY <1>6, <1>10, <1>15, <2>1
    <3>2. headers'[key] = Described(k)'
      BY <1>9, <1>17, <2>1
    <3> HIDE DEF value, base
    <3> QED
      BY <1>1, <1>7, <3>1, <3>2 DEF KeyFits
  <2>2. CASE k \in 1..n
    <3>1. after[k] = keys[k] /\ sent'[k] = sent[k] /\ headers'[keys[k]] = headers[keys[k]]
      BY <1>9, <1>10, <1>13, <1>15, <1>18, <2>2
    <3> QED
      BY <1>18, <2>2, <3>1 DEF KeyFits
  <2> QED
    BY <1>14, <2>1, <2>2
<1>20. ASSUME NEW j \in 1..Len(sent'), NEW k \in 1..Len(sent'), j < k PROVE KeyLess(after[j], after[k])
  <2>1. j \in 1..n
    BY <1>10, <1>20
  <2>2. CASE k = n + 1
    BY <1>12, <1>15, <2>1, <2>2
  <2>3. CASE k \in 1..n
    BY <1>0, <1>2, <1>15, <1>20, <2>1, <2>3 DEF HeldV2
  <2> QED
    BY <1>14, <2>2, <2>3
<1>21. ASSUME NEW x PROVE x \in DOMAIN headers' <=> \E k \in 1..Len(sent') : x = after[k]
  <2>1. x \in DOMAIN headers <=> \E k \in 1..n : x = keys[k]
    BY <1>0, <1>2 DEF HeldV2
  <2>2. (\E k \in 1..Len(sent') : x = after[k]) <=> (\E k \in 1..n : x = keys[k]) \/ x = key
    <3>1. \A k \in 1..n : k \in 1..Len(sent')
      BY <1>10
    <3>2. n + 1 \in 1..Len(sent')
      BY <1>10
    <3> QED
      BY <1>14, <1>15, <3>1, <3>2
  <2> QED
    BY <1>9, <2>1, <2>2
<1>22. \E ks : HeldV2(ks)'
  <2>1. HeldV2(after)'
    BY <1>16, <1>19, <1>20, <1>21 DEF HeldV2
  <2> QED
    BY <2>1
<1>23. proto' = 2 /\ stage' # "parsed"
  BY <1>1
<1> QED
  BY <1>10, <1>22, <1>23 DEF ResponseInv, Held

LEMMA EndHeadersKeeps == ResponseInv /\ EndHeaders => ResponseInv'
<1> SUFFICES ASSUME ResponseInv, EndHeaders PROVE ResponseInv'
  OBVIOUS
<1>0. PICK n : n = Len(sent)
  OBVIOUS
<1>1. /\ Sane /\ n \in Nat /\ sent \in Seq(SentRecords)
      /\ UNCHANGED <<proto, names, start, headers, parsed>>
      /\ stage' = "complete" /\ last' \in BOOLEAN
      /\ sent' = [k \in 1..n |-> [sent[k] EXCEPT !.last = last' /\ k = n]]
  BY <1>0, SentTypes DEF ResponseInv, EndHeaders
<1>2. ASSUME NEW k \in 1..n
      PROVE  /\ sent'[k] \in SentRecords /\ sent'[k].last = (last' /\ k = n)
             /\ sent'[k].entry = sent[k].entry /\ sent'[k].ts = sent[k].ts /\ sent'[k].size = sent[k].size
             /\ sent'[k].type = sent[k].type /\ sent'[k].labels = sent[k].labels
  <2>1. sent[k] \in SentRecords
    BY <1>0, <1>1, SentTypes
  <2>2. sent'[k] = [sent[k] EXCEPT !.last = last' /\ k = n]
    BY <1>1
  <2>3. (last' /\ k = n) \in BOOLEAN
    OBVIOUS
  <2> DEFINE mark == last' /\ k = n
  <2> HIDE DEF mark
  <2>4. \A r \in SentRecords : mark \in BOOLEAN =>
           LET s == [r EXCEPT !.last = mark]
           IN  /\ s \in SentRecords /\ s.last = mark /\ s.entry = r.entry /\ s.ts = r.ts /\ s.size = r.size
               /\ s.type = r.type /\ s.labels = r.labels
    BY DEF SentRecords
  <2> QED
    BY <2>1, <2>2, <2>3, <2>4 DEF mark
<1>3. sent' \in Seq(SentRecords) /\ Len(sent') = n
  <2>1. sent' \in [1..n -> SentRecords]
    BY <1>1, <1>2
  <2>2. [1..n -> SentRecords] \subseteq Seq(SentRecords)
    BY <1>1, SeqDef
  <2> QED
    BY <1>1, <2>1, <2>2
<1>4. Stay(n)
  BY <1>2 DEF Stay
<1>5. Sane'
  <2>1. proto' \in {1, 2} /\ names' \in [1..Entries -> 1..Entries] /\ IsInjective(names') /\ start' \in Nat
    BY <1>1 DEF Sane
  <2>2. \A k \in 1..Len(sent') : sent'[k].last = (last' /\ k = Len(sent'))
    BY <1>2, <1>3
  <2> QED
    BY <1>1, <1>3, <2>1, <2>2, Zenon DEF Sane
<1>6. CASE proto = 1
  <2>1. HeldV1
    BY <1>6 DEF ResponseInv, Held
  <2>2. HeldV1'
    <3>1. \A k \in 1..n : sent'[k].entry = sent[k].entry /\ sent'[k].ts = sent[k].ts /\ sent'[k].size = sent[k].size
                          /\ sent'[k].type = sent[k].type /\ sent'[k].labels = sent[k].labels
      BY <1>2
    <3>2. ASSUME NEW k \in 1..n
          PROVE  /\ sent'[k].entry = Unnamed
                 /\ headers'[sent'[k].ts]
                      = [size |-> sent'[k].size, type |-> sent'[k].type, labels |-> sent'[k].labels]
      <4>1. /\ sent[k].entry = Unnamed
            /\ headers[sent[k].ts] = [size |-> sent[k].size, type |-> sent[k].type, labels |-> sent[k].labels]
        BY <1>0, <2>1 DEF HeldV1
      <4> QED
        BY <1>1, <3>1, <4>1
    <3>3. \A j, k \in 1..n : j < k => sent'[j].ts < sent'[k].ts
      BY <1>0, <2>1, <3>1 DEF HeldV1
    <3>4. \A x : x \in DOMAIN headers' <=> \E k \in 1..n : x = sent'[k].ts
      <4>1. \A x : x \in DOMAIN headers <=> \E k \in 1..n : x = sent[k].ts
        BY <1>0, <2>1 DEF HeldV1
      <4>2. headers' = headers /\ \A k \in 1..n : sent'[k].ts = sent[k].ts
        BY <1>1, <3>1
      <4> QED
        BY ONLY <4>1, <4>2
    <3> QED
      BY <1>3, <3>2, <3>3, <3>4 DEF HeldV1
  <2> QED
    BY <1>1, <1>5, <1>6, <2>2 DEF ResponseInv, Held
<1>7. CASE proto = 2
  <2>1. PICK keys : HeldV2(keys)
    BY <1>7 DEF ResponseInv, Held
  <2>2. ASSUME NEW k \in 1..n PROVE KeyFits(keys[k], k)'
    <3>1. KeyFits(keys[k], k)
      BY <1>0, <2>1 DEF HeldV2
    <3>2. Described(k)' = Described(k)
      BY <1>1, <1>4, DescriptionStays
    <3> QED
      BY <1>1, <1>4, <3>1, <3>2 DEF KeyFits, Stay
  <2>3. HeldV2(keys)'
    BY <1>0, <1>1, <1>3, <2>1, <2>2 DEF HeldV2
  <2>4. \E ks : HeldV2(ks)'
    BY <2>3
  <2> QED
    BY <1>1, <1>5, <1>7, <2>4 DEF ResponseInv, Held
<1> QED
  BY <1>1, <1>6, <1>7 DEF Sane

\* What the invariant says of the headers and the records stays with them.
LEMMA HeldStays ==
  ASSUME UNCHANGED <<proto, names, start, headers, last, sent>>
  PROVE  (Held' <=> Held) /\ RecordsV1' = RecordsV1 /\ RecordsV2' = RecordsV2
<1>1. Held' <=> Held
  <2>1. Len(sent') = Len(sent)
    OBVIOUS
  <2>2. \A k : Described(k)' = Described(k)
    BY DEF Described, Base, Earlier, Delta
  <2>3. \A key, k : KeyFits(key, k)' <=> KeyFits(key, k)
    BY <2>2 DEF KeyFits
  <2>4. \A keys : HeldV2(keys)' <=> HeldV2(keys)
    BY <2>3 DEF HeldV2
  <2>5. HeldV1' <=> HeldV1
    BY DEF HeldV1
  <2> QED
    BY <2>4, <2>5 DEF Held
<1>2. OrderV1' = OrderV1 /\ OrderV2' = OrderV2
  BY DEF OrderV1, OrderV2
<1>3. Turns' = Turns
  BY <1>2 DEF Turns, ParseNext
<1>4. RecordsV1' = RecordsV1
  BY <1>2 DEF RecordsV1
<1>5. RecordsV2' = RecordsV2
  BY <1>2, <1>3 DEF RecordsV2
<1> QED
  BY <1>1, <1>4, <1>5

LEMMA ParseKeeps == ResponseInv /\ Parse => ResponseInv'
<1> SUFFICES ASSUME ResponseInv, Parse PROVE ResponseInv'
  OBVIOUS
<1>1. UNCHANGED <<proto, names, start, headers, last, sent>> /\ stage' = "parsed"
  BY DEF Parse
<1>2. Sane'
  BY <1>1 DEF Sane, ResponseInv
<1> QED
  BY <1>1, <1>2, HeldStays DEF ResponseInv, Parse

LEMMA StutterKeeps == ResponseInv /\ UNCHANGED responseVars => ResponseInv'
<1> SUFFICES ASSUME ResponseInv, UNCHANGED responseVars PROVE ResponseInv'
  OBVIOUS
<1>1. UNCHANGED <<proto, names, start, headers, last, sent, stage, parsed>>
  BY DEF responseVars
<1>2. Sane'
  BY <1>1 DEF Sane, ResponseInv
<1> QED
  BY <1>1, <1>2, HeldStays DEF ResponseInv

LEMMA ResponseNextInv == ResponseInv /\ [ResponseNext]_responseVars => ResponseInv'
<1> SUFFICES ASSUME ResponseInv, [ResponseNext]_responseVars PROVE ResponseInv'
  OBVIOUS
<1>1. CASE SendRecord
  <2>1. PICK idx \in 1..Entries, ts \in Times, size \in Sizes, type \in ContentTypes, labels \in LabelMaps :
           SendV1(ts, size, type, labels) \/ SendV2(idx, ts, size, type, labels)
    BY <1>1 DEF SendRecord
  <2>2. stage = "sending" /\ UNCHANGED <<proto, names, start, last, stage, parsed>>
    BY <1>1 DEF SendRecord
  <2> QED
    BY <2>1, <2>2, SendV1Keeps, SendV2Keeps
<1>2. CASE EndHeaders
  BY <1>2, EndHeadersKeeps
<1>3. CASE Parse
  BY <1>3, ParseKeeps
<1>4. CASE Parsed \/ UNCHANGED responseVars
  BY <1>4, StutterKeeps DEF Parsed
<1> QED
  BY <1>1, <1>2, <1>3, <1>4 DEF ResponseNext

THEOREM ResponseInvHolds == ResponseSpec => []ResponseInv
<1>1. ResponseInit => ResponseInv
  BY ResponseInitInv
<1>2. ResponseInv /\ [ResponseNext]_responseVars => ResponseInv'
  BY ResponseNextInv
<1> QED
  BY <1>1, <1>2, PTL DEF ResponseSpec

-----------------------------------------------------------------------------
(* Labels.                                                                 *)

\* The labels sent are those the parser makes of what has changed.
LEMMA LabelsBack ==
  ASSUME NEW l \in LabelMaps, NEW b \in LabelMaps
  PROVE  ApplyLabelDelta(Delta(l, b), b) = l
<1> DEFINE changed == {k \in DOMAIN l : k \notin DOMAIN b \/ b[k] # l[k]}
           gone == DOMAIN b \ DOMAIN l
           d == Delta(l, b)
           set == {k \in DOMAIN d : d[k] # Erase}
<1>1. PICK K : l \in [K -> Values]
  BY DEF LabelMaps
<1>2. \A k \in DOMAIN l : l[k] # Erase
  BY <1>1, BatchResponseAssumption
<1>3. DOMAIN d = changed \cup gone /\ \A k \in changed \cup gone : d[k] = IF k \in changed THEN l[k] ELSE Erase
  BY DEF Delta
<1> HIDE DEF d
<1>4. set = changed
  BY <1>2, <1>3
<1>5. ApplyLabelDelta(d, b) = [k \in (DOMAIN b \ DOMAIN d) \cup set |-> IF k \in set THEN d[k] ELSE b[k]]
  BY DEF ApplyLabelDelta
<1>6. (DOMAIN b \ DOMAIN d) \cup set = DOMAIN l
  BY <1>3, <1>4
<1>7. \A k \in DOMAIN l : (IF k \in set THEN d[k] ELSE b[k]) = l[k]
  BY <1>3, <1>4
<1>8. l = [k \in DOMAIN l |-> l[k]]
  BY <1>1
<1> HIDE DEF set
<1> QED
  BY <1>5, <1>6, <1>7, <1>8 DEF d

LEMMA NoLabels == <<>> \in LabelMaps
<1>1. <<>> \in [{} -> Values]
  OBVIOUS
<1> QED
  BY <1>1 DEF LabelMaps

-----------------------------------------------------------------------------
(* What V1 parses.                                                         *)

StringPairs == {p \in (DOMAIN headers) \X (DOMAIN headers) : StringLess(p[1], p[2])}

\* The times are the keys, as many as records.
LEMMA TimesV1 ==
  ASSUME Sane, HeldV1
  PROVE  /\ DOMAIN headers \subseteq Nat /\ IsFiniteSet(DOMAIN headers)
         /\ Cardinality(DOMAIN headers) = Len(sent)
         /\ [k \in 1..Len(sent) |-> sent[k].ts] \in SetToSeqs(DOMAIN headers)
         /\ Len([k \in 1..Len(sent) |-> sent[k].ts]) = Len(sent)
<1> DEFINE S == DOMAIN headers
           n == Len(sent)
           s == [k \in 1..n |-> sent[k].ts]
<1>1. n \in Nat /\ \A k \in 1..n : sent[k].ts \in Nat
  BY SentTypes
<1>2. \A x : x \in S <=> \E k \in 1..n : x = sent[k].ts
  BY DEF HeldV1
<1>3. DOMAIN s = 1..n /\ \A k \in 1..n : s[k] = sent[k].ts
  OBVIOUS
<1>4. S \subseteq Nat
  BY <1>1, <1>2
<1>5. \A i, j \in 1..n : i < j => sent[i].ts < sent[j].ts
  BY DEF HeldV1
<1>6. \A i, j \in 1..n : s[i] = s[j] => i = j
  <2> SUFFICES ASSUME NEW i \in 1..n, NEW j \in 1..n, s[i] = s[j], i # j PROVE FALSE
    OBVIOUS
  <2>1. sent[i].ts = sent[j].ts /\ sent[i].ts \in Nat /\ (i < j \/ j < i)
    BY <1>1, <1>3
  <2> QED
    BY <1>5, <2>1
<1>7. s \in Seq(S)
  <2>1. s \in [1..n -> S]
    BY <1>2
  <2>2. [1..n -> S] \subseteq Seq(S)
    BY <1>1, SeqDef
  <2> QED
    BY <2>1, <2>2
<1>8. \A x \in S : \E k \in 1..n : s[k] = x
  BY <1>2, <1>3
<1> HIDE DEF s, n, S
<1>9. IsFiniteSet(S) /\ Cardinality(S) = n /\ s \in SetToSeqs(S) /\ Len(s) = n
  BY <1>1, <1>3, <1>6, <1>7, <1>8, Numbered
<1> QED
  BY <1>4, <1>9 DEF s, n, S

\* There is an order, and OrderV1 is one.
LEMMA OrderV1Orders ==
  ASSUME Sane, HeldV1
  PROVE  Orders(OrderV1, DOMAIN headers, StringPairs)
<1> DEFINE S == DOMAIN headers
           R == StringPairs
<1>1. S \subseteq Nat /\ IsFiniteSet(S)
  BY TimesV1
<1>2. ASSUME NEW x \in S, NEW y \in S PROVE <<x, y>> \in R <=> StringLess(x, y)
  <2>1. \A p : p \in StringPairs <=> p \in (DOMAIN headers) \X (DOMAIN headers) /\ StringLess(p[1], p[2])
    BY Zenon DEF StringPairs
  <2>2. PICK p : p = <<x, y>>
    OBVIOUS
  <2>3. p \in (DOMAIN headers) \X (DOMAIN headers)
    BY <2>2
  <2>4. p[1] = x /\ p[2] = y
    BY <2>2
  <2>5. p \in StringPairs <=> StringLess(x, y)
    BY ONLY <2>1, <2>3, <2>4
  <2> QED
    BY ONLY <2>2, <2>5 DEF R
<1> HIDE DEF S, R
<1>3. \A x \in S : <<x, x>> \notin R
  BY <1>1, <1>2, StringOrder
<1>4. \A x, y \in S : x # y => <<x, y>> \in R \/ <<y, x>> \in R
  BY <1>1, <1>2, StringOrder
<1>5. \A x, y, z \in S : <<x, y>> \in R /\ <<y, z>> \in R => <<x, z>> \in R
  BY <1>1, <1>2, StringOrder
<1>6. PICK t : Orders(t, S, R)
  BY <1>1, <1>3, <1>4, <1>5, SomeOrder
<1>7. \A u \in SetToSeqs(S) : Orders(u, S, R) <=> \A i, j \in 1..Len(u) : i < j => StringLess(u[i], u[j])
  <2> SUFFICES ASSUME NEW u \in SetToSeqs(S)
               PROVE  Orders(u, S, R) <=> \A i, j \in 1..Len(u) : i < j => StringLess(u[i], u[j])
    OBVIOUS
  <2>1. \A k \in 1..Len(u) : u[k] \in S
    BY <1>1, SeqsOf
  <2> QED
    BY <1>2, <2>1 DEF Orders
<1>8. OrderV1 = CHOOSE u \in SetToSeqs(S) : \A i, j \in 1..Len(u) : i < j => StringLess(u[i], u[j])
  BY DEF OrderV1, InOrder, S
<1>9. OrderV1 \in SetToSeqs(S) /\ \A i, j \in 1..Len(OrderV1) : i < j => StringLess(OrderV1[i], OrderV1[j])
  BY <1>6, <1>7, <1>8 DEF Orders
<1> QED
  BY <1>7, <1>9 DEF S, R

\* A record sent, unmarked.
Unmarked(j) ==
  [entry |-> sent[j].entry, ts |-> sent[j].ts, size |-> sent[j].size, type |-> sent[j].type,
   labels |-> sent[j].labels, last |-> FALSE]

\* A record sent with another mark.
Marked(j, mark) ==
  [entry |-> sent[j].entry, ts |-> sent[j].ts, size |-> sent[j].size, type |-> sent[j].type,
   labels |-> sent[j].labels, last |-> mark]

LEMMA MarkedIs ==
  ASSUME Sane, NEW j \in 1..Len(sent)
  PROVE  /\ sent[j] = Marked(j, last /\ j = Len(sent))
         /\ [sent[j] EXCEPT !.last = FALSE] = Unmarked(j)
         /\ \A mark \in BOOLEAN : [Marked(j, mark) EXCEPT !.last = FALSE] = Unmarked(j)
<1>1. sent[j] \in SentRecords /\ sent[j].last = (last /\ j = Len(sent))
  BY SentTypes DEF Sane
<1>2. \A r \in SentRecords : r = [entry |-> r.entry, ts |-> r.ts, size |-> r.size, type |-> r.type,
                                  labels |-> r.labels, last |-> r.last]
  BY DEF SentRecords
<1>3. sent[j] = [entry |-> sent[j].entry, ts |-> sent[j].ts, size |-> sent[j].size, type |-> sent[j].type,
                 labels |-> sent[j].labels, last |-> sent[j].last]
  BY <1>1, <1>2
<1>4. sent[j] = Marked(j, last /\ j = Len(sent))
  BY ONLY <1>1, <1>3 DEF Marked
<1>5. ASSUME NEW r \in SentRecords
      PROVE  [r EXCEPT !.last = FALSE] =
               [entry |-> r.entry, ts |-> r.ts, size |-> r.size, type |-> r.type, labels |-> r.labels, last |-> FALSE]
  <2> DEFINE x == [r EXCEPT !.last = FALSE]
  <2>1. /\ x \in SentRecords /\ x.last = FALSE /\ x.entry = r.entry /\ x.ts = r.ts /\ x.size = r.size
        /\ x.type = r.type /\ x.labels = r.labels
    BY DEF SentRecords
  <2> HIDE DEF x
  <2>2. x = [entry |-> r.entry, ts |-> r.ts, size |-> r.size, type |-> r.type, labels |-> r.labels, last |-> FALSE]
    BY <1>2, <2>1
  <2> QED
    BY <2>2 DEF x
<1>6. [sent[j] EXCEPT !.last = FALSE] = Unmarked(j)
  BY <1>1, <1>5 DEF Unmarked
<1>7. ASSUME NEW mark \in BOOLEAN PROVE [Marked(j, mark) EXCEPT !.last = FALSE] = Unmarked(j)
  <2> DEFINE m == Marked(j, mark)
  <2>1. m \in SentRecords
    BY SentTypes DEF SentRecords, Marked
  <2>2. m.entry = sent[j].entry /\ m.ts = sent[j].ts /\ m.size = sent[j].size /\ m.type = sent[j].type
        /\ m.labels = sent[j].labels
    BY DEF Marked
  <2> HIDE DEF m
  <2>3. [m EXCEPT !.last = FALSE] = Unmarked(j)
    BY <1>5, <2>1, <2>2 DEF Unmarked
  <2> QED
    BY <2>3 DEF m
<1> QED
  BY <1>4, <1>6, <1>7

\* The k-th record parsed is the one sent with the k-th time.
LEMMA FoundV1 ==
  ASSUME Sane, HeldV1
  PROVE  /\ Len(OrderV1) = Len(sent) /\ Len(sent) \in Nat
         /\ DOMAIN RecordsV1 = 1..Len(sent) /\ Len(RecordsV1) = Len(sent)
         /\ RecordsV1 = [k \in 1..Len(sent) |-> RecordsV1[k]]
         /\ \A k, j \in 1..Len(sent) : OrderV1[k] = sent[j].ts => RecordsV1[k] = Marked(j, last /\ k = Len(sent))
<1> DEFINE n == Len(sent)
<1>1. OrderV1 \in SetToSeqs(DOMAIN headers) /\ IsFiniteSet(DOMAIN headers) /\ Cardinality(DOMAIN headers) = n
  BY OrderV1Orders, TimesV1 DEF Orders
<1>2. Len(OrderV1) = n /\ n \in Nat
  BY <1>1, SeqsOf, SentTypes
<1>3. RecordsV1 = [k \in 1..n |->
         LET ts == OrderV1[k]
         IN  [entry |-> Unnamed, ts |-> ts, size |-> headers[ts].size, type |-> headers[ts].type,
              labels |-> headers[ts].labels, last |-> last /\ k = n]]
  BY <1>2 DEF RecordsV1
<1>4. ASSUME NEW k \in 1..n, NEW j \in 1..n, OrderV1[k] = sent[j].ts
      PROVE  RecordsV1[k] = Marked(j, last /\ k = n)
  <2>1. sent[j].entry = Unnamed
        /\ headers[sent[j].ts] = [size |-> sent[j].size, type |-> sent[j].type, labels |-> sent[j].labels]
    BY DEF HeldV1
  <2>2. RecordsV1[k] =
          [entry |-> Unnamed, ts |-> sent[j].ts, size |-> headers[sent[j].ts].size,
           type |-> headers[sent[j].ts].type, labels |-> headers[sent[j].ts].labels, last |-> last /\ k = n]
    BY <1>3, <1>4
  <2> QED
    BY <2>1, <2>2 DEF Marked
<1>5. DOMAIN RecordsV1 = 1..n /\ Len(RecordsV1) = n /\ RecordsV1 = [k \in 1..n |-> RecordsV1[k]]
  BY <1>2, <1>3
<1> QED
  BY <1>2, <1>4, <1>5

LEMMA V1Complete ==
  ASSUME Sane, HeldV1
  PROVE  /\ Len(RecordsV1) = Len(sent)
         /\ {[r EXCEPT !.last = FALSE] : r \in Range(RecordsV1)}
              = {[r EXCEPT !.last = FALSE] : r \in Range(sent)}
<1> DEFINE n == Len(sent)
           Pairs(k, j) == OrderV1[k] = sent[j].ts
<1>1. /\ Len(OrderV1) = n /\ n \in Nat /\ DOMAIN RecordsV1 = 1..n /\ Len(RecordsV1) = n
      /\ \A k, j \in 1..n : Pairs(k, j) => RecordsV1[k] = Marked(j, last /\ k = n)
  BY FoundV1
<1>2. /\ \A x : x \in DOMAIN headers <=> \E j \in 1..n : x = sent[j].ts
  BY DEF HeldV1
<1>3. /\ \A k \in 1..n : OrderV1[k] \in DOMAIN headers
      /\ \A x \in DOMAIN headers : \E k \in 1..n : OrderV1[k] = x
  <2>1. OrderV1 \in SetToSeqs(DOMAIN headers) /\ IsFiniteSet(DOMAIN headers)
    BY OrderV1Orders, TimesV1 DEF Orders
  <2> QED
    BY <1>1, <2>1, SeqsOf
<1>4. \A k \in 1..n : \E j \in 1..n : Pairs(k, j)
  BY <1>2, <1>3
<1>5. \A j \in 1..n : \E k \in 1..n : Pairs(k, j)
  BY <1>2, <1>3
<1> HIDE DEF Pairs
<1>6. \A k, j \in 1..n : Pairs(k, j) => [RecordsV1[k] EXCEPT !.last = FALSE] = [sent[j] EXCEPT !.last = FALSE]
  <2> SUFFICES ASSUME NEW k \in 1..n, NEW j \in 1..n, Pairs(k, j)
               PROVE  [RecordsV1[k] EXCEPT !.last = FALSE] = [sent[j] EXCEPT !.last = FALSE]
    OBVIOUS
  <2>1. RecordsV1[k] = Marked(j, last /\ k = n)
    BY <1>1
  <2>2. [sent[j] EXCEPT !.last = FALSE] = Unmarked(j)
    BY MarkedIs
  <2>3. \A mark \in BOOLEAN : [Marked(j, mark) EXCEPT !.last = FALSE] = Unmarked(j)
    BY MarkedIs
  <2>4. (last /\ k = n) \in BOOLEAN
    OBVIOUS
  <2> QED
    BY <2>1, <2>2, <2>3, <2>4
<1>7. DOMAIN sent = 1..n
  BY <1>1, SentTypes
<1>8. /\ Range(RecordsV1) = {RecordsV1[k] : k \in 1..n}
      /\ Range(sent) = {sent[j] : j \in 1..n}
  BY <1>1, <1>7 DEF Range
<1> HIDE DEF n
<1>9. {[r EXCEPT !.last = FALSE] : r \in Range(RecordsV1)} = {[RecordsV1[k] EXCEPT !.last = FALSE] : k \in 1..n}
  BY ONLY <1>8
<1>10. {[r EXCEPT !.last = FALSE] : r \in Range(sent)} = {[sent[j] EXCEPT !.last = FALSE] : j \in 1..n}
  BY ONLY <1>8
<1>11. {[RecordsV1[k] EXCEPT !.last = FALSE] : k \in 1..n} = {[sent[j] EXCEPT !.last = FALSE] : j \in 1..n}
  <2> DEFINE f(k) == [RecordsV1[k] EXCEPT !.last = FALSE]
             g(j) == [sent[j] EXCEPT !.last = FALSE]
  <2>1. \A k, j \in 1..n : Pairs(k, j) => f(k) = g(j)
    BY <1>6
  <2> HIDE DEF f, g
  <2>2. \A x : (\E k \in 1..n : x = f(k)) <=> (\E j \in 1..n : x = g(j))
    BY ONLY <1>4, <1>5, <2>1
  <2>3. {f(k) : k \in 1..n} = {g(j) : j \in 1..n}
    BY ONLY <2>2
  <2> QED
    BY <2>2 DEF f, g
<1> QED
  BY <1>1, <1>9, <1>10, <1>11 DEF n

LEMMA V1AsSent ==
  ASSUME Sane, HeldV1, SameDigits
  PROVE  RecordsV1 = sent
<1> DEFINE n == Len(sent)
           S == DOMAIN headers
           s == [k \in 1..n |-> sent[k].ts]
<1>1. S \subseteq Nat /\ IsFiniteSet(S) /\ s \in SetToSeqs(S) /\ Len(s) = n
  BY TimesV1
<1>2. ASSUME NEW i \in 1..n, NEW j \in 1..n, i < j PROVE <<s[i], s[j]>> \in StringPairs
  <2>1. sent[i].ts < sent[j].ts /\ sent[i].ts \in S /\ sent[j].ts \in S
    BY <1>2 DEF HeldV1
  <2>2. StringLess(sent[i].ts, sent[j].ts)
    <3>1. Len(Digits[sent[i].ts]) = Len(Digits[sent[j].ts])
      BY DEF SameDigits
    <3> QED
      BY <1>1, <2>1, <3>1, DigitsOrder
  <2>3. PICK p : p = <<sent[i].ts, sent[j].ts>>
    OBVIOUS
  <2>4. p \in (DOMAIN headers) \X (DOMAIN headers) /\ p[1] = sent[i].ts /\ p[2] = sent[j].ts
    BY <2>1, <2>3
  <2>5. p \in StringPairs
    BY <2>2, <2>4 DEF StringPairs
  <2> QED
    BY <2>3, <2>5
<1>3. Orders(s, S, StringPairs)
  BY <1>1, <1>2 DEF Orders
<1>4. \A x, y \in S : ~(<<x, y>> \in StringPairs /\ <<y, x>> \in StringPairs)
  <2> SUFFICES ASSUME NEW x \in S, NEW y \in S, <<x, y>> \in StringPairs, <<y, x>> \in StringPairs PROVE FALSE
    OBVIOUS
  <2>1. StringLess(x, y) /\ StringLess(y, x)
    BY DEF StringPairs
  <2> QED
    BY <1>1, <2>1, StringOrder
<1>5. Orders(OrderV1, S, StringPairs)
  BY OrderV1Orders
<1> HIDE DEF S, s
<1>6. OrderV1 = s
  BY <1>1, <1>3, <1>4, <1>5, OnlyOrder
<1>7. \A k \in 1..n : OrderV1[k] = sent[k].ts
  BY <1>6 DEF s
<1>8. ASSUME NEW k \in 1..n PROVE RecordsV1[k] = sent[k]
  BY <1>7, FoundV1, MarkedIs
<1>9. RecordsV1 = [k \in 1..n |-> RecordsV1[k]]
  BY FoundV1
<1>10. sent = [k \in 1..n |-> sent[k]]
  BY SentTypes
<1> QED
  BY <1>8, <1>9, <1>10

-----------------------------------------------------------------------------
(* What V2 parses.                                                         *)

KeyPairs == {p \in (DOMAIN headers) \X (DOMAIN headers) : KeyLess(p[1], p[2])}

\* The sorted headers are in the order of the body.
LEMMA OrderV2Is ==
  ASSUME Sane, NEW keys, HeldV2(keys)
  PROVE  Len(OrderV2) = Len(sent) /\ \A k \in 1..Len(sent) : OrderV2[k] = keys[k]
<1> DEFINE S == DOMAIN headers
           R == KeyPairs
           n == Len(sent)
           s == [k \in 1..n |-> keys[k]]
<1>1. n \in Nat
  BY SentTypes
<1>2. \A k \in 1..n : keys[k].idx \in Nat /\ keys[k].delta \in Int
  BY KeyTypes
<1>3. \A x : x \in S <=> \E k \in 1..n : x = keys[k]
  BY DEF HeldV2
<1>4. \A j, k \in 1..n : j < k => KeyLess(keys[j], keys[k])
  BY DEF HeldV2
<1>5. DOMAIN s = 1..n /\ \A k \in 1..n : s[k] = keys[k]
  OBVIOUS
<1>6. s \in Seq(S)
  <2>1. s \in [1..n -> S]
    BY <1>3
  <2>2. [1..n -> S] \subseteq Seq(S)
    BY <1>1, SeqDef
  <2> QED
    BY <2>1, <2>2
<1>7. \A i, j \in 1..n : s[i] = s[j] => i = j
  <2> SUFFICES ASSUME NEW i \in 1..n, NEW j \in 1..n, s[i] = s[j], i # j PROVE FALSE
    OBVIOUS
  <2>1. keys[i] = keys[j] /\ (i < j \/ j < i)
    BY <1>1, <1>5
  <2>2. KeyLess(keys[i], keys[i])
    BY <1>4, <2>1
  <2> QED
    BY <1>2, <2>2, KeyOrder
<1>8. \A x \in S : \E k \in 1..n : s[k] = x
  BY <1>3, <1>5
<1>9. \A x \in S : x.idx \in Nat /\ x.delta \in Int
  BY <1>2, <1>3
<1>10. \A x, y \in S : <<x, y>> \in R <=> KeyLess(x, y)
  <2> SUFFICES ASSUME NEW x \in S, NEW y \in S PROVE <<x, y>> \in R <=> KeyLess(x, y)
    OBVIOUS
  <2>1. \A p : p \in KeyPairs <=> p \in (DOMAIN headers) \X (DOMAIN headers) /\ KeyLess(p[1], p[2])
    BY Zenon DEF KeyPairs
  <2>2. PICK p : p = <<x, y>>
    OBVIOUS
  <2>3. p \in (DOMAIN headers) \X (DOMAIN headers)
    BY <2>2
  <2>4. p[1] = x /\ p[2] = y
    BY <2>2
  <2>5. p \in KeyPairs <=> KeyLess(x, y)
    BY ONLY <2>1, <2>3, <2>4
  <2> QED
    BY ONLY <2>2, <2>5 DEF R
<1>11. OrderV2 = CHOOSE u \in SetToSeqs(S) : \A i, j \in 1..Len(u) : i < j => KeyLess(u[i], u[j])
  BY DEF OrderV2, InOrder
<1> HIDE DEF s, n, S, R
<1>12. IsFiniteSet(S) /\ Cardinality(S) = n /\ s \in SetToSeqs(S) /\ Len(s) = n
  BY <1>1, <1>5, <1>6, <1>7, <1>8, Numbered
<1>13. \A u \in SetToSeqs(S) : Orders(u, S, R) <=> \A i, j \in 1..Len(u) : i < j => KeyLess(u[i], u[j])
  <2> SUFFICES ASSUME NEW u \in SetToSeqs(S)
               PROVE  Orders(u, S, R) <=> \A i, j \in 1..Len(u) : i < j => KeyLess(u[i], u[j])
    OBVIOUS
  <2>1. \A k \in 1..Len(u) : u[k] \in S
    BY <1>12, SeqsOf
  <2> QED
    BY <1>10, <2>1 DEF Orders
<1>14. \A i, j \in 1..Len(s) : i < j => KeyLess(s[i], s[j])
  BY <1>4, <1>5, <1>12
<1>15. Orders(s, S, R)
  BY <1>12, <1>13, <1>14
<1>16. OrderV2 \in SetToSeqs(S) /\ \A i, j \in 1..Len(OrderV2) : i < j => KeyLess(OrderV2[i], OrderV2[j])
  BY <1>11, <1>12, <1>14
<1>17. Orders(OrderV2, S, R)
  BY <1>13, <1>16
<1>18. \A x, y \in S : ~(<<x, y>> \in R /\ <<y, x>> \in R)
  BY <1>9, <1>10, KeyOrder
<1>19. OrderV2 = s
  BY <1>12, <1>15, <1>17, <1>18, OnlyOrder
<1> QED
  BY <1>5, <1>12, <1>19 DEF n

\* What the parser remembers of a record.
HeaderOf(j) == [size |-> sent[j].size, type |-> sent[j].type, labels |-> sent[j].labels]

\* The records of an entry among the first k, and what it remembers of the last.
OfEntry(i, k) == {j \in 1..k : sent[j].entry = names[i]}

Remembered(i, k) == IF OfEntry(i, k) = {} THEN NoHeader ELSE HeaderOf(Max(OfEntry(i, k)))

LEMMA OfEntryMax ==
  ASSUME NEW i, NEW k \in Nat, OfEntry(i, k) # {}
  PROVE  Max(OfEntry(i, k)) \in OfEntry(i, k) /\ \A j \in OfEntry(i, k) : j <= Max(OfEntry(i, k))
<1>1. OfEntry(i, k) \subseteq Nat /\ \A j \in OfEntry(i, k) : j <= k
  BY DEF OfEntry
<1> QED
  BY <1>1, GreatestNumber

\* A header is one, and not the absence of one.
LEMMA HeaderOfIs ==
  ASSUME Sane, NEW j \in 1..Len(sent)
  PROVE  HeaderOf(j) # NoHeader
<1>1. sent[j].size \in Sizes /\ sent[j].type \in ContentTypes /\ sent[j].labels \in LabelMaps
  BY SentTypes
<1>2. HeaderOf(j) \in [size : Sizes, type : ContentTypes, labels : LabelMaps]
  BY <1>1 DEF HeaderOf
<1> QED
  BY <1>2, BatchResponseAssumption

\* A header parsed after the records before it is what was sent.
LEMMA HeaderParsed ==
  ASSUME Sane, NEW keys, HeldV2(keys), NEW k \in 1..Len(sent)
  PROVE  ParseRecordHeader(headers[keys[k]], Remembered(keys[k].idx, k - 1)) = HeaderOf(k)
<1> DEFINE i == keys[k].idx
           previous == Remembered(i, k - 1)
           value == Described(k)
<1>1. names[i] = sent[k].entry /\ headers[keys[k]] = value
  BY KeyTypes
<1>2. OfEntry(i, k - 1) = Earlier(k)
  BY <1>1 DEF OfEntry, Earlier
<1>3. Len(sent) \in Nat /\ sent[k].type \in ContentTypes /\ sent[k].labels \in LabelMaps
  BY SentTypes
<1>4. sent[k].type # NoType /\ DefaultType \in ContentTypes
  BY <1>3, BatchResponseAssumption
<1>5. /\ value.size = sent[k].size
      /\ value.type = IF sent[k].type = Base(k).type THEN NoType ELSE sent[k].type
      /\ value.delta = Delta(sent[k].labels, Base(k).labels)
  BY DEF Described
<1> DEFINE type == IF previous = NoHeader THEN DefaultType ELSE previous.type
           labels == IF previous = NoHeader THEN <<>> ELSE previous.labels
<1>6. type = Base(k).type /\ labels = Base(k).labels /\ Base(k).labels \in LabelMaps
  <2>1. CASE Earlier(k) = {}
    <3>1. previous = NoHeader
      BY <1>2, <2>1 DEF Remembered
    <3>2. Base(k).type = DefaultType /\ Base(k).labels = <<>>
      BY <2>1 DEF Base
    <3> QED
      BY <3>1, <3>2, NoLabels
  <2>2. CASE Earlier(k) # {}
    <3> DEFINE m == Max(Earlier(k))
    <3>1. k - 1 \in Nat
      BY <1>3
    <3>2. m \in Earlier(k)
      BY <1>2, <2>2, <3>1, OfEntryMax
    <3>3. m \in 1..Len(sent)
      BY <1>3, <3>2 DEF Earlier
    <3>4. previous = HeaderOf(m)
      BY <1>2, <2>2 DEF Remembered
    <3>5. Base(k).type = sent[m].type /\ Base(k).labels = sent[m].labels
      BY <2>2 DEF Base
    <3> HIDE DEF m, previous
    <3>6. previous # NoHeader
      BY <3>3, <3>4, HeaderOfIs
    <3>7. previous.type = sent[m].type /\ previous.labels = sent[m].labels
      BY <3>4 DEF HeaderOf
    <3>8. sent[m].labels \in LabelMaps
      BY <3>3, SentTypes
    <3> QED
      BY <3>5, <3>6, <3>7, <3>8
  <2> QED
    BY <2>1, <2>2
<1>7. ApplyLabelDelta(value.delta, labels) = sent[k].labels
  BY <1>3, <1>5, <1>6, LabelsBack
<1>8. (IF value.type # NoType THEN value.type ELSE type) = sent[k].type
  BY <1>4, <1>5, <1>6
<1>9. ParseRecordHeader(value, previous)
        = [size   |-> value.size, type |-> IF value.type # NoType THEN value.type ELSE type,
           labels |-> ApplyLabelDelta(value.delta, labels)]
  <2> HIDE DEF value, previous
  <2> QED
    BY DEF ParseRecordHeader
<1> HIDE DEF type, labels, value
<1> QED
  BY <1>1, <1>5, <1>7, <1>8, <1>9 DEF HeaderOf

\* After k turns: the last header of each entry, and the records so far.
After(k) ==
  [previous |-> [i \in 1..Entries |-> Remembered(i, k)], out |-> [j \in 1..k |-> Unmarked(j)]]

LEMMA OneTurn ==
  ASSUME Sane, NEW keys, HeldV2(keys), NEW k \in 1..Len(sent)
  PROVE  ParseNext(After(k - 1), keys[k]) = After(k)
<1> DEFINE i == keys[k].idx
           acc == After(k - 1)
           header == HeaderOf(k)
<1>1. /\ i \in 1..Entries /\ names[i] = sent[k].entry /\ start + keys[k].delta = sent[k].ts
      /\ k \in Nat /\ k - 1 \in Nat
  <2>1. k \in Nat /\ k - 1 \in Nat
    BY SentTypes
  <2> QED
    BY <2>1, KeyTypes
<1>2. acc.previous = [e \in 1..Entries |-> Remembered(e, k - 1)] /\ acc.out = [j \in 1..(k - 1) |-> Unmarked(j)]
  BY DEF After
<1>3. acc.previous[i] = Remembered(i, k - 1)
  BY <1>1, <1>2
<1>4. ParseRecordHeader(headers[keys[k]], acc.previous[i]) = header
  BY <1>3, HeaderParsed
<1> HIDE DEF acc
<1>5. ParseNext(acc, keys[k]) =
        [previous |-> [acc.previous EXCEPT ![i] = header],
         out |-> Append(acc.out, [entry |-> names[i], ts |-> start + keys[k].delta, size |-> header.size,
                                  type |-> header.type, labels |-> header.labels, last |-> FALSE])]
  <2> HIDE DEF header
  <2> QED
    BY <1>4 DEF ParseNext
<1>6. header.size = sent[k].size /\ header.type = sent[k].type /\ header.labels = sent[k].labels
  BY DEF HeaderOf
<1>7. [entry |-> names[i], ts |-> start + keys[k].delta, size |-> header.size,
       type |-> header.type, labels |-> header.labels, last |-> FALSE] = Unmarked(k)
  <2> HIDE DEF header, i
  <2> QED
    BY <1>1, <1>6 DEF Unmarked
<1>8. Append(acc.out, Unmarked(k)) = [j \in 1..k |-> Unmarked(j)]
  <2> DEFINE f(j) == Unmarked(j)
             s == [j \in 1..(k - 1) |-> f(j)]
             t == [j \in 1..k |-> f(j)]
  <2> HIDE DEF f
  <2>1. s \in Seq({f(j) : j \in 1..k}) /\ Len(s) = k - 1
    <3>1. s \in [1..(k - 1) -> {f(j) : j \in 1..k}]
      BY <1>1
    <3> QED
      BY <1>1, <3>1, SeqDef
  <2>2. Append(s, f(k)) = t
    BY <1>1, <2>1
  <2> QED
    BY <1>2, <2>2 DEF f
<1>9. [acc.previous EXCEPT ![i] = header] = [e \in 1..Entries |-> Remembered(e, k)]
  <2>1. ASSUME NEW e \in 1..Entries PROVE Remembered(e, k) = IF e = i THEN header ELSE Remembered(e, k - 1)
    <3>1. CASE e = i
      <4>1. k \in OfEntry(e, k)
        BY <1>1, <3>1 DEF OfEntry
      <4>2. Max(OfEntry(e, k)) \in OfEntry(e, k) /\ \A j \in OfEntry(e, k) : j <= Max(OfEntry(e, k))
        BY <1>1, <4>1, OfEntryMax
      <4>3. Max(OfEntry(e, k)) \in 1..k
        BY <4>2 DEF OfEntry
      <4>4. Max(OfEntry(e, k)) = k
        BY <1>1, <4>1, <4>2, <4>3
      <4> QED
        BY <3>1, <4>1, <4>4 DEF Remembered
    <3>2. CASE e # i
      <4>1. names[e] # names[i]
        BY <1>1, <3>2 DEF Sane, IsInjective
      <4>2. OfEntry(e, k) = OfEntry(e, k - 1)
        <5>1. 1..k = 1..(k - 1) \cup {k}
          BY <1>1
        <5> QED
          BY <1>1, <4>1, <5>1 DEF OfEntry
      <4> QED
        BY <3>2, <4>2 DEF Remembered
    <3> QED
      BY <3>1, <3>2
  <2> HIDE DEF header, i
  <2> DEFINE f(e) == Remembered(e, k - 1)
             g(e) == Remembered(e, k)
  <2>2. acc.previous = [e \in 1..Entries |-> f(e)] /\ \A e \in 1..Entries : g(e) = IF e = i THEN header ELSE f(e)
    BY <1>2, <2>1
  <2> HIDE DEF f, g
  <2>3. [acc.previous EXCEPT ![i] = header] = [e \in 1..Entries |-> IF e = i THEN header ELSE f(e)]
    BY ONLY <2>2
  <2>4. [e \in 1..Entries |-> IF e = i THEN header ELSE f(e)] = [e \in 1..Entries |-> g(e)]
    BY ONLY <2>2
  <2> QED
    BY <2>3, <2>4 DEF g
<1> HIDE DEF header
<1> QED
  BY <1>5, <1>7, <1>8, <1>9 DEF After, acc

LEMMA NoTurn == After(0) = Before
<1>1. \A i : Remembered(i, 0) = NoHeader
  BY DEF Remembered, OfEntry
<1>2. [j \in 1..0 |-> Unmarked(j)] = <<>>
  OBVIOUS
<1> QED
  BY <1>1, <1>2 DEF After, Before

LEMMA TurnsGo ==
  ASSUME Sane, NEW keys, HeldV2(keys), NEW k \in 0..Len(sent)
  PROVE  Turns[k] = After(k)
<1> DEFINE n == Len(sent)
           h(g) == [j \in 0..n |-> IF j = 0 THEN Before ELSE ParseNext(g[j - 1], OrderV2[j])]
           w == [j \in 0..n |-> After(j)]
<1>1. n \in Nat /\ Len(OrderV2) = n /\ \A j \in 1..n : OrderV2[j] = keys[j]
  BY SentTypes, OrderV2Is
<1>2. Turns = CHOOSE g : g = h(g)
  BY <1>1 DEF Turns
<1>3. \A j \in 0..n : w[j] = After(j)
  OBVIOUS
<1>4. w = h(w)
  <2>1. ASSUME NEW j \in 0..n PROVE After(j) = IF j = 0 THEN Before ELSE ParseNext(w[j - 1], OrderV2[j])
    <3>1. CASE j = 0
      BY <3>1, NoTurn
    <3>2. CASE j # 0
      <4>1. j \in 1..n /\ j - 1 \in 0..n
        BY <1>1, <3>2
      <4>2. w[j - 1] = After(j - 1) /\ OrderV2[j] = keys[j]
        BY <1>1, <1>3, <4>1
      <4>3. ParseNext(After(j - 1), keys[j]) = After(j)
        BY <4>1, OneTurn
      <4> HIDE DEF w
      <4> QED
        BY <3>2, <4>2, <4>3
    <3> QED
      BY <3>1, <3>2
  <2>2. h(w) = [j \in 0..n |-> After(j)]
    BY <2>1
  <2> QED
    BY <2>2
<1>5. Turns = h(Turns)
  <2> HIDE DEF h, w
  <2> QED
    BY <1>2, <1>4
<1>6. \A j \in 0..n : Turns[j] = IF j = 0 THEN Before ELSE ParseNext(Turns[j - 1], OrderV2[j])
  BY <1>5
<1> DEFINE S == {j \in Nat : j <= n => Turns[j] = After(j)}
<1>7. ASSUME NEW j \in Nat, \A m \in Nat : m < j => m \in S PROVE j \in S
  <2> SUFFICES ASSUME j <= n PROVE Turns[j] = After(j)
    OBVIOUS
  <2>1. CASE j = 0
    BY <1>1, <1>6, <2>1, NoTurn
  <2>2. CASE j # 0
    <3>1. j \in 1..n /\ j - 1 \in Nat /\ j - 1 < j /\ j \in 0..n
      BY <1>1, <2>2
    <3>2. Turns[j - 1] = After(j - 1)
      BY <1>1, <1>7, <3>1
    <3>3. Turns[j] = ParseNext(Turns[j - 1], OrderV2[j])
      BY <1>6, <2>2, <3>1
    <3>4. ParseNext(After(j - 1), keys[j]) = After(j)
      BY <3>1, OneTurn
    <3> QED
      BY <1>1, <3>1, <3>2, <3>3, <3>4
  <2> QED
    BY <2>1, <2>2
<1> HIDE DEF S
<1>8. Nat \subseteq S
  BY <1>7, Induction
<1> QED
  BY <1>1, <1>8 DEF S

LEMMA V2AsSent ==
  ASSUME Sane, NEW keys, HeldV2(keys)
  PROVE  RecordsV2 = sent
<1> DEFINE n == Len(sent)
<1>1. n \in Nat /\ Len(OrderV2) = n /\ sent = [k \in 1..n |-> sent[k]]
  BY SentTypes, OrderV2Is
<1>2. Turns[Len(OrderV2)].out = [j \in 1..n |-> Unmarked(j)]
  <2>1. Turns[n] = After(n)
    BY <1>1, TurnsGo
  <2>2. After(n).out = [j \in 1..n |-> Unmarked(j)]
    BY DEF After
  <2> QED
    BY <1>1, <2>1, <2>2
<1> DEFINE out == [j \in 1..n |-> Unmarked(j)]
<1>3. Len(out) = n
  BY <1>1
<1>4. RecordsV2 = [k \in 1..n |-> [out[k] EXCEPT !.last = last /\ k = n]]
  BY <1>2, <1>3 DEF RecordsV2
<1>5. ASSUME NEW k \in 1..n PROVE [out[k] EXCEPT !.last = last /\ k = n] = sent[k]
  <2>1. out[k] = Unmarked(k)
    OBVIOUS
  <2>2. sent[k] = Marked(k, last /\ k = n)
    BY MarkedIs
  <2>3. (last /\ k = n) \in BOOLEAN
    OBVIOUS
  <2>4. \A mark \in BOOLEAN : [Unmarked(k) EXCEPT !.last = mark] = Marked(k, mark)
    BY DEF Marked, Unmarked
  <2> HIDE DEF out
  <2> QED
    BY <2>1, <2>2, <2>3, <2>4
<1> QED
  BY <1>1, <1>4, <1>5

-----------------------------------------------------------------------------
(* The theorems.                                                           *)

\* The parser of either protocol returns the records as the server sent them, in
\* the order of their data in the body (batch_v1.cc 129-188, batch_v2.cc
\* 275-351), V1 as long as the times have as many digits.
THEOREM ParsedAsSentCorrect == ResponseSpec => []ParsedAsSent
<1>1. ResponseInv => ParsedAsSent
  <2> SUFFICES ASSUME ResponseInv, stage = "parsed", proto = 1 => SameDigits PROVE parsed = sent
    BY DEF ParsedAsSent
  <2>1. Sane /\ proto \in {1, 2}
    BY DEF ResponseInv, Sane
  <2>2. CASE proto = 1
    BY <2>1, <2>2, V1AsSent DEF ResponseInv, Held
  <2>3. CASE proto = 2
    <3>1. PICK keys : HeldV2(keys)
      BY <2>3 DEF ResponseInv, Held
    <3> QED
      BY <2>1, <2>3, <3>1, V2AsSent DEF ResponseInv
  <2> QED
    BY <2>1, <2>2, <2>3
<1> QED
  BY <1>1, ResponseInvHolds, PTL

\* Every record sent is parsed once, whatever the times: V1 may give it the data
\* of another, but it loses none and makes none up (batch_v1.cc 125-140).
THEOREM NoneMissingCorrect == ResponseSpec => []NoneMissing
<1>1. ResponseInv => NoneMissing
  <2> SUFFICES ASSUME ResponseInv, stage = "parsed"
               PROVE  /\ Len(parsed) = Len(sent)
                      /\ {[r EXCEPT !.last = FALSE] : r \in Range(parsed)}
                           = {[r EXCEPT !.last = FALSE] : r \in Range(sent)}
    BY DEF NoneMissing
  <2>1. Sane /\ proto \in {1, 2}
    BY DEF ResponseInv, Sane
  <2>2. CASE proto = 1
    <3>1. parsed = RecordsV1 /\ HeldV1
      BY <2>2 DEF ResponseInv, Held
    <3> QED
      BY <2>1, <3>1, V1Complete
  <2>3. CASE proto = 2
    <3>1. PICK keys : HeldV2(keys)
      BY <2>3 DEF ResponseInv, Held
    <3>2. parsed = sent
      BY <2>1, <2>3, <3>1, V2AsSent DEF ResponseInv
    <3> QED
      BY <3>2
  <2> QED
    BY <2>1, <2>2, <2>3
<1> QED
  BY <1>1, ResponseInvHolds, PTL
=============================================================================
