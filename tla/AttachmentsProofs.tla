-------------------------- MODULE AttachmentsProofs --------------------------
(***************************************************************************)
(* Attachments, for every number of keys, calls and calls in progress.     *)
(*                                                                         *)
(* The argument: a record once stored keeps its key and its payload,       *)
(* whatever is removed (RequestOK, Grows), and an attachment of a write is *)
(* in its request, or stored, or has left an error behind (WriteOK).       *)
(*                                                                         *)
(* What a read returns needs three more layers, each of which keeps itself *)
(* on top of the ones before it.  Placed: a record bears the time its      *)
(* write has given it, and what has removed it is a removal that may have  *)
(* seen it.  Erased: what was done before a removal began is settled then, *)
(* so the removal has it in its query, its marks or its batch until it is  *)
(* removed.  ReadsOK: of what a read has been given and of what was done   *)
(* before the read began, the record given last decides for its key.       *)
(* ReadsReturn draws the property from the three.  The steps are used      *)
(* through Step, which says what each does, call by call.                  *)
(***************************************************************************)
EXTENDS Attachments, TLAPS, FiniteSetTheorems, WellFoundedInduction

-----------------------------------------------------------------------------
(* The inductive invariant.                                                *)

\* Somebody has written a record without a key.
Alien(s) == 1 \in DOMAIN s /\ s[1].key = NoKey

StoreOK(s, cs) ==
  \A t \in DOMAIN s :
    /\ t \in Nat
    /\ s[t] \in [key : Key \cup {NoKey}, val : 0..Len(cs), removed : BOOLEAN]
    /\ s[t].key = NoKey => t = 1
    /\ s[t].val = Foreign => s[t].key = NoKey
    /\ s[t].val # Foreign => cs[s[t].val].state # "refused"

\* Only what is stored is marked, and bytes that are not an attachment's come up
\* only if some record has no key.
QueryOK(q, s) ==
  /\ q.marked \subseteq DOMAIN s
  /\ DOMAIN q.map \subseteq Key
  /\ q.left = TRUE \/ Foreign \in Range(q.map) => Alien(s)

CallOK(c, s) ==
  /\ c.kind \in {"write", "read", "remove"}
  /\ c.keys \subseteq Key
  /\ c.state \in {"request", "reading", "selecting", "ok", "error", "refused"}
  /\ c.end # 0 <=> c.state \in {"ok", "error", "refused"}
  /\ c.state = "reading" => c.kind = "read"
  /\ c.state = "selecting" => c.kind = "remove"
  /\ QueryOK(c.query, s)

CallsOK(cs, s) ==
  /\ cs \in Seq(Range(cs))
  /\ \A i \in 1..Len(cs) : CallOK(cs[i], s)

\* A write adds a record of its own, a removal keeps what it is about.
RequestOK(i, c, r, s) ==
  /\ c.kind \in {"write", "remove"}
  /\ c.state # "refused"
  /\ r.errors \in BOOLEAN
  /\ \A t \in DOMAIN r.batch :
       /\ t \in Nat
       /\ c.kind = "write" => r.batch[t] \in [key : Key, val : {i}, removed : BOOLEAN]
       /\ c.kind = "remove" =>
            /\ t \in DOMAIN s
            /\ r.batch[t] \in [key : {s[t].key}, val : {s[t].val}, removed : BOOLEAN]

RequestsOK(rs, cs, s) ==
  /\ DOMAIN rs \subseteq 1..Len(cs)
  /\ \A i \in DOMAIN rs : RequestOK(i, cs[i], rs[i], s)
  /\ \A i \in 1..Len(cs) : cs[i].state = "request" => i \in DOMAIN rs

\* Attachment k of call i is stored; it is still to be.
Stored(i, k, s) == \E t \in DOMAIN s : s[t].key = k /\ s[t].val = i
Waiting(k, r) == \E t \in DOMAIN r.batch : r.batch[t].key = k

WriteOK(i, c, r, s) ==
  c.kind = "write" =>
    \A k \in c.keys :
      /\ c.state = "ok" => Stored(i, k, s)
      /\ c.state = "request" => r.errors = TRUE \/ Waiting(k, r) \/ Stored(i, k, s)

IInv ==
  /\ clock \in 2..MaxTime
  /\ StoreOK(store, calls)
  /\ CallsOK(calls, store)
  /\ RequestsOK(requests, calls, store)
  /\ \A i \in 1..Len(calls) : WriteOK(i, calls[i], requests[i], store)

-----------------------------------------------------------------------------
(* Sequences, functions and numbers.                                       *)

LEMMA Narrower ==
  ASSUME NEW S, NEW T, NEW s \in Seq(T), \A i \in 1..Len(s) : s[i] \in S
  PROVE  s \in Seq(S)
OBVIOUS

Longer(s, c, n) ==
  /\ n \in Seq(Range(n))
  /\ Len(s) \in Nat
  /\ Len(n) = Len(s) + 1
  /\ n[Len(s) + 1] = c
  /\ \A i \in 1..Len(s) : n[i] = s[i]

LEMMA Appended ==
  ASSUME NEW s, s \in Seq(Range(s)), NEW c, NEW n, n = Append(s, c)
  PROVE  Longer(s, c, n)
<1>1. s \in Seq(Range(s) \cup {c}) /\ n \in Seq(Range(s) \cup {c})
  OBVIOUS
<1>2. Len(s) \in Nat /\ Len(n) = Len(s) + 1 /\ n[Len(s) + 1] = c /\ \A i \in 1..Len(s) : n[i] = s[i]
  OBVIOUS
<1>3. DOMAIN n = 1..Len(n) /\ \A i \in 1..Len(n) : n[i] \in Range(n)
  BY <1>1 DEF Range
<1>4. n \in Seq(Range(n))
  BY <1>1, <1>3, Narrower
<1> QED
  BY <1>2, <1>4 DEF Longer

Changed(s, i, c, n) ==
  /\ n \in Seq(Range(n))
  /\ Len(n) = Len(s)
  /\ n[i] = c
  /\ \A j \in 1..Len(s) : j # i => n[j] = s[j]

LEMMA Replaced ==
  ASSUME NEW s, s \in Seq(Range(s)), NEW c, NEW i \in 1..Len(s), NEW n, n = [s EXCEPT ![i] = c]
  PROVE  Changed(s, i, c, n)
<1>1. n \in Seq(Range(s) \cup {c}) /\ Len(n) = Len(s)
  OBVIOUS
<1>2. n[i] = c /\ \A j \in 1..Len(s) : j # i => n[j] = s[j]
  OBVIOUS
<1>3. DOMAIN n = 1..Len(n) /\ \A j \in 1..Len(n) : n[j] \in Range(n)
  BY <1>1 DEF Range
<1>4. n \in Seq(Range(n))
  BY <1>1, <1>3, Narrower
<1> QED
  BY <1>1, <1>2, <1>4 DEF Changed

LEMMA LeastNumber ==
  ASSUME NEW T, T \subseteq Nat, T # {}
  PROVE  Min(T) \in T /\ \A t \in T : Min(T) <= t
<1>1. \A x, y \in Nat : x < y => <<x, y>> \in OpToRel(<, Nat)
  BY DEF OpToRel
<1>2. \E R : /\ IsWellFoundedOn(R, Nat)
             /\ \A x, y \in Nat : x < y => <<x, y>> \in R
  BY <1>1, NatLessThanWellFounded, Zenon
<1>3. PICK R : /\ IsWellFoundedOn(R, Nat)
               /\ \A x, y \in Nat : x < y => <<x, y>> \in R
  BY <1>2
<1>4. IsWellFoundedOn(R, Nat)
  BY <1>3
<1>5. \E x \in T : \A y \in T : ~(<<y, x>> \in R)
  BY ONLY <1>4, T \subseteq Nat, T # {}, WFMin, Zenon
<1>6. PICK m \in T : \A n \in T : <<n, m>> \notin R
  BY <1>5
<1>7. \A n \in T : n \in Nat /\ m \in Nat /\ ~(n < m)
  BY <1>3, <1>6, Zenon
<1>8. \A n \in T : m <= n
  BY <1>7
<1> QED
  BY <1>8 DEF Min

LEMMA GreatestNumber ==
  ASSUME NEW T, T \subseteq Nat, T # {}, NEW b \in Nat, \A t \in T : t <= b
  PROVE  Max(T) \in T /\ \A t \in T : t <= Max(T)
<1> DEFINE U == {u \in Nat : \A t \in T : t <= u}
           m == Min(U)
<1>1. U \subseteq Nat /\ U # {}
  OBVIOUS
<1>2. m \in U /\ \A u \in U : m <= u
  BY <1>1, LeastNumber
<1>3. m \in Nat /\ (\A t \in T : t <= m) /\ \A u \in Nat : (\A t \in T : t <= u) => m <= u
  BY <1>2
<1> HIDE DEF U, m
<1>4. m \in T
  <2> SUFFICES ASSUME m \notin T PROVE FALSE
    OBVIOUS
  <2>1. ASSUME NEW t \in T PROVE t \in Nat /\ t < m
    <3>1. t \in Nat /\ t # m /\ t <= m /\ m \in Nat
      BY <1>3
    <3> QED
      BY <3>1
  <2>2. m \in Nat /\ m # 0
    <3>1. PICK t \in T : TRUE
      OBVIOUS
    <3>2. t \in Nat /\ t < m /\ m \in Nat
      BY <1>3, <2>1
    <3> QED
      BY <3>2
  <2>3. m - 1 \in Nat /\ \A t \in T : t <= m - 1
    BY <2>1, <2>2
  <2> QED
    BY <1>3, <2>3
<1>5. \E x \in T : \A t \in T : x >= t
  BY <1>3, <1>4
<1>6. Max(T) \in T /\ \A t \in T : Max(T) >= t
  BY <1>5, Zenon DEF Max
<1> QED
  BY <1>6

\* The keys of a write get times of their own.
LEMMA StampRises ==
  ASSUME NEW keys \in SUBSET Key, NEW k \in keys, NEW l \in keys, k < l, NEW time \in Nat
  PROVE  Stamp(time, keys, k) < Stamp(time, keys, l)
<1> DEFINE A == {x \in keys : x < k}
           B == {x \in keys : x < l}
<1>1. IsFiniteSet(Key)
  BY FS_Interval, AttachmentsAssumption DEF Key
<1>2. IsFiniteSet(A) /\ IsFiniteSet(B)
  BY <1>1, FS_Subset
<1>3. A \cup {k} \in SUBSET B /\ k \notin A
  <2>1. \A x \in keys : x \in Int
    BY AttachmentsAssumption DEF Key
  <2>2. k \in Int /\ l \in Int /\ \A x \in A : x \in keys /\ x < l
    BY <2>1
  <2>3. A \subseteq B
    BY <2>2
  <2>4. k \in B /\ k \notin A
    BY <2>2
  <2> QED
    BY <2>3, <2>4, Zenon
<1> HIDE DEF A, B
<1>4. Cardinality(A \cup {k}) = Cardinality(A) + 1
  BY <1>2, <1>3, FS_AddElement
<1>5. Cardinality(A \cup {k}) <= Cardinality(B)
  BY <1>2, <1>3, FS_Subset
<1>6. Cardinality(A) \in Nat /\ Cardinality(B) \in Nat
  BY <1>2, FS_CardinalityType
<1> QED
  BY <1>4, <1>5, <1>6 DEF Stamp, A, B

LEMMA StampInNat ==
  ASSUME NEW keys \in SUBSET Key, NEW k \in keys, NEW time \in Nat
  PROVE  Stamp(time, keys, k) \in Nat
<1> DEFINE A == {x \in keys : x < k}
<1>1. IsFiniteSet(A)
  <2>1. IsFiniteSet(Key)
    BY FS_Interval, AttachmentsAssumption DEF Key
  <2>2. A \in SUBSET Key
    OBVIOUS
  <2> QED
    BY <2>1, <2>2, FS_Subset
<1> HIDE DEF A
<1>2. Cardinality(A) \in Nat
  BY <1>1, FS_CardinalityType
<1> QED
  BY <1>2 DEF Stamp, A

\* So a record of the batch is that of one key, and every key has its record.
Batch(b, time, keys, i) ==
  /\ \A t \in DOMAIN b : t \in Nat /\ b[t] \in [key : Key, val : {i}, removed : BOOLEAN]
  /\ \A t \in DOMAIN b : b[t].key \in keys /\ t = Stamp(time, keys, b[t].key) /\ b[t].removed = FALSE
  /\ \A k \in keys : \E t \in DOMAIN b : b[t].key = k

LEMMA BatchOfWrite ==
  ASSUME NEW keys \in SUBSET Key, NEW time \in Nat, NEW i
  PROVE  Batch(WriteBatch(time, keys, i), time, keys, i)
<1> DEFINE b == WriteBatch(time, keys, i)
<1>1. DOMAIN b = {Stamp(time, keys, k) : k \in keys}
  BY DEF WriteBatch
<1>2. ASSUME NEW k \in keys
      PROVE  /\ Stamp(time, keys, k) \in Nat
             /\ b[Stamp(time, keys, k)] = Record(k, i)
  <2> DEFINE t == Stamp(time, keys, k)
             same == {l \in keys : Stamp(time, keys, l) = t}
  <2>1. t \in Nat
    BY StampInNat
  <2>2. ASSUME NEW l \in same PROVE l = k
    <3>1. l \in Nat /\ k \in Nat /\ l \in keys
      BY AttachmentsAssumption DEF Key
    <3>2. ~(l < k) /\ ~(k < l)
      BY <2>1, <2>2, <3>1, StampRises
    <3> QED
      BY <3>1, <3>2
  <2>3. same = {k}
    BY <2>2
  <2>4. Min({k}) = k
    <3>1. k <= k
      BY AttachmentsAssumption DEF Key
    <3> QED
      BY <3>1 DEF Min
  <2>5. b[t] = Record(Min(same), i)
    BY <1>1 DEF WriteBatch
  <2> QED
    BY <2>1, <2>3, <2>4, <2>5
<1>3. \A k \in keys : /\ Record(k, i) \in [key : Key, val : {i}, removed : BOOLEAN]
                       /\ Record(k, i).key = k /\ Record(k, i).removed = FALSE
  BY DEF Record
<1> HIDE DEF b
<1>4. Batch(b, time, keys, i)
  BY <1>1, <1>2, <1>3 DEF Batch
<1> QED
  BY <1>4 DEF b

-----------------------------------------------------------------------------
(* The store.                                                              *)

\* No record loses its key or its payload.
Grows(s, n) ==
  /\ DOMAIN s \subseteq DOMAIN n
  /\ \A t \in DOMAIN s : n[t].key = s[t].key /\ n[t].val = s[t].val

LEMMA GrowsKeeps ==
  ASSUME NEW s, NEW n, Grows(s, n)
  PROVE  /\ \A c : CallOK(c, s) => CallOK(c, n)
         /\ \A i, c, r : RequestOK(i, c, r, s) => RequestOK(i, c, r, n)
         /\ \A i, k : Stored(i, k, s) => Stored(i, k, n)
         /\ \A i, c, r : WriteOK(i, c, r, s) => WriteOK(i, c, r, n)
<1>1. Alien(s) => Alien(n)
  BY DEF Grows, Alien
<1>2. \A q : QueryOK(q, s) => QueryOK(q, n)
  <2> SUFFICES ASSUME NEW q, QueryOK(q, s) PROVE QueryOK(q, n)
    OBVIOUS
  <2>1. q.marked \subseteq DOMAIN n
    BY DEF QueryOK, Grows
  <2> QED
    BY <2>1, <1>1, Zenon DEF QueryOK
<1>3. \A c : CallOK(c, s) => CallOK(c, n)
  BY <1>2, Zenon DEF CallOK
<1>4. \A i, c, r : RequestOK(i, c, r, s) => RequestOK(i, c, r, n)
  <2> SUFFICES ASSUME NEW i, NEW c, NEW r, RequestOK(i, c, r, s) PROVE RequestOK(i, c, r, n)
    OBVIOUS
  <2>1. ASSUME NEW t \in DOMAIN r.batch, c.kind = "remove"
        PROVE  t \in DOMAIN n /\ r.batch[t] \in [key : {n[t].key}, val : {n[t].val}, removed : BOOLEAN]
    BY <2>1 DEF RequestOK, Grows
  <2> QED
    BY <2>1 DEF RequestOK
<1>5. \A i, k : Stored(i, k, s) => Stored(i, k, n)
  BY DEF Stored, Grows
<1>6. \A i, c, r : WriteOK(i, c, r, s) => WriteOK(i, c, r, n)
  BY <1>5, Zenon DEF WriteOK
<1> QED
  BY <1>3, <1>4, <1>5, <1>6

\* The store is as good with more calls, none of which comes to be refused.
LEMMA MoreCalls ==
  ASSUME NEW s, NEW cs, NEW ds, StoreOK(s, cs), Len(cs) \in Nat, Len(ds) \in Nat, Len(cs) <= Len(ds),
         \A i \in 1..Len(cs) : cs[i].state # "refused" => ds[i].state # "refused"
  PROVE  StoreOK(s, ds)
<1> SUFFICES ASSUME NEW t \in DOMAIN s
             PROVE  /\ t \in Nat
                    /\ s[t] \in [key : Key \cup {NoKey}, val : 0..Len(ds), removed : BOOLEAN]
                    /\ s[t].key = NoKey => t = 1
                    /\ s[t].val = Foreign => s[t].key = NoKey
                    /\ s[t].val # Foreign => ds[s[t].val].state # "refused"
  BY DEF StoreOK
<1>1. s[t] \in [key : Key \cup {NoKey}, val : 0..Len(cs), removed : BOOLEAN]
  BY DEF StoreOK
<1>2. s[t].val \in 0..Len(cs) /\ s[t].val \in 0..Len(ds)
  BY <1>1
<1>3. s[t] \in [key : Key \cup {NoKey}, val : 0..Len(ds), removed : BOOLEAN]
  BY <1>1, <1>2
<1>4. s[t].val # Foreign => s[t].val \in 1..Len(cs)
  BY <1>2 DEF Foreign
<1> QED
  BY <1>3, <1>4 DEF StoreOK

-----------------------------------------------------------------------------
(* A call begins.                                                          *)

\* A call that has not sent anything yet, or never will.
LEMMA AppendKeeps ==
  ASSUME IInv, NEW c, CallOK(c, store), c.state \in {"reading", "selecting", "refused"},
         calls' = Append(calls, c), UNCHANGED <<clock, store, requests>>
  PROVE  IInv'
<1> DEFINE n == Len(calls)
<1>1. /\ calls' \in Seq(Range(calls')) /\ n \in Nat /\ Len(calls') = n + 1
      /\ calls'[n + 1] = c /\ \A i \in 1..n : calls'[i] = calls[i]
  <2>1. calls \in Seq(Range(calls)) /\ calls' = Append(calls, c)
    BY DEF IInv, CallsOK
  <2>2. Longer(calls, c, calls')
    BY <2>1, Appended, Zenon
  <2> QED
    BY <2>2 DEF Longer
<1> HIDE DEF n
<1>2. \A i \in 1..n + 1 : i \in 1..n \/ i = n + 1
  BY <1>1
<1>3. StoreOK(store, calls)
  BY DEF IInv
<1>4. StoreOK(store', calls')
  <2>1. /\ Len(calls) \in Nat /\ Len(calls') \in Nat /\ Len(calls) <= Len(calls')
        /\ \A i \in 1..Len(calls) : calls[i].state # "refused" => calls'[i].state # "refused"
    BY <1>1 DEF n
  <2>2. StoreOK(store, calls')
    BY <1>3, <2>1, MoreCalls, Zenon
  <2> QED
    BY <2>2
<1>5. CallsOK(calls', store')
  BY <1>1, <1>2 DEF IInv, CallsOK, n
<1>6. RequestsOK(requests', calls', store')
  <2>1. DOMAIN requests \subseteq 1..n /\ \A i \in DOMAIN requests : RequestOK(i, calls[i], requests[i], store)
    BY DEF IInv, RequestsOK, n
  <2>2. \A i \in 1..n : calls[i].state = "request" => i \in DOMAIN requests
    BY DEF IInv, RequestsOK, n
  <2>3. DOMAIN requests \subseteq 1..Len(calls')
    BY <2>1, <1>1
  <2>4. \A i \in 1..Len(calls') : calls'[i].state = "request" => i \in DOMAIN requests
    BY <2>2, <1>1, <1>2
  <2> QED
    BY <2>1, <2>3, <2>4, <1>1 DEF RequestsOK
<1>7. \A i \in 1..Len(calls') : WriteOK(i, calls'[i], requests'[i], store')
  <2>1. \A i \in 1..n : WriteOK(i, calls[i], requests[i], store)
    BY DEF IInv, n
  <2>2. WriteOK(n + 1, c, requests[n + 1], store)
    BY DEF WriteOK
  <2> QED
    BY <2>1, <2>2, <1>1, <1>2
<1> QED
  BY <1>4, <1>5, <1>6, <1>7 DEF IInv

LEMMA NoQueryOK ==
  ASSUME NEW s, NEW map, DOMAIN map \subseteq Key, Foreign \in Range(map) => Alien(s)
  PROVE  QueryOK(NoQuery(map), s)
BY DEF QueryOK, NoQuery, Query

LEMMA EmptyQueries ==
  ASSUME NEW s
  PROVE  QueryOK(NoQuery(<<>>), s) /\ \A until : QueryOK(Query(0, until, FALSE, <<>>, {}), s)
<1>1. DOMAIN <<>> = {} /\ Range(<<>>) = {}
  BY DEF Range
<1> QED
  BY <1>1 DEF QueryOK, NoQuery, Query

LEMMA WriteInvalidKeeps ==
  ASSUME IInv, WriteInvalid
  PROVE  IInv'
<1> DEFINE c == Call("write", Key, "refused", NoQuery(<<>>), 0, Len(calls) + 1)
<1>1. Len(calls) \in Nat
  BY DEF IInv, CallsOK
<1>2. CallOK(c, store) /\ c.state = "refused"
  <2>1. /\ c.kind = "write" /\ c.keys = Key /\ c.state = "refused"
        /\ c.query = NoQuery(<<>>) /\ c.end = Len(calls) + 1
    BY DEF Call
  <2>2. c.end # 0
    BY <2>1, <1>1
  <2> HIDE DEF c
  <2> QED
    BY <2>1, <2>2, EmptyQueries DEF CallOK
<1> HIDE DEF c
<1>3. calls' = Append(calls, c) /\ UNCHANGED <<clock, store, requests>>
  BY DEF WriteInvalid, c
<1> QED
  BY <1>2, <1>3, AppendKeeps

LEMMA BeginQueryKeeps ==
  ASSUME IInv, ReadAttachments \/ RemoveAttachments
  PROVE  IInv'
<1>1. PICK kind, keys, state :
        /\ \/ kind = "read" /\ state = "reading"
           \/ kind = "remove" /\ state = "selecting"
        /\ keys \subseteq Key
        /\ calls' = Append(calls, Call(kind, keys, state, NewQuery, 0, 0))
        /\ UNCHANGED <<clock, store, requests>>
  <2>1. CASE ReadAttachments
    BY <2>1 DEF ReadAttachments, Begin
  <2>2. CASE RemoveAttachments
    BY <2>2 DEF RemoveAttachments, Begin
  <2> QED
    BY <2>1, <2>2
<1>2. QueryOK(NewQuery, store)
  BY EmptyQueries DEF NewQuery
<1> DEFINE c == Call(kind, keys, state, NewQuery, 0, 0)
<1>3. CallOK(c, store) /\ c.state \in {"reading", "selecting", "refused"}
  BY <1>1, <1>2 DEF CallOK, Call
<1> HIDE DEF c
<1>4. calls' = Append(calls, c)
  BY <1>1 DEF c
<1> QED
  BY <1>1, <1>3, <1>4, AppendKeeps

LEMMA WriteAttachmentsKeeps ==
  ASSUME IInv, WriteAttachments
  PROVE  IInv'
<1>1. PICK keys \in SUBSET Key, now \in clock..MaxTime :
        /\ clock' = now
        /\ calls' = Append(calls, Call("write", keys, "request", NoQuery(<<>>), now, 0))
        /\ requests' = With(requests, Len(calls) + 1, Request(WriteBatch(now, keys, Len(calls) + 1), FALSE))
        /\ store' = store
  BY DEF WriteAttachments, Begin
<1>2. now \in Nat /\ clock' \in 2..MaxTime
  BY <1>1, AttachmentsAssumption DEF IInv
<1> DEFINE n == Len(calls)
           c == Call("write", keys, "request", NoQuery(<<>>), now, 0)
           b == WriteBatch(now, keys, n + 1)
           r == Request(b, FALSE)
<1>3. CallOK(c, store) /\ c.state = "request" /\ c.kind = "write" /\ c.keys = keys
  BY EmptyQueries DEF CallOK, Call
<1>4. Batch(b, now, keys, n + 1)
  BY <1>2, BatchOfWrite
<1> HIDE DEF b
<1>5. r.batch = b /\ r.errors = FALSE
  BY DEF Request
<1> HIDE DEF c, r
<1>6. /\ calls' \in Seq(Range(calls')) /\ n \in Nat /\ Len(calls') = n + 1
      /\ calls'[n + 1] = c /\ \A i \in 1..n : calls'[i] = calls[i]
  <2>1. calls \in Seq(Range(calls)) /\ calls' = Append(calls, c)
    BY <1>1 DEF IInv, CallsOK, c
  <2>2. Longer(calls, c, calls')
    BY <2>1, Appended, Zenon
  <2> QED
    BY <2>2 DEF Longer
<1>7. /\ DOMAIN requests' = DOMAIN requests \cup {n + 1}
      /\ requests'[n + 1] = r
      /\ \A i \in DOMAIN requests : i # n + 1 => requests'[i] = requests[i]
  BY <1>1 DEF With, r, b
<1> HIDE DEF n
<1>8. \A i \in 1..n + 1 : i \in 1..n \/ i = n + 1
  BY <1>6
<1>9. \A i \in 1..n : i # n + 1
  BY <1>6
<1>10. StoreOK(store', calls')
  <2>1. StoreOK(store, calls) /\ store' = store
    BY <1>1 DEF IInv
  <2>2. StoreOK(store, calls')
    BY <2>1, <1>6, MoreCalls DEF n
  <2> QED
    BY <2>1, <2>2
<1>11. CallsOK(calls', store')
  BY <1>1, <1>3, <1>6, <1>8 DEF IInv, CallsOK, n
<1>12. RequestsOK(requests', calls', store')
  <2>1. DOMAIN requests \subseteq 1..n /\ \A i \in DOMAIN requests : RequestOK(i, calls[i], requests[i], store)
    BY DEF IInv, RequestsOK, n
  <2>2. \A i \in 1..n : calls[i].state = "request" => i \in DOMAIN requests
    BY DEF IInv, RequestsOK, n
  <2>3. DOMAIN requests' \subseteq 1..Len(calls')
    BY <2>1, <1>6, <1>7
  <2>4. \A i \in 1..Len(calls') : calls'[i].state = "request" => i \in DOMAIN requests'
    BY <2>2, <1>6, <1>7, <1>8
  <2>5. RequestOK(n + 1, c, r, store)
    BY <1>3, <1>4, <1>5 DEF RequestOK, Batch
  <2>6. ASSUME NEW i \in DOMAIN requests' PROVE RequestOK(i, calls'[i], requests'[i], store')
    <3>1. CASE i = n + 1
      BY <3>1, <2>5, <1>1, <1>6, <1>7
    <3>2. CASE i # n + 1
      BY <3>2, <2>1, <1>1, <1>6, <1>7
    <3> QED
      BY <3>1, <3>2
  <2> QED
    BY <2>3, <2>4, <2>6 DEF RequestsOK
<1>13. \A i \in 1..Len(calls') : WriteOK(i, calls'[i], requests'[i], store')
  <2>1. ASSUME NEW i \in 1..n PROVE WriteOK(i, calls'[i], requests'[i], store')
    <3>1. WriteOK(i, calls[i], requests[i], store) /\ calls'[i] = calls[i] /\ store' = store
      BY <1>1, <1>6 DEF IInv, n
    <3>2. calls[i].state = "request" => requests'[i] = requests[i]
      BY <1>7, <1>9 DEF IInv, RequestsOK, n
    <3> QED
      BY <3>1, <3>2 DEF WriteOK
  <2>2. WriteOK(n + 1, c, r, store)
    BY <1>3, <1>4, <1>5 DEF WriteOK, Waiting, Batch
  <2> QED
    BY <2>1, <2>2, <1>1, <1>6, <1>7, <1>8
<1> QED
  BY <1>2, <1>10, <1>11, <1>12, <1>13 DEF IInv

-----------------------------------------------------------------------------
(* A call goes on or returns.                                              *)

\* The batches stay as they are; that of call i may be done with.
SameBatches(i, rs, ns) ==
  /\ DOMAIN ns \subseteq DOMAIN rs
  /\ \A j \in DOMAIN rs : j # i => j \in DOMAIN ns /\ ns[j] = rs[j]
  /\ i \in DOMAIN ns => ns[i].batch = rs[i].batch /\ ns[i].errors \in BOOLEAN

\* The call has an answer, or has sent nothing yet.
LEMMA ReplaceKeeps ==
  ASSUME IInv, NEW i \in 1..Len(calls), NEW c, CallOK(c, store),
         c.kind = calls[i].kind, c.keys = calls[i].keys,
         c.state \in {"reading", "selecting", "ok", "error"},
         c.kind = "write" /\ c.state = "ok" => \A k \in c.keys : Stored(i, k, store),
         calls' = [calls EXCEPT ![i] = c], UNCHANGED <<clock, store>>,
         SameBatches(i, requests, requests')
  PROVE  IInv'
<1>1. Changed(calls, i, c, calls')
  <2>1. calls \in Seq(Range(calls)) /\ calls' = [calls EXCEPT ![i] = c]
    BY DEF IInv, CallsOK
  <2> QED
    BY <2>1, Replaced, Zenon
<1>2. /\ calls' \in Seq(Range(calls')) /\ Len(calls') = Len(calls)
      /\ calls'[i] = c /\ \A j \in 1..Len(calls) : j # i => calls'[j] = calls[j]
  BY <1>1 DEF Changed
<1>3. Len(calls) \in Nat
  BY DEF IInv, CallsOK
<1>4. StoreOK(store', calls')
  <2>1. /\ Len(calls') \in Nat /\ Len(calls) <= Len(calls')
        /\ \A j \in 1..Len(calls) : calls[j].state # "refused" => calls'[j].state # "refused"
    BY <1>2, <1>3
  <2>2. StoreOK(store, calls)
    BY DEF IInv
  <2>3. StoreOK(store, calls')
    BY <1>3, <2>1, <2>2, MoreCalls, Zenon
  <2> QED
    BY <2>3
<1>5. CallsOK(calls', store')
  BY <1>2 DEF IInv, CallsOK
<1>6. RequestsOK(requests', calls', store')
  <2>1. /\ DOMAIN requests \subseteq 1..Len(calls)
        /\ \A j \in DOMAIN requests : RequestOK(j, calls[j], requests[j], store)
        /\ \A j \in 1..Len(calls) : calls[j].state = "request" => j \in DOMAIN requests
    BY DEF IInv, RequestsOK
  <2>2. DOMAIN requests' \subseteq 1..Len(calls')
    BY <2>1, <1>2 DEF SameBatches
  <2>3. \A j \in 1..Len(calls') : calls'[j].state = "request" => j \in DOMAIN requests'
    BY <2>1, <1>2 DEF SameBatches
  <2>4. ASSUME NEW j \in DOMAIN requests' PROVE RequestOK(j, calls'[j], requests'[j], store')
    <3>1. j \in DOMAIN requests /\ j \in 1..Len(calls)
      BY <2>1, <2>4 DEF SameBatches
    <3>2. RequestOK(j, calls[j], requests[j], store)
      BY <2>1, <3>1
    <3>3. CASE j # i
      <4>1. calls'[j] = calls[j] /\ requests'[j] = requests[j] /\ store' = store
        BY <3>1, <3>3, <1>2 DEF SameBatches
      <4> QED
        BY <3>2, <4>1
    <3>4. CASE j = i
      <4>1. /\ requests'[j].batch = requests[j].batch /\ requests'[j].errors \in BOOLEAN
            /\ calls'[j].kind = calls[j].kind /\ calls'[j].state # "refused" /\ store' = store
        BY <3>4, <2>4, <1>2 DEF SameBatches
      <4> QED
        BY <3>2, <4>1 DEF RequestOK
    <3> QED
      BY <3>3, <3>4
  <2> QED
    BY <2>2, <2>3, <2>4 DEF RequestsOK
<1>7. \A j \in 1..Len(calls') : WriteOK(j, calls'[j], requests'[j], store')
  <2> SUFFICES ASSUME NEW j \in 1..Len(calls) PROVE WriteOK(j, calls'[j], requests'[j], store')
    BY <1>2
  <2>1. CASE j # i
    <3>1. WriteOK(j, calls[j], requests[j], store) /\ calls'[j] = calls[j] /\ store' = store
      BY <2>1, <1>2 DEF IInv
    <3>2. calls[j].state = "request" => requests'[j] = requests[j]
      BY <2>1 DEF IInv, RequestsOK, SameBatches
    <3> QED
      BY <3>1, <3>2 DEF WriteOK
  <2>2. CASE j = i
    <3>1. calls'[j] = c /\ store' = store /\ c.state # "request"
      BY <2>2, <1>2
    <3> QED
      BY <2>2, <3>1 DEF WriteOK
  <2> QED
    BY <2>1, <2>2
<1> QED
  BY <1>4, <1>5, <1>6, <1>7 DEF IInv

LEMMA ReturnKeeps ==
  ASSUME IInv, NEW i \in 1..Len(calls), NEW state \in {"ok", "error"}, NEW map,
         DOMAIN map \subseteq Key, Foreign \in Range(map) => Alien(store),
         calls[i].kind = "write" /\ state = "ok" => \A k \in calls[i].keys : Stored(i, k, store),
         Return(i, state, map), UNCHANGED <<clock, store>>, SameBatches(i, requests, requests')
  PROVE  IInv'
<1> DEFINE c == Call(calls[i].kind, calls[i].keys, state, NoQuery(map), calls[i].time, Len(calls))
<1>1. /\ c.kind = calls[i].kind /\ c.keys = calls[i].keys /\ c.state = state
      /\ c.query = NoQuery(map) /\ c.end = Len(calls)
  BY DEF Call
<1>2. calls' = [calls EXCEPT ![i] = c]
  BY DEF Return
<1> HIDE DEF c
<1>3. QueryOK(NoQuery(map), store)
  BY NoQueryOK
<1>4. Len(calls) # 0 /\ CallOK(calls[i], store)
  BY DEF IInv, CallsOK
<1>5. CallOK(c, store)
  BY <1>1, <1>3, <1>4 DEF CallOK
<1>6. c.kind = "write" /\ c.state = "ok" => \A k \in c.keys : Stored(i, k, store)
  BY <1>1, Zenon
<1>7. c.state \in {"reading", "selecting", "ok", "error"}
  BY <1>1
<1> QED
  BY <1>1, <1>2, <1>5, <1>6, <1>7, ReplaceKeeps

LEMMA AdvanceKeeps ==
  ASSUME IInv, NEW i \in InState("reading") \cup InState("selecting"), NEW query, QueryOK(query, store),
         Advance(i, query), UNCHANGED <<clock, store, requests>>
  PROVE  IInv'
<1> DEFINE c == Call(calls[i].kind, calls[i].keys, calls[i].state, query, calls[i].time, calls[i].end)
<1>1. /\ c.kind = calls[i].kind /\ c.keys = calls[i].keys /\ c.state = calls[i].state
      /\ c.query = query /\ c.end = calls[i].end
  BY DEF Call
<1>2. calls' = [calls EXCEPT ![i] = c]
  BY DEF Advance
<1> HIDE DEF c
<1>3. i \in 1..Len(calls) /\ calls[i].state \in {"reading", "selecting"}
  BY DEF InState
<1>4. CallOK(calls[i], store)
  BY <1>3 DEF IInv, CallsOK
<1>5. CallOK(c, store) /\ c.state \in {"reading", "selecting"}
  BY <1>1, <1>3, <1>4 DEF CallOK
<1>6. SameBatches(i, requests, requests')
  <2>1. i \in DOMAIN requests => requests[i].errors \in BOOLEAN
    BY DEF IInv, RequestsOK, RequestOK
  <2> QED
    BY <2>1 DEF SameBatches
<1> QED
  BY <1>1, <1>2, <1>3, <1>5, <1>6, ReplaceKeeps

-----------------------------------------------------------------------------
(* The steps of a query.                                                   *)

LEMMA SameRequests ==
  ASSUME IInv, UNCHANGED requests
  PROVE  \A i : SameBatches(i, requests, requests')
<1>1. \A i \in DOMAIN requests : requests[i].errors \in BOOLEAN
  BY DEF IInv, RequestsOK, RequestOK
<1> QED
  BY <1>1 DEF SameBatches

LEMMA EmptyMap == DOMAIN <<>> \subseteq Key /\ ~(Foreign \in Range(<<>>))
BY DEF Range

LEMMA QueryFailsKeeps ==
  ASSUME IInv, QueryFails
  PROVE  IInv'
<1>1. PICK i \in InState("reading") \cup InState("selecting") : Return(i, "error", <<>>)
  BY DEF QueryFails
<1>2. UNCHANGED <<clock, store, requests>>
  BY DEF QueryFails
<1>3. i \in 1..Len(calls)
  BY DEF InState
<1> QED
  BY <1>1, <1>2, <1>3, EmptyMap, SameRequests, ReturnKeeps

\* The query gives a record of the store.
LEMMA NextTimeStored ==
  ASSUME IInv, NEW i, More(i), \A t \in DOMAIN store : t \in Nat
  PROVE  NextTime(i) \in DOMAIN store
<1> DEFINE T == {t \in DOMAIN store : t > calls[i].query.cursor}
<1>1. T \subseteq Nat /\ T # {}
  BY DEF More
<1> HIDE DEF T
<1>2. Min(T) \in T
  BY <1>1, LeastNumber
<1> QED
  BY <1>2 DEF NextTime, T

LEMMA Given ==
  ASSUME IInv, NEW i, More(i)
  PROVE  /\ NextTime(i) \in DOMAIN store
         /\ store[NextTime(i)].key \in Key \cup {NoKey}
         /\ store[NextTime(i)].key = NoKey => Alien(store)
         /\ store[NextTime(i)].val = Foreign => store[NextTime(i)].key = NoKey
<1>1. StoreOK(store, calls)
  BY DEF IInv
<1>2. NextTime(i) \in DOMAIN store
  BY <1>1, NextTimeStored DEF StoreOK
<1> QED
  BY <1>1, <1>2 DEF StoreOK, Alien

\* What a record does to the map that ReadAttachments returns.
LEMMA Replayed ==
  ASSUME NEW map, DOMAIN map \subseteq Key, NEW r, r.key \in Key, NEW payload
  PROVE  /\ DOMAIN Replay(map, r, payload) \subseteq Key
         /\ \A v \in Range(Replay(map, r, payload)) : v \in Range(map) \/ v = payload
<1>1. /\ DOMAIN With(map, r.key, payload) \subseteq Key
      /\ \A v \in Range(With(map, r.key, payload)) : v \in Range(map) \/ v = payload
  BY DEF With, Range
<1>2. /\ DOMAIN Without(map, r.key) \subseteq Key
      /\ \A v \in Range(Without(map, r.key)) : v \in Range(map)
  BY DEF Without, Restrict, Range
<1>3. CASE r.removed
  BY <1>2, <1>3 DEF Replay
<1>4. CASE ~r.removed
  BY <1>1, <1>4 DEF Replay
<1> QED
  BY <1>3, <1>4

LEMMA ReadOneKeeps ==
  ASSUME IInv, ReadOne
  PROVE  IInv'
<1>1. UNCHANGED <<clock, store, requests>>
  BY DEF ReadOne
<1>2. PICK i \in InState("reading"), newBatch \in BOOLEAN :
        LET r    == store[NextTime(i)]
            q    == calls[i].query
            left == q.left /\ ~newBatch
        IN  /\ More(i)
            /\ \/ /\ ~HasKey(r)
                  /\ Advance(i, Query(NextTime(i), q.until, TRUE, q.map, {}))
               \/ /\ HasKey(r)
                  /\ \E payload \in Payload(r, left) :
                       \/ Return(i, "error", <<>>)
                       \/ Advance(i, Query(NextTime(i), q.until, left, Replay(q.map, r, payload), {}))
  BY ZenonT(60) DEF ReadOne
<1> DEFINE r    == store[NextTime(i)]
           q    == calls[i].query
           left == q.left /\ ~newBatch
<1>3. i \in 1..Len(calls) /\ i \in InState("reading") \cup InState("selecting")
  BY DEF InState
<1>4. QueryOK(q, store)
  BY <1>3 DEF IInv, CallsOK, CallOK
<1>5. /\ NextTime(i) \in DOMAIN store
      /\ r.key \in Key \cup {NoKey}
      /\ r.key = NoKey => Alien(store)
      /\ r.val = Foreign => r.key = NoKey
  BY <1>2, Given
<1>6. CASE Return(i, "error", <<>>)
  BY <1>1, <1>3, <1>6, EmptyMap, SameRequests, ReturnKeeps
<1>7. CASE ~HasKey(r) /\ Advance(i, Query(NextTime(i), q.until, TRUE, q.map, {}))
  <2> DEFINE m == Query(NextTime(i), q.until, TRUE, q.map, {})
  <2>1. m.left = TRUE /\ m.map = q.map /\ m.marked = {}
    BY DEF Query
  <2>2. Alien(store)
    BY <1>5, <1>7 DEF HasKey
  <2> HIDE DEF m
  <2>3. QueryOK(m, store)
    BY <2>1, <2>2, <1>4 DEF QueryOK
  <2> QED
    BY <2>3, <1>1, <1>3, <1>7, AdvanceKeeps DEF m
<1>8. ASSUME HasKey(r), NEW payload \in Payload(r, left),
             Advance(i, Query(NextTime(i), q.until, left, Replay(q.map, r, payload), {}))
      PROVE  IInv'
  <2> DEFINE map == Replay(q.map, r, payload)
             m   == Query(NextTime(i), q.until, left, map, {})
  <2>1. m.left = left /\ m.map = map /\ m.marked = {}
    BY DEF Query
  <2>2. left = TRUE => Alien(store)
    <3>1. left = TRUE => q.left = TRUE
      OBVIOUS
    <3> QED
      BY <3>1, <1>4 DEF QueryOK
  <2>3. payload = Foreign => Alien(store)
    <3>1. CASE left = TRUE
      BY <3>1, <2>2
    <3>2. CASE left # TRUE
      <4>1. ~left
        BY <3>2
      <4>2. payload = r.val
        BY <4>1, <1>8 DEF Payload
      <4> QED
        BY <4>2, <1>5
    <3> QED
      BY <3>1, <3>2
  <2>4. r.key \in Key /\ DOMAIN q.map \subseteq Key
    BY <1>4, <1>5, <1>8 DEF HasKey, QueryOK
  <2>5. /\ DOMAIN map \subseteq Key
        /\ \A v \in Range(map) : v \in Range(q.map) \/ v = payload
    BY <2>4, Replayed
  <2> HIDE DEF map
  <2>6. Foreign \in Range(map) => Alien(store)
    BY <2>3, <2>5, <1>4 DEF QueryOK
  <2> HIDE DEF m, left
  <2>7. QueryOK(m, store)
    BY <2>1, <2>2, <2>5, <2>6 DEF QueryOK
  <2>8. Advance(i, m)
    BY <1>8 DEF m, map
  <2> QED
    BY <2>7, <2>8, <1>1, <1>3, AdvanceKeeps
<1> HIDE DEF left
<1>9. \/ ~HasKey(r) /\ Advance(i, Query(NextTime(i), q.until, TRUE, q.map, {}))
      \/ HasKey(r) /\ \E payload \in Payload(r, left) :
           \/ Return(i, "error", <<>>)
           \/ Advance(i, Query(NextTime(i), q.until, left, Replay(q.map, r, payload), {}))
  BY <1>2, Zenon DEF left
<1> QED
  BY <1>6, <1>7, <1>8, <1>9, Zenon

LEMMA ReadDoneKeeps ==
  ASSUME IInv, ReadDone
  PROVE  IInv'
<1>1. PICK i \in InState("reading") : Return(i, "ok", calls[i].query.map)
  BY DEF ReadDone
<1>2. UNCHANGED <<clock, store, requests>>
  BY DEF ReadDone
<1>3. i \in 1..Len(calls) /\ calls[i].state = "reading"
  BY DEF InState
<1>4. CallOK(calls[i], store)
  BY <1>3 DEF IInv, CallsOK
<1>5. /\ calls[i].kind # "write"
      /\ DOMAIN calls[i].query.map \subseteq Key
      /\ Foreign \in Range(calls[i].query.map) => Alien(store)
  BY <1>3, <1>4 DEF CallOK, QueryOK
<1> QED
  BY <1>1, <1>2, <1>3, <1>5, SameRequests, ReturnKeeps

LEMMA SelectOneKeeps ==
  ASSUME IInv, SelectOne
  PROVE  IInv'
<1>1. UNCHANGED <<clock, store, requests>>
  BY DEF SelectOne
<1>2. PICK i \in InState("selecting") :
        LET q     == calls[i].query
            found == IF Selected(calls[i].keys, store[NextTime(i)]) THEN {NextTime(i)} ELSE {}
        IN  More(i) /\ Advance(i, Query(NextTime(i), q.until, FALSE, <<>>, q.marked \cup found))
  BY DEF SelectOne
<1> DEFINE q     == calls[i].query
           found == IF Selected(calls[i].keys, store[NextTime(i)]) THEN {NextTime(i)} ELSE {}
           m     == Query(NextTime(i), q.until, FALSE, <<>>, q.marked \cup found)
<1>3. i \in InState("reading") \cup InState("selecting") /\ i \in 1..Len(calls)
  BY DEF InState
<1>4. q.marked \subseteq DOMAIN store
  BY <1>3 DEF IInv, CallsOK, CallOK, QueryOK
<1>5. NextTime(i) \in DOMAIN store
  BY <1>2, Given
<1>6. q.marked \cup found \subseteq DOMAIN store
  BY <1>4, <1>5
<1>7. m.left = FALSE /\ m.map = <<>> /\ m.marked = q.marked \cup found
  BY DEF Query
<1>8. Advance(i, m)
  BY <1>2
<1> HIDE DEF found, m
<1>9. QueryOK(m, store)
  BY <1>6, <1>7, EmptyMap DEF QueryOK
<1> QED
  BY <1>1, <1>3, <1>8, <1>9, AdvanceKeeps

-----------------------------------------------------------------------------
(* The request of a removal.                                               *)

LEMMA RemoveRequest ==
  ASSUME IInv, NEW i, NEW marked, marked \subseteq DOMAIN store, NEW c, c.kind = "remove", c.state # "refused"
  PROVE  RequestOK(i, c, Request(RemoveBatch(marked), FALSE), store)
<1> DEFINE b == RemoveBatch(marked)
<1>1. StoreOK(store, calls)
  BY DEF IInv
<1>2. DOMAIN b = marked /\ \A t \in marked : b[t] = [store[t] EXCEPT !.removed = TRUE]
  BY DEF RemoveBatch
<1>3. ASSUME NEW t \in marked
      PROVE  t \in Nat /\ b[t] \in [key : {store[t].key}, val : {store[t].val}, removed : BOOLEAN]
  <2>1. t \in Nat /\ store[t] \in [key : Key \cup {NoKey}, val : 0..Len(calls), removed : BOOLEAN]
    BY <1>1 DEF StoreOK
  <2> QED
    BY <1>2, <2>1
<1> HIDE DEF b
<1>4. Request(b, FALSE).batch = b /\ Request(b, FALSE).errors = FALSE
  BY DEF Request
<1>5. RequestOK(i, c, Request(b, FALSE), store)
  BY <1>2, <1>3, <1>4 DEF RequestOK
<1> QED
  BY <1>5 DEF b

LEMMA SendRemoval ==
  ASSUME IInv, NEW i \in InState("selecting"),
         calls' = [calls EXCEPT ![i] = Call("remove", @.keys, "request", NoQuery(<<>>), 0, 0)],
         requests' = With(requests, i, Request(RemoveBatch(calls[i].query.marked), FALSE)),
         UNCHANGED <<clock, store>>
  PROVE  IInv'
<1> DEFINE c == Call("remove", calls[i].keys, "request", NoQuery(<<>>), 0, 0)
           r == Request(RemoveBatch(calls[i].query.marked), FALSE)
<1>1. /\ c.kind = "remove" /\ c.keys = calls[i].keys /\ c.state = "request"
      /\ c.query = NoQuery(<<>>) /\ c.end = 0
  BY DEF Call
<1>2. calls' = [calls EXCEPT ![i] = c] /\ requests' = With(requests, i, r)
  OBVIOUS
<1> HIDE DEF c, r
<1>3. i \in 1..Len(calls) /\ calls[i].state = "selecting"
  BY DEF InState
<1>4. CallOK(calls[i], store)
  BY <1>3 DEF IInv, CallsOK
<1>5. calls[i].query.marked \subseteq DOMAIN store
  BY <1>4 DEF CallOK, QueryOK
<1>6. RequestOK(i, c, r, store)
  BY <1>1, <1>5, RemoveRequest DEF r
<1>7. CallOK(c, store)
  BY <1>1, <1>4, EmptyQueries DEF CallOK
<1>8. Changed(calls, i, c, calls')
  <2>1. calls \in Seq(Range(calls))
    BY DEF IInv, CallsOK
  <2> QED
    BY <2>1, <1>2, <1>3, Replaced, Zenon
<1>9. /\ calls' \in Seq(Range(calls')) /\ Len(calls') = Len(calls)
      /\ calls'[i] = c /\ \A j \in 1..Len(calls) : j # i => calls'[j] = calls[j]
  BY <1>8 DEF Changed
<1>10. /\ DOMAIN requests' = DOMAIN requests \cup {i}
       /\ requests'[i] = r
       /\ \A j \in DOMAIN requests : j # i => requests'[j] = requests[j]
  BY <1>2 DEF With
<1>11. StoreOK(store', calls')
  <2>1. /\ Len(calls) \in Nat /\ Len(calls') \in Nat /\ Len(calls) <= Len(calls')
        /\ \A j \in 1..Len(calls) : calls[j].state # "refused" => calls'[j].state # "refused"
    BY <1>1, <1>9 DEF IInv, CallsOK
  <2>2. StoreOK(store, calls)
    BY DEF IInv
  <2>3. StoreOK(store, calls')
    BY <2>1, <2>2, MoreCalls, Zenon
  <2> QED
    BY <2>3
<1>12. CallsOK(calls', store')
  BY <1>7, <1>9 DEF IInv, CallsOK
<1>13. RequestsOK(requests', calls', store')
  <2>1. /\ DOMAIN requests \subseteq 1..Len(calls)
        /\ \A j \in DOMAIN requests : RequestOK(j, calls[j], requests[j], store)
        /\ \A j \in 1..Len(calls) : calls[j].state = "request" => j \in DOMAIN requests
    BY DEF IInv, RequestsOK
  <2>2. DOMAIN requests' \subseteq 1..Len(calls')
    BY <2>1, <1>3, <1>9, <1>10
  <2>3. \A j \in 1..Len(calls') : calls'[j].state = "request" => j \in DOMAIN requests'
    BY <2>1, <1>9, <1>10
  <2>4. ASSUME NEW j \in DOMAIN requests' PROVE RequestOK(j, calls'[j], requests'[j], store')
    <3>1. CASE j # i
      BY <3>1, <2>1, <1>9, <1>10
    <3>2. CASE j = i
      BY <3>2, <1>6, <1>9, <1>10
    <3> QED
      BY <3>1, <3>2
  <2> QED
    BY <2>2, <2>3, <2>4 DEF RequestsOK
<1>14. \A j \in 1..Len(calls') : WriteOK(j, calls'[j], requests'[j], store')
  <2> SUFFICES ASSUME NEW j \in 1..Len(calls) PROVE WriteOK(j, calls'[j], requests'[j], store')
    BY <1>9
  <2>1. CASE j # i
    <3>1. WriteOK(j, calls[j], requests[j], store) /\ calls'[j] = calls[j] /\ store' = store
      BY <2>1, <1>9 DEF IInv
    <3>2. calls[j].state = "request" => requests'[j] = requests[j]
      BY <2>1, <1>10 DEF IInv, RequestsOK
    <3> QED
      BY <3>1, <3>2 DEF WriteOK
  <2>2. CASE j = i
    <3>1. calls'[j].kind # "write"
      BY <2>2, <1>1, <1>9
    <3> QED
      BY <3>1 DEF WriteOK
  <2> QED
    BY <2>1, <2>2
<1> QED
  BY <1>11, <1>12, <1>13, <1>14 DEF IInv

LEMMA SelectDoneKeeps ==
  ASSUME IInv, SelectDone
  PROVE  IInv'
<1>1. UNCHANGED <<clock, store>>
  BY DEF SelectDone
<1>2. PICK i \in InState("selecting") :
        \/ Return(i, "ok", <<>>) /\ UNCHANGED requests
        \/ /\ calls' = [calls EXCEPT ![i] = Call("remove", @.keys, "request", NoQuery(<<>>), 0, 0)]
           /\ requests' = With(requests, i, Request(RemoveBatch(calls[i].query.marked), FALSE))
  BY Zenon DEF SelectDone
<1>3. CASE Return(i, "ok", <<>>) /\ UNCHANGED requests
  <2>1. i \in 1..Len(calls) /\ calls[i].state = "selecting"
    BY DEF InState
  <2>2. calls[i].kind # "write"
    BY <2>1 DEF IInv, CallsOK, CallOK
  <2> QED
    BY <1>1, <1>3, <2>1, <2>2, EmptyMap, SameRequests, ReturnKeeps
<1>4. CASE /\ calls' = [calls EXCEPT ![i] = Call("remove", @.keys, "request", NoQuery(<<>>), 0, 0)]
           /\ requests' = With(requests, i, Request(RemoveBatch(calls[i].query.marked), FALSE))
  BY <1>1, <1>4, SendRemoval
<1> QED
  BY <1>2, <1>3, <1>4

-----------------------------------------------------------------------------
(* The answer to a request.                                                *)

LEMMA AnswerKeeps ==
  ASSUME IInv, Answer
  PROVE  IInv'
<1>1. UNCHANGED <<clock, store>>
  BY DEF Answer
<1>2. PICK i \in InState("request") :
        /\ requests[i].batch = <<>>
        /\ Return(i, FirstBatchRecordError(requests[i].errors), <<>>)
        /\ requests' = Without(requests, i)
  BY DEF Answer
<1>3. i \in 1..Len(calls) /\ calls[i].state = "request"
  BY DEF InState
<1>4. requests[i].errors \in BOOLEAN /\ WriteOK(i, calls[i], requests[i], store)
  BY <1>3 DEF IInv, RequestsOK, RequestOK
<1> DEFINE state == FirstBatchRecordError(requests[i].errors)
<1>5. state \in {"ok", "error"} /\ (state = "ok" => requests[i].errors # TRUE)
  BY <1>4 DEF FirstBatchRecordError
<1> HIDE DEF state
<1>6. \A k : ~Waiting(k, requests[i])
  BY <1>2 DEF Waiting
<1>7. calls[i].kind = "write" /\ state = "ok" => \A k \in calls[i].keys : Stored(i, k, store)
  BY <1>3, <1>4, <1>5, <1>6 DEF WriteOK
<1>8. SameBatches(i, requests, requests')
  BY <1>2 DEF SameBatches, Without, Restrict
<1>9. Return(i, state, <<>>)
  BY <1>2 DEF state
<1> QED
  BY <1>1, <1>3, <1>5, <1>7, <1>8, <1>9, EmptyMap, ReturnKeeps

LEMMA GiveUpKeeps ==
  ASSUME IInv, GiveUp
  PROVE  IInv'
<1>1. UNCHANGED <<clock, store>>
  BY DEF GiveUp
<1>2. PICK i \in InState("request") :
        /\ Return(i, "error", <<>>)
        /\ requests' = [requests EXCEPT ![i] = Request(@.batch, FALSE)]
  BY DEF GiveUp
<1>3. i \in 1..Len(calls)
  BY DEF InState
<1>4. Request(requests[i].batch, FALSE).batch = requests[i].batch /\ Request(requests[i].batch, FALSE).errors = FALSE
  BY DEF Request
<1>5. SameBatches(i, requests, requests')
  BY <1>2, <1>4 DEF SameBatches
<1> QED
  BY <1>1, <1>2, <1>3, <1>5, EmptyMap, ReturnKeeps

-----------------------------------------------------------------------------
(* The server.                                                             *)

\* The record of a request that the server takes, and what it does to the store.
LEMMA TakenRecord ==
  ASSUME IInv, NEW i \in DOMAIN requests, NEW t \in DOMAIN requests[i].batch,
         calls[i].kind = "write" => t \notin DOMAIN store,
         NEW n, n = With(store, t, requests[i].batch[t])
  PROVE  Grows(store, n) /\ StoreOK(n, calls)
<1> DEFINE b == requests[i].batch
<1>1. i \in 1..Len(calls) /\ RequestOK(i, calls[i], requests[i], store) /\ StoreOK(store, calls)
  BY DEF IInv, RequestsOK
<1>2. /\ DOMAIN n = DOMAIN store \cup {t}
      /\ n[t] = b[t]
      /\ \A u \in DOMAIN store : u # t => n[u] = store[u]
  BY DEF With
<1>3. t \in Nat /\ calls[i].kind \in {"write", "remove"} /\ calls[i].state # "refused"
  BY <1>1 DEF RequestOK
<1>4. calls[i].kind = "write" =>
        /\ b[t].key \in Key /\ b[t].val = i /\ b[t] \in [key : Key, val : {i}, removed : BOOLEAN]
  BY <1>1 DEF RequestOK
<1>5. calls[i].kind = "remove" =>
        /\ t \in DOMAIN store
        /\ b[t] \in [key : {store[t].key}, val : {store[t].val}, removed : BOOLEAN]
        /\ b[t].key = store[t].key /\ b[t].val = store[t].val
  BY <1>1 DEF RequestOK
<1> HIDE DEF b
<1>6. Grows(store, n)
  <2>1. DOMAIN store \subseteq DOMAIN n
    BY <1>2
  <2>2. ASSUME NEW u \in DOMAIN store PROVE n[u].key = store[u].key /\ n[u].val = store[u].val
    <3>1. CASE u # t
      BY <1>2, <3>1
    <3>2. CASE u = t
      BY <1>2, <1>3, <1>5, <3>2
    <3> QED
      BY <3>1, <3>2
  <2> QED
    BY <2>1, <2>2 DEF Grows
<1>7. ASSUME NEW u \in DOMAIN n
      PROVE  /\ u \in Nat
             /\ n[u] \in [key : Key \cup {NoKey}, val : 0..Len(calls), removed : BOOLEAN]
             /\ n[u].key = NoKey => u = 1
             /\ n[u].val = Foreign => n[u].key = NoKey
             /\ n[u].val # Foreign => calls[n[u].val].state # "refused"
  <2>1. CASE u # t
    <3>1. u \in DOMAIN store /\ n[u] = store[u]
      BY <1>2, <2>1
    <3> QED
      BY <3>1, <1>1 DEF StoreOK
  <2>2. CASE u = t /\ calls[i].kind = "write"
    <3>1. n[u] = b[t] /\ b[t].key \in Key /\ b[t].val = i
      BY <1>2, <1>4, <2>2
    <3>2. i \in 0..Len(calls) /\ i # Foreign
      BY <1>1 DEF Foreign
    <3>3. \A k \in Key : k # NoKey
      BY AttachmentsAssumption DEF Key, NoKey
    <3>4. n[u] \in [key : Key \cup {NoKey}, val : 0..Len(calls), removed : BOOLEAN]
      BY <3>1, <3>2, <1>4, <2>2
    <3>5. n[u].key # NoKey /\ n[u].val = i
      BY <3>1, <3>3
    <3> QED
      BY <3>2, <3>4, <3>5, <1>3, <2>2
  <2>3. CASE u = t /\ calls[i].kind = "remove"
    <3>1. n[u] = b[t] /\ t \in DOMAIN store /\ n[u].key = store[t].key /\ n[u].val = store[t].val
      BY <1>2, <1>5, <2>3
    <3>2. /\ store[t] \in [key : Key \cup {NoKey}, val : 0..Len(calls), removed : BOOLEAN]
          /\ store[t].key = NoKey => t = 1
          /\ store[t].val = Foreign => store[t].key = NoKey
          /\ store[t].val # Foreign => calls[store[t].val].state # "refused"
      BY <3>1, <1>1 DEF StoreOK
    <3>3. n[u] \in [key : Key \cup {NoKey}, val : 0..Len(calls), removed : BOOLEAN]
      BY <3>1, <3>2, <1>5, <2>3
    <3> QED
      BY <3>1, <3>2, <3>3, <1>3, <2>3
  <2> QED
    BY <1>3, <2>1, <2>2, <2>3
<1>8. StoreOK(n, calls)
  BY <1>7 DEF StoreOK
<1> QED
  BY <1>6, <1>8

LEMMA ProcessKeeps ==
  ASSUME IInv, Process
  PROVE  IInv'
<1>1. UNCHANGED <<clock, calls>>
  BY DEF Process
<1>2. PICK i \in DOMAIN requests, rejected \in BOOLEAN : \E t \in DOMAIN requests[i].batch :
        /\ calls[i].kind = "write" /\ t \in DOMAIN store => rejected
        /\ store' = IF rejected THEN store ELSE With(store, t, requests[i].batch[t])
        /\ requests' = [requests EXCEPT
             ![i] = Request(Without(requests[i].batch, t),
                            calls[i].state = "request" /\ (requests[i].errors \/ rejected))]
  BY Zenon DEF Process
<1>3. PICK t \in DOMAIN requests[i].batch :
        /\ calls[i].kind = "write" /\ t \in DOMAIN store => rejected
        /\ store' = IF rejected THEN store ELSE With(store, t, requests[i].batch[t])
        /\ requests' = [requests EXCEPT
             ![i] = Request(Without(requests[i].batch, t),
                            calls[i].state = "request" /\ (requests[i].errors \/ rejected))]
  BY <1>2, Zenon
<1> DEFINE b == requests[i].batch
           e == calls[i].state = "request" /\ (requests[i].errors \/ rejected)
           r == Request(Without(b, t), e)
<1>4. r.batch = Without(b, t) /\ r.errors = e
  BY DEF Request
<1>5. /\ DOMAIN r.batch = DOMAIN b \ {t}
      /\ \A u \in DOMAIN r.batch : r.batch[u] = b[u]
  BY <1>4 DEF Without, Restrict
<1>6. /\ DOMAIN requests' = DOMAIN requests
      /\ requests'[i] = r
      /\ \A j \in DOMAIN requests : j # i => requests'[j] = requests[j]
  BY <1>3
<1>7. e \in BOOLEAN
  OBVIOUS
<1>8. calls[i].state = "request" /\ (requests[i].errors = TRUE \/ rejected = TRUE) => e = TRUE
  OBVIOUS
<1> HIDE DEF e, r
<1>9. Grows(store, store') /\ StoreOK(store', calls)
  <2>1. CASE rejected
    <3>1. store' = store
      BY <1>3, <2>1
    <3> QED
      BY <3>1 DEF IInv, Grows
  <2>2. CASE ~rejected
    <3>1. store' = With(store, t, b[t]) /\ (calls[i].kind = "write" => t \notin DOMAIN store)
      BY <1>3, <2>2
    <3> QED
      BY <3>1, TakenRecord
  <2> QED
    BY <2>1, <2>2
<1>10. /\ \A c : CallOK(c, store) => CallOK(c, store')
       /\ \A j, c, q : RequestOK(j, c, q, store) => RequestOK(j, c, q, store')
       /\ \A j, k : Stored(j, k, store) => Stored(j, k, store')
       /\ \A j, c, q : WriteOK(j, c, q, store) => WriteOK(j, c, q, store')
  BY <1>9, GrowsKeeps, Zenon
<1>11. StoreOK(store', calls')
  BY <1>1, <1>9
<1>12. CallsOK(calls', store')
  BY <1>1, <1>10 DEF IInv, CallsOK
<1>13. /\ DOMAIN requests \subseteq 1..Len(calls)
       /\ \A j \in DOMAIN requests : RequestOK(j, calls[j], requests[j], store')
       /\ \A j \in 1..Len(calls) : calls[j].state = "request" => j \in DOMAIN requests
  BY <1>10 DEF IInv, RequestsOK
<1>14. RequestsOK(requests', calls', store')
  <2>1. RequestOK(i, calls[i], r, store')
    <3>1. RequestOK(i, calls[i], requests[i], store')
      BY <1>13
    <3> QED
      BY <3>1, <1>4, <1>5, <1>7 DEF RequestOK
  <2>2. \A j \in DOMAIN requests' : RequestOK(j, calls[j], requests'[j], store')
    BY <2>1, <1>6, <1>13
  <2> QED
    BY <2>2, <1>1, <1>6, <1>13 DEF RequestsOK
<1>15. WriteOK(i, calls[i], r, store')
  <2>1. WriteOK(i, calls[i], requests[i], store') /\ i \in 1..Len(calls)
    BY <1>10, <1>13 DEF IInv
  <2> SUFFICES ASSUME calls[i].kind = "write", calls[i].state = "request", NEW k \in calls[i].keys,
                      Waiting(k, requests[i])
               PROVE  r.errors = TRUE \/ Waiting(k, r) \/ Stored(i, k, store')
    BY <2>1, <1>4, <1>8 DEF WriteOK
  <2>2. PICK u \in DOMAIN b : b[u].key = k
    BY DEF Waiting
  <2>3. CASE u # t
    BY <2>2, <2>3, <1>5 DEF Waiting
  <2>4. CASE u = t /\ rejected = TRUE
    BY <2>4, <1>4, <1>8
  <2>5. CASE u = t /\ ~rejected
    <3>1. store' = With(store, t, b[t])
      BY <1>3, <2>5
    <3>2. t \in DOMAIN store' /\ store'[t] = b[t]
      BY <3>1 DEF With
    <3>3. b[t].val = i
      BY <1>13 DEF RequestOK
    <3> QED
      BY <2>2, <2>5, <3>2, <3>3 DEF Stored
  <2> QED
    BY <2>3, <2>4, <2>5
<1>16. \A j \in 1..Len(calls') : WriteOK(j, calls'[j], requests'[j], store')
  <2> SUFFICES ASSUME NEW j \in 1..Len(calls) PROVE WriteOK(j, calls[j], requests'[j], store')
    BY <1>1
  <2>1. CASE j # i
    <3>1. WriteOK(j, calls[j], requests[j], store')
      BY <1>10 DEF IInv
    <3>2. calls[j].state = "request" => requests'[j] = requests[j]
      BY <1>6, <1>13, <2>1
    <3> QED
      BY <3>1, <3>2 DEF WriteOK
  <2>2. CASE j = i
    BY <2>2, <1>6, <1>15
  <2> QED
    BY <2>1, <2>2
<1> QED
  BY <1>1, <1>11, <1>12, <1>14, <1>16 DEF IInv

-----------------------------------------------------------------------------
(* The theorems.                                                           *)

LEMMA InitIInv == Init => IInv
<1> SUFFICES ASSUME Init PROVE IInv
  OBVIOUS
<1>1. clock \in 2..MaxTime
  BY AttachmentsAssumption DEF Init
<1>2. calls = <<>> /\ Len(calls) = 0 /\ DOMAIN requests = {}
  BY DEF Init
<1>3. CallsOK(calls, store)
  BY <1>2 DEF CallsOK
<1>4. RequestsOK(requests, calls, store)
  BY <1>2 DEF RequestsOK
<1>5. StoreOK(store, calls)
  <2>1. store = <<Record(NoKey, Foreign)>> \/ store = <<>>
    BY DEF Init
  <2>2. CASE store = <<Record(NoKey, Foreign)>>
    <3>1. DOMAIN store = {1} /\ store[1] = Record(NoKey, Foreign)
      BY <2>2
    <3>2. Record(NoKey, Foreign) \in [key : Key \cup {NoKey}, val : 0..0, removed : BOOLEAN]
      BY DEF Record, Foreign
    <3>3. Record(NoKey, Foreign).key = NoKey /\ Record(NoKey, Foreign).val = Foreign
      BY DEF Record
    <3> QED
      BY <1>2, <3>1, <3>2, <3>3 DEF StoreOK
  <2>3. CASE store = <<>>
    BY <2>3 DEF StoreOK
  <2> QED
    BY <2>1, <2>2, <2>3
<1> QED
  BY <1>1, <1>2, <1>3, <1>4, <1>5 DEF IInv

LEMMA NextIInv == IInv /\ [Next]_vars => IInv'
<1> SUFFICES ASSUME IInv, [Next]_vars PROVE IInv'
  OBVIOUS
<1>1. CASE WriteInvalid
  BY <1>1, WriteInvalidKeeps
<1>2. CASE WriteAttachments
  BY <1>2, WriteAttachmentsKeeps
<1>3. CASE QueryFails
  BY <1>3, QueryFailsKeeps
<1>4. CASE ReadAttachments \/ RemoveAttachments
  BY <1>4, BeginQueryKeeps
<1>5. CASE ReadOne
  BY <1>5, ReadOneKeeps
<1>6. CASE ReadDone
  BY <1>6, ReadDoneKeeps
<1>7. CASE SelectOne
  BY <1>7, SelectOneKeeps
<1>8. CASE SelectDone
  BY <1>8, SelectDoneKeeps
<1>9. CASE Process
  BY <1>9, ProcessKeeps
<1>10. CASE Answer
  BY <1>10, AnswerKeeps
<1>11. CASE GiveUp
  BY <1>11, GiveUpKeeps
<1>12. CASE UNCHANGED vars
  BY <1>12 DEF IInv, vars
<1> QED
  BY <1>1, <1>2, <1>3, <1>4, <1>5, <1>6, <1>7, <1>8, <1>9, <1>10, <1>11, <1>12, Zenon DEF Next, Finished

LEMMA IInvHolds == Spec => []IInv
BY InitIInv, NextIInv, PTL DEF Spec

-----------------------------------------------------------------------------
(* What a step does, call by call.                                         *)

\* Call c is d after a step with n calls begun: it may have returned.
Goes(c, d, n) ==
  /\ d.kind = c.kind /\ d.keys = c.keys
  /\ c.kind = "write" => d.time = c.time
  /\ c.end # 0 => d = c
  /\ c.end = 0 => d.end = 0 \/ d.end = n
  /\ d.state = "refused" <=> c.state = "refused"

\* The query of call j gives the record at time t.
Gives(j, t) ==
  /\ t \in DOMAIN store /\ t > calls[j].query.cursor
  /\ \A u \in DOMAIN store : u > calls[j].query.cursor => t <= u
  /\ calls'[j].query.cursor = t /\ calls'[j].query.until = calls[j].query.until
  /\ store' = store

ReadsOn(j) ==
  /\ calls[j].state = "reading" /\ calls'[j].state = "reading"
  /\ calls'[j].query.marked = {}
  /\ \E t : /\ Gives(j, t)
            /\ store[t].key # NoKey /\ calls[j].query.left # TRUE
                 => /\ calls'[j].query.left # TRUE
                    /\ calls'[j].query.map = Replay(calls[j].query.map, store[t], store[t].val)

ReadsOut(j) ==
  /\ calls[j].state = "reading" /\ calls'[j].state = "ok"
  /\ QueryComplete(j)
  /\ calls'[j].query.map = calls[j].query.map /\ calls'[j].query.left # TRUE
  /\ calls'[j].end = Len(calls) /\ store' = store

Selects(j) ==
  /\ calls[j].state = "selecting" /\ calls'[j].state = "selecting"
  /\ \E t : /\ Gives(j, t)
            /\ calls'[j].query.marked =
                 calls[j].query.marked \cup IF Selected(calls[j].keys, store[t]) THEN {t} ELSE {}

Sends(j) ==
  /\ calls[j].state = "selecting" /\ calls'[j].state = "request"
  /\ QueryComplete(j)
  /\ j \in DOMAIN requests'
  /\ requests'[j].batch = RemoveBatch(calls[j].query.marked)
  /\ store' = store

SelectsNone(j) ==
  /\ calls[j].state = "selecting" /\ calls'[j].state = "ok"
  /\ QueryComplete(j)
  /\ calls[j].query.marked = {}
  /\ store' = store

Answered(j) ==
  /\ calls[j].state = "request" /\ calls'[j].state = "ok"
  /\ DOMAIN requests[j].batch = {} /\ requests[j].errors # TRUE
  /\ store' = store

OwnStep(j) ==
  \/ calls'[j] = calls[j]
  \/ calls'[j].state = "error"
  \/ ReadsOn(j) \/ ReadsOut(j)
  \/ Selects(j) \/ Sends(j) \/ SelectsNone(j)
  \/ Answered(j)

\* The query of a call that does not read or select.
Idle(q) == q.cursor = 0 /\ q.until = 0 /\ q.marked = {}

\* Call j begins.
Starts(j) ==
  LET c == calls'[j] IN
  /\ \/ c.state = "reading" /\ c.kind = "read" /\ c.query = NewQuery /\ c.end = 0 /\ clock' = clock
     \/ c.state = "selecting" /\ c.kind = "remove" /\ c.query = NewQuery /\ c.end = 0 /\ clock' = clock
     \/ c.state = "refused" /\ c.kind = "write" /\ Idle(c.query) /\ c.end = j /\ clock' = clock
     \/ /\ c.state = "request" /\ c.kind = "write" /\ Idle(c.query) /\ c.end = 0
        /\ c.keys \subseteq Key
        /\ clock' \in clock..MaxTime /\ c.time = clock'
        /\ j \in DOMAIN requests' /\ requests'[j].batch = WriteBatch(clock', c.keys, j)
  /\ store' = store

\* The server takes the record at time t of the batch of call j.
Takes(j, t, rejected) ==
  /\ j \in DOMAIN requests /\ t \in DOMAIN requests[j].batch
  /\ calls[j].kind = "write" /\ t \in DOMAIN store => rejected
  /\ store' = IF rejected THEN store ELSE With(store, t, requests[j].batch[t])
  /\ requests'[j].batch = Without(requests[j].batch, t)
  /\ calls[j].state = "request" /\ (requests[j].errors = TRUE \/ rejected) => requests'[j].errors = TRUE

BatchStep(j) ==
  \/ j \in DOMAIN requests /\ requests'[j] = requests[j]
  \/ j \in DOMAIN requests /\ requests'[j].batch = requests[j].batch /\ calls'[j].state = "error"
  \/ calls'[j] = calls[j] /\ \E t, rejected : Takes(j, t, rejected)
  \/ j \in 1..Len(calls) /\ Sends(j)
  \/ j = Len(calls) + 1 /\ Len(calls') = j /\ Starts(j) /\ calls'[j].state = "request"

StoreStep ==
  \/ store' = store
  \/ \E j, t : Takes(j, t, FALSE)

Step ==
  /\ \/ Len(calls') = Len(calls)
     \/ Len(calls') = Len(calls) + 1 /\ Starts(Len(calls) + 1)
  /\ \A j \in 1..Len(calls) : Goes(calls[j], calls'[j], Len(calls)) /\ OwnStep(j)
  /\ \A j \in 1..Len(calls) : calls'[j].query = calls[j].query \/ Idle(calls'[j].query) \/ ReadsOn(j) \/ Selects(j)
  /\ \A j \in DOMAIN requests' : BatchStep(j)
  /\ StoreStep
  /\ Len(calls') = Len(calls) => clock' = clock

LEMMA ReplacedCall ==
  ASSUME IInv, NEW i \in 1..Len(calls), NEW c, calls' = [calls EXCEPT ![i] = c]
  PROVE  /\ Len(calls') = Len(calls)
         /\ calls'[i] = c
         /\ \A j \in 1..Len(calls) : j # i => calls'[j] = calls[j]
<1>1. calls \in Seq(Range(calls))
  BY DEF IInv, CallsOK
<1>2. Changed(calls, i, c, calls')
  BY <1>1, Replaced, Zenon
<1> QED
  BY <1>2 DEF Changed

LEMMA SameCall ==
  ASSUME NEW c, NEW n
  PROVE  Goes(c, c, n)
BY DEF Goes

\* One call goes on or returns: the step is that of this call.
LEMMA OneCall ==
  ASSUME IInv, NEW i \in 1..Len(calls), NEW c, calls' = [calls EXCEPT ![i] = c],
         Goes(calls[i], c, Len(calls)), OwnStep(i), UNCHANGED <<clock, store>>,
         c.query = calls[i].query \/ Idle(c.query) \/ ReadsOn(i) \/ Selects(i),
         \A j \in DOMAIN requests' : BatchStep(j)
  PROVE  Step
<1>1. /\ Len(calls') = Len(calls)
      /\ calls'[i] = c
      /\ \A j \in 1..Len(calls) : j # i => calls'[j] = calls[j]
  BY ReplacedCall, Zenon
<1>2. ASSUME NEW j \in 1..Len(calls)
      PROVE  /\ Goes(calls[j], calls'[j], Len(calls)) /\ OwnStep(j)
             /\ calls'[j].query = calls[j].query \/ Idle(calls'[j].query) \/ ReadsOn(j) \/ Selects(j)
  <2>1. CASE j = i
    BY <2>1, <1>1
  <2>2. CASE j # i
    BY <2>2, <1>1, SameCall DEF OwnStep
  <2> QED
    BY <2>1, <2>2
<1> QED
  BY <1>1, <1>2 DEF Step, StoreStep

LEMMA ReturnGoes ==
  ASSUME IInv, NEW i \in 1..Len(calls), NEW state \in {"ok", "error"}, NEW map, Return(i, state, map),
         calls[i].state \in {"request", "reading", "selecting"}
  PROVE  /\ calls' = [calls EXCEPT ![i] = calls'[i]]
         /\ Goes(calls[i], calls'[i], Len(calls))
         /\ calls'[i].state = state /\ calls'[i].end = Len(calls)
         /\ Idle(calls'[i].query) /\ calls'[i].query.map = map /\ calls'[i].query.left = FALSE
<1> DEFINE c == Call(calls[i].kind, calls[i].keys, state, NoQuery(map), calls[i].time, Len(calls))
<1>1. /\ c.kind = calls[i].kind /\ c.keys = calls[i].keys /\ c.state = state
      /\ c.query = NoQuery(map) /\ c.time = calls[i].time /\ c.end = Len(calls)
  BY DEF Call
<1>2. calls' = [calls EXCEPT ![i] = c]
  BY DEF Return
<1> HIDE DEF c
<1>3. calls'[i] = c
  BY <1>2, ReplacedCall, Zenon
<1>4. Idle(NoQuery(map)) /\ NoQuery(map).map = map /\ NoQuery(map).left = FALSE
  BY DEF NoQuery, Query, Idle
<1>5. calls[i].end = 0
  BY DEF IInv, CallsOK, CallOK
<1>6. Goes(calls[i], c, Len(calls))
  BY <1>1, <1>5 DEF Goes
<1> QED
  BY <1>1, <1>2, <1>3, <1>4, <1>6

LEMMA AdvanceGoes ==
  ASSUME IInv, NEW i \in 1..Len(calls), NEW query, Advance(i, query),
         calls[i].state \in {"reading", "selecting"}
  PROVE  /\ calls' = [calls EXCEPT ![i] = calls'[i]]
         /\ Goes(calls[i], calls'[i], Len(calls))
         /\ calls'[i].state = calls[i].state /\ calls'[i].query = query
<1> DEFINE c == Call(calls[i].kind, calls[i].keys, calls[i].state, query, calls[i].time, calls[i].end)
<1>1. /\ c.kind = calls[i].kind /\ c.keys = calls[i].keys /\ c.state = calls[i].state
      /\ c.query = query /\ c.time = calls[i].time /\ c.end = calls[i].end
  BY DEF Call
<1>2. calls' = [calls EXCEPT ![i] = c]
  BY DEF Advance
<1> HIDE DEF c
<1>3. calls'[i] = c
  BY <1>2, ReplacedCall, Zenon
<1>4. calls[i].end = 0
  BY DEF IInv, CallsOK, CallOK
<1>5. Goes(calls[i], c, Len(calls))
  BY <1>1, <1>4 DEF Goes
<1> QED
  BY <1>1, <1>2, <1>3, <1>5

LEMMA SameBatch ==
  ASSUME UNCHANGED requests
  PROVE  \A j \in DOMAIN requests' : BatchStep(j)
BY DEF BatchStep

LEMMA QueryFailsStep ==
  ASSUME IInv, QueryFails
  PROVE  Step
<1>1. PICK i \in InState("reading") \cup InState("selecting") : Return(i, "error", <<>>)
  BY DEF QueryFails
<1>2. UNCHANGED <<clock, store, requests>>
  BY DEF QueryFails
<1>3. i \in 1..Len(calls) /\ calls[i].state \in {"request", "reading", "selecting"}
  BY DEF InState
<1>4. /\ calls' = [calls EXCEPT ![i] = calls'[i]]
      /\ Goes(calls[i], calls'[i], Len(calls))
      /\ calls'[i].state = "error" /\ Idle(calls'[i].query)
  BY <1>1, <1>3, ReturnGoes
<1>5. OwnStep(i)
  BY <1>4 DEF OwnStep
<1>6. \A j \in DOMAIN requests' : BatchStep(j)
  BY <1>2, SameBatch
<1> QED
  BY <1>2, <1>3, <1>4, <1>5, <1>6, OneCall

\* The next record of a query, and what the query is then.
LEMMA NextGiven ==
  ASSUME IInv, NEW i \in 1..Len(calls), More(i), UNCHANGED store,
         calls'[i].query.cursor = NextTime(i), calls'[i].query.until = calls[i].query.until
  PROVE  Gives(i, NextTime(i))
<1> DEFINE T == {t \in DOMAIN store : t > calls[i].query.cursor}
<1>1. \A t \in DOMAIN store : t \in Nat
  BY DEF IInv, StoreOK
<1>2. T \subseteq Nat /\ T # {}
  BY <1>1 DEF More
<1>3. \A t \in DOMAIN store : t > calls[i].query.cursor => t \in T
  OBVIOUS
<1>4. \A t \in T : t \in DOMAIN store /\ t > calls[i].query.cursor
  OBVIOUS
<1>5. NextTime(i) = Min(T)
  BY DEF NextTime
<1> HIDE DEF T
<1>6. Min(T) \in T /\ \A t \in T : Min(T) <= t
  BY <1>2, LeastNumber
<1> QED
  BY <1>3, <1>4, <1>5, <1>6 DEF Gives

LEMMA ReadOneStep ==
  ASSUME IInv, ReadOne
  PROVE  Step
<1>1. UNCHANGED <<clock, store, requests>>
  BY DEF ReadOne
<1>2. PICK i \in InState("reading"), newBatch \in BOOLEAN :
        LET r    == store[NextTime(i)]
            q    == calls[i].query
            left == q.left /\ ~newBatch
        IN  /\ More(i)
            /\ \/ /\ ~HasKey(r)
                  /\ Advance(i, Query(NextTime(i), q.until, TRUE, q.map, {}))
               \/ /\ HasKey(r)
                  /\ \E payload \in Payload(r, left) :
                       \/ Return(i, "error", <<>>)
                       \/ Advance(i, Query(NextTime(i), q.until, left, Replay(q.map, r, payload), {}))
  BY ZenonT(60) DEF ReadOne
<1> DEFINE r    == store[NextTime(i)]
           q    == calls[i].query
           left == q.left /\ ~newBatch
<1>3. i \in 1..Len(calls) /\ calls[i].state = "reading"
  BY DEF InState
<1>4. \A j \in DOMAIN requests' : BatchStep(j)
  BY <1>1, SameBatch
<1>5. CASE Return(i, "error", <<>>)
  <2>1. /\ calls' = [calls EXCEPT ![i] = calls'[i]]
        /\ Goes(calls[i], calls'[i], Len(calls))
        /\ calls'[i].state = "error" /\ Idle(calls'[i].query)
    BY <1>3, <1>5, ReturnGoes
  <2>2. OwnStep(i)
    BY <2>1 DEF OwnStep
  <2> QED
    BY <1>1, <1>3, <1>4, <2>1, <2>2, OneCall
<1>6. ASSUME NEW rest, NEW map, Advance(i, Query(NextTime(i), q.until, rest, map, {})),
             r.key # NoKey /\ q.left # TRUE => rest # TRUE /\ map = Replay(q.map, r, r.val)
      PROVE  Step
  <2> DEFINE m == Query(NextTime(i), q.until, rest, map, {})
  <2>1. m.cursor = NextTime(i) /\ m.until = q.until /\ m.left = rest /\ m.map = map /\ m.marked = {}
    BY DEF Query
  <2> HIDE DEF m
  <2>2. /\ calls' = [calls EXCEPT ![i] = calls'[i]]
        /\ Goes(calls[i], calls'[i], Len(calls))
        /\ calls'[i].state = "reading" /\ calls'[i].query = m
    BY <1>3, <1>6, AdvanceGoes DEF m
  <2>3. Gives(i, NextTime(i))
    BY <1>1, <1>2, <1>3, <2>1, <2>2, NextGiven
  <2>4. ReadsOn(i)
    BY <1>3, <1>6, <2>1, <2>2, <2>3 DEF ReadsOn
  <2>5. OwnStep(i)
    BY <2>4 DEF OwnStep
  <2> QED
    BY <1>1, <1>3, <1>4, <2>2, <2>4, <2>5, OneCall
<1>7. CASE ~HasKey(r) /\ Advance(i, Query(NextTime(i), q.until, TRUE, q.map, {}))
  BY <1>6, <1>7 DEF HasKey
<1>8. ASSUME NEW payload \in Payload(r, left),
             Advance(i, Query(NextTime(i), q.until, left, Replay(q.map, r, payload), {}))
      PROVE  Step
  <2>1. q.left # TRUE => ~left
    BY DEF IInv
  <2>2. q.left # TRUE => left # TRUE /\ payload = r.val
    BY <2>1, <1>8 DEF Payload
  <2> HIDE DEF left
  <2> QED
    BY <2>2, <1>6, <1>8
<1> HIDE DEF left
<1>9. \/ ~HasKey(r) /\ Advance(i, Query(NextTime(i), q.until, TRUE, q.map, {}))
      \/ \E payload \in Payload(r, left) :
           \/ Return(i, "error", <<>>)
           \/ Advance(i, Query(NextTime(i), q.until, left, Replay(q.map, r, payload), {}))
  BY <1>2, Zenon DEF left
<1> QED
  BY <1>5, <1>7, <1>8, <1>9, Zenon

LEMMA ReadDoneStep ==
  ASSUME IInv, ReadDone
  PROVE  Step
<1>1. PICK i \in InState("reading") : QueryComplete(i) /\ Return(i, "ok", calls[i].query.map)
  BY DEF ReadDone
<1>2. UNCHANGED <<clock, store, requests>>
  BY DEF ReadDone
<1>3. i \in 1..Len(calls) /\ calls[i].state = "reading"
  BY DEF InState
<1>4. /\ calls' = [calls EXCEPT ![i] = calls'[i]]
      /\ Goes(calls[i], calls'[i], Len(calls))
      /\ calls'[i].state = "ok" /\ calls'[i].end = Len(calls)
      /\ Idle(calls'[i].query) /\ calls'[i].query.map = calls[i].query.map /\ calls'[i].query.left = FALSE
  BY <1>1, <1>3, ReturnGoes
<1>5. OwnStep(i)
  BY <1>1, <1>2, <1>3, <1>4 DEF OwnStep, ReadsOut
<1>6. \A j \in DOMAIN requests' : BatchStep(j)
  BY <1>2, SameBatch
<1> QED
  BY <1>2, <1>3, <1>4, <1>5, <1>6, OneCall

LEMMA SelectOneStep ==
  ASSUME IInv, SelectOne
  PROVE  Step
<1>1. UNCHANGED <<clock, store, requests>>
  BY DEF SelectOne
<1>2. PICK i \in InState("selecting") :
        LET q     == calls[i].query
            found == IF Selected(calls[i].keys, store[NextTime(i)]) THEN {NextTime(i)} ELSE {}
        IN  More(i) /\ Advance(i, Query(NextTime(i), q.until, FALSE, <<>>, q.marked \cup found))
  BY DEF SelectOne
<1> DEFINE q     == calls[i].query
           found == IF Selected(calls[i].keys, store[NextTime(i)]) THEN {NextTime(i)} ELSE {}
           m     == Query(NextTime(i), q.until, FALSE, <<>>, q.marked \cup found)
<1>3. i \in 1..Len(calls) /\ calls[i].state = "selecting"
  BY DEF InState
<1>4. m.cursor = NextTime(i) /\ m.until = q.until /\ m.marked = q.marked \cup found
  BY DEF Query
<1>5. Advance(i, m) /\ More(i)
  BY <1>2
<1> HIDE DEF m
<1>6. /\ calls' = [calls EXCEPT ![i] = calls'[i]]
      /\ Goes(calls[i], calls'[i], Len(calls))
      /\ calls'[i].state = "selecting" /\ calls'[i].query = m
  BY <1>3, <1>5, AdvanceGoes
<1>7. Gives(i, NextTime(i))
  BY <1>1, <1>3, <1>4, <1>5, <1>6, NextGiven
<1>8. Selects(i)
  BY <1>3, <1>4, <1>6, <1>7 DEF Selects
<1>9. OwnStep(i)
  BY <1>8 DEF OwnStep
<1>10. \A j \in DOMAIN requests' : BatchStep(j)
  BY <1>1, SameBatch
<1> QED
  BY <1>1, <1>3, <1>6, <1>8, <1>9, <1>10, OneCall

LEMMA SelectDoneStep ==
  ASSUME IInv, SelectDone
  PROVE  Step
<1>1. UNCHANGED <<clock, store>>
  BY DEF SelectDone
<1>2. PICK i \in InState("selecting") :
        /\ QueryComplete(i)
        /\ \/ calls[i].query.marked = {} /\ Return(i, "ok", <<>>) /\ UNCHANGED requests
           \/ /\ calls' = [calls EXCEPT ![i] = Call("remove", @.keys, "request", NoQuery(<<>>), 0, 0)]
              /\ requests' = With(requests, i, Request(RemoveBatch(calls[i].query.marked), FALSE))
  BY Zenon DEF SelectDone
<1>3. i \in 1..Len(calls) /\ calls[i].state = "selecting"
  BY DEF InState
<1>4. CASE calls[i].query.marked = {} /\ Return(i, "ok", <<>>) /\ UNCHANGED requests
  <2>1. /\ calls' = [calls EXCEPT ![i] = calls'[i]]
        /\ Goes(calls[i], calls'[i], Len(calls))
        /\ calls'[i].state = "ok" /\ Idle(calls'[i].query)
    BY <1>3, <1>4, ReturnGoes
  <2>2. OwnStep(i)
    BY <1>1, <1>2, <1>3, <1>4, <2>1 DEF OwnStep, SelectsNone
  <2>3. \A j \in DOMAIN requests' : BatchStep(j)
    BY <1>4, SameBatch
  <2> QED
    BY <1>1, <1>3, <2>1, <2>2, <2>3, OneCall
<1>5. CASE /\ calls' = [calls EXCEPT ![i] = Call("remove", @.keys, "request", NoQuery(<<>>), 0, 0)]
           /\ requests' = With(requests, i, Request(RemoveBatch(calls[i].query.marked), FALSE))
  <2> DEFINE c == Call("remove", calls[i].keys, "request", NoQuery(<<>>), 0, 0)
             b == RemoveBatch(calls[i].query.marked)
             r == Request(b, FALSE)
  <2>1. c.kind = "remove" /\ c.keys = calls[i].keys /\ c.state = "request" /\ c.query = NoQuery(<<>>) /\ c.end = 0
    BY DEF Call
  <2>2. r.batch = b
    BY DEF Request
  <2>3. calls' = [calls EXCEPT ![i] = c] /\ requests' = With(requests, i, r)
    BY <1>5
  <2> HIDE DEF c, b, r
  <2>4. Idle(c.query)
    BY <2>1 DEF Idle, NoQuery, Query
  <2>5. calls[i].kind = "remove" /\ calls[i].end = 0
    BY <1>3 DEF IInv, CallsOK, CallOK
  <2>6. Goes(calls[i], c, Len(calls))
    BY <1>3, <2>1, <2>5 DEF Goes
  <2>7. calls'[i] = c
    BY <1>3, <2>3, ReplacedCall, Zenon
  <2>8. /\ DOMAIN requests' = DOMAIN requests \cup {i}
        /\ requests'[i] = r
        /\ \A j \in DOMAIN requests : j # i => requests'[j] = requests[j]
    BY <2>3 DEF With
  <2>9. Sends(i)
    BY <1>1, <1>2, <1>3, <2>1, <2>2, <2>7, <2>8 DEF Sends, b
  <2>10. OwnStep(i)
    BY <2>9 DEF OwnStep
  <2>11. \A j \in DOMAIN requests' : BatchStep(j)
    BY <1>3, <2>8, <2>9 DEF BatchStep
  <2> QED
    BY <1>1, <1>3, <2>3, <2>4, <2>6, <2>10, <2>11, OneCall
<1> QED
  BY <1>2, <1>4, <1>5

LEMMA AnswerStep ==
  ASSUME IInv, Answer
  PROVE  Step
<1>1. UNCHANGED <<clock, store>>
  BY DEF Answer
<1>2. PICK i \in InState("request") :
        /\ requests[i].batch = <<>>
        /\ Return(i, FirstBatchRecordError(requests[i].errors), <<>>)
        /\ requests' = Without(requests, i)
  BY DEF Answer
<1>3. i \in 1..Len(calls) /\ calls[i].state = "request"
  BY DEF InState
<1>4. requests[i].errors \in BOOLEAN
  BY <1>3 DEF IInv, RequestsOK, RequestOK
<1> DEFINE state == FirstBatchRecordError(requests[i].errors)
<1>5. state \in {"ok", "error"} /\ (state = "ok" => requests[i].errors # TRUE)
  BY <1>4 DEF FirstBatchRecordError
<1>6. Return(i, state, <<>>)
  BY <1>2
<1> HIDE DEF state
<1>7. /\ calls' = [calls EXCEPT ![i] = calls'[i]]
      /\ Goes(calls[i], calls'[i], Len(calls))
      /\ calls'[i].state = state /\ Idle(calls'[i].query)
  BY <1>3, <1>5, <1>6, ReturnGoes
<1>8. OwnStep(i)
  <2>1. DOMAIN requests[i].batch = {}
    BY <1>2
  <2>2. CASE state = "error"
    BY <2>2, <1>7, Zenon DEF OwnStep
  <2>3. CASE state = "ok" /\ requests[i].errors # TRUE
    BY <2>1, <2>3, <1>1, <1>3, <1>7 DEF OwnStep, Answered
  <2>4. state = "error" \/ (state = "ok" /\ requests[i].errors # TRUE)
    BY <1>5
  <2> QED
    BY <2>2, <2>3, <2>4
<1>9. \A j \in DOMAIN requests' : BatchStep(j)
  BY <1>2 DEF BatchStep, Without, Restrict
<1> QED
  BY <1>1, <1>3, <1>7, <1>8, <1>9, OneCall

LEMMA GiveUpStep ==
  ASSUME IInv, GiveUp
  PROVE  Step
<1>1. UNCHANGED <<clock, store>>
  BY DEF GiveUp
<1>2. PICK i \in InState("request") :
        /\ Return(i, "error", <<>>)
        /\ requests' = [requests EXCEPT ![i] = Request(@.batch, FALSE)]
  BY DEF GiveUp
<1>3. i \in 1..Len(calls) /\ calls[i].state = "request"
  BY DEF InState
<1>4. /\ calls' = [calls EXCEPT ![i] = calls'[i]]
      /\ Goes(calls[i], calls'[i], Len(calls))
      /\ calls'[i].state = "error" /\ Idle(calls'[i].query)
  BY <1>2, <1>3, ReturnGoes
<1>5. OwnStep(i)
  BY <1>4 DEF OwnStep
<1>6. \A j \in DOMAIN requests' : BatchStep(j)
  <2>1. Request(requests[i].batch, FALSE).batch = requests[i].batch
    BY DEF Request
  <2>2. /\ DOMAIN requests' = DOMAIN requests
        /\ \A j \in DOMAIN requests : j # i => requests'[j] = requests[j]
        /\ i \in DOMAIN requests => requests'[i] = Request(requests[i].batch, FALSE)
    BY <1>2
  <2> QED
    BY <1>4, <2>1, <2>2 DEF BatchStep
<1> QED
  BY <1>1, <1>3, <1>4, <1>5, <1>6, OneCall

LEMMA ProcessStep ==
  ASSUME IInv, Process
  PROVE  Step
<1>1. UNCHANGED <<clock, calls>>
  BY DEF Process
<1>2. PICK i \in DOMAIN requests, rejected \in BOOLEAN : \E t \in DOMAIN requests[i].batch :
        /\ calls[i].kind = "write" /\ t \in DOMAIN store => rejected
        /\ store' = IF rejected THEN store ELSE With(store, t, requests[i].batch[t])
        /\ requests' = [requests EXCEPT
             ![i] = Request(Without(requests[i].batch, t),
                            calls[i].state = "request" /\ (requests[i].errors \/ rejected))]
  BY Zenon DEF Process
<1>3. PICK t \in DOMAIN requests[i].batch :
        /\ calls[i].kind = "write" /\ t \in DOMAIN store => rejected
        /\ store' = IF rejected THEN store ELSE With(store, t, requests[i].batch[t])
        /\ requests' = [requests EXCEPT
             ![i] = Request(Without(requests[i].batch, t),
                            calls[i].state = "request" /\ (requests[i].errors \/ rejected))]
  BY <1>2, Zenon
<1> DEFINE e == calls[i].state = "request" /\ (requests[i].errors \/ rejected)
           r == Request(Without(requests[i].batch, t), e)
<1>4. r.batch = Without(requests[i].batch, t) /\ r.errors = e
  BY DEF Request
<1>5. calls[i].state = "request" /\ (requests[i].errors = TRUE \/ rejected) => e = TRUE
  OBVIOUS
<1>6. /\ DOMAIN requests' = DOMAIN requests
      /\ requests'[i] = r
      /\ \A j \in DOMAIN requests : j # i => requests'[j] = requests[j]
  BY <1>3
<1> HIDE DEF e, r
<1>7. Takes(i, t, rejected)
  BY <1>3, <1>4, <1>5, <1>6 DEF Takes
<1>8. StoreStep
  <2>1. CASE rejected
    BY <1>3, <2>1 DEF StoreStep
  <2>2. CASE ~rejected
    <3>1. rejected = FALSE
      BY <2>2
    <3> QED
      BY <1>7, <3>1 DEF StoreStep
  <2> QED
    BY <2>1, <2>2
<1>9. \A j \in DOMAIN requests' : BatchStep(j)
  <2>1. calls'[i] = calls[i]
    BY <1>1
  <2>2. BatchStep(i)
    BY <2>1, <1>7, Zenon DEF BatchStep
  <2> QED
    BY <2>2, <1>6 DEF BatchStep
<1>10. ASSUME NEW j \in 1..Len(calls)
       PROVE  /\ Goes(calls[j], calls'[j], Len(calls)) /\ OwnStep(j)
              /\ calls'[j].query = calls[j].query
  BY <1>1, SameCall DEF OwnStep
<1> QED
  BY <1>1, <1>8, <1>9, <1>10 DEF Step

LEMMA AppendedCall ==
  ASSUME IInv, NEW c, calls' = Append(calls, c)
  PROVE  /\ Len(calls) \in Nat
         /\ Len(calls') = Len(calls) + 1
         /\ calls'[Len(calls) + 1] = c
         /\ \A j \in 1..Len(calls) : calls'[j] = calls[j]
<1>1. calls \in Seq(Range(calls))
  BY DEF IInv, CallsOK
<1>2. Longer(calls, c, calls')
  BY <1>1, Appended, Zenon
<1> QED
  BY <1>2 DEF Longer

LEMMA StartStep ==
  ASSUME IInv, NEW c, calls' = Append(calls, c), Starts(Len(calls) + 1),
         \A j \in DOMAIN requests' : BatchStep(j)
  PROVE  Step
<1>1. /\ Len(calls) \in Nat
      /\ Len(calls') = Len(calls) + 1
      /\ \A j \in 1..Len(calls) : calls'[j] = calls[j]
  BY AppendedCall, Zenon
<1>2. ASSUME NEW j \in 1..Len(calls)
      PROVE  /\ Goes(calls[j], calls'[j], Len(calls)) /\ OwnStep(j)
             /\ calls'[j].query = calls[j].query
  BY <1>1, SameCall DEF OwnStep
<1>3. StoreStep
  BY DEF Starts, StoreStep
<1>4. Len(calls') # Len(calls)
  BY <1>1
<1> QED
  BY <1>1, <1>2, <1>3, <1>4 DEF Step

LEMMA WriteInvalidStep ==
  ASSUME IInv, WriteInvalid
  PROVE  Step
<1> DEFINE c == Call("write", Key, "refused", NoQuery(<<>>), 0, Len(calls) + 1)
<1>1. calls' = Append(calls, c) /\ UNCHANGED <<clock, store, requests>>
  BY DEF WriteInvalid
<1>2. c.state = "refused" /\ c.kind = "write" /\ Idle(c.query) /\ c.end = Len(calls) + 1
  BY DEF Call, NoQuery, Query, Idle
<1> HIDE DEF c
<1>3. calls'[Len(calls) + 1] = c
  BY <1>1, AppendedCall, Zenon
<1>4. Starts(Len(calls) + 1)
  BY <1>1, <1>2, <1>3 DEF Starts
<1>5. \A j \in DOMAIN requests' : BatchStep(j)
  BY <1>1, SameBatch
<1> QED
  BY <1>1, <1>4, <1>5, StartStep

LEMMA BeginQueryStep ==
  ASSUME IInv, ReadAttachments \/ RemoveAttachments
  PROVE  Step
<1>1. PICK kind, keys, state :
        /\ \/ kind = "read" /\ state = "reading"
           \/ kind = "remove" /\ state = "selecting"
        /\ calls' = Append(calls, Call(kind, keys, state, NewQuery, 0, 0))
        /\ UNCHANGED <<clock, store, requests>>
  <2>1. CASE ReadAttachments
    BY <2>1 DEF ReadAttachments, Begin
  <2>2. CASE RemoveAttachments
    BY <2>2 DEF RemoveAttachments, Begin
  <2> QED
    BY <2>1, <2>2
<1> DEFINE c == Call(kind, keys, state, NewQuery, 0, 0)
<1>2. c.state = state /\ c.kind = kind /\ c.query = NewQuery /\ c.end = 0
  BY DEF Call
<1>3. calls' = Append(calls, c)
  BY <1>1
<1> HIDE DEF c
<1>4. calls'[Len(calls) + 1] = c
  BY <1>3, AppendedCall, Zenon
<1>5. Starts(Len(calls) + 1)
  BY <1>1, <1>2, <1>4 DEF Starts
<1>6. \A j \in DOMAIN requests' : BatchStep(j)
  BY <1>1, SameBatch
<1> QED
  BY <1>3, <1>5, <1>6, StartStep

LEMMA WriteAttachmentsStep ==
  ASSUME IInv, WriteAttachments
  PROVE  Step
<1>1. PICK keys \in SUBSET Key, now \in clock..MaxTime :
        /\ clock' = now
        /\ calls' = Append(calls, Call("write", keys, "request", NoQuery(<<>>), now, 0))
        /\ requests' = With(requests, Len(calls) + 1, Request(WriteBatch(now, keys, Len(calls) + 1), FALSE))
        /\ store' = store
  BY DEF WriteAttachments, Begin
<1> DEFINE n == Len(calls)
           c == Call("write", keys, "request", NoQuery(<<>>), now, 0)
           b == WriteBatch(now, keys, n + 1)
           r == Request(b, FALSE)
<1>2. /\ c.state = "request" /\ c.kind = "write" /\ Idle(c.query) /\ c.end = 0
      /\ c.keys = keys /\ c.time = now
  BY DEF Call, NoQuery, Query, Idle
<1>3. r.batch = b
  BY DEF Request
<1>4. calls' = Append(calls, c) /\ requests' = With(requests, n + 1, r)
  BY <1>1
<1> HIDE DEF c, b, r
<1>5. calls'[n + 1] = c /\ Len(calls') = n + 1
  BY <1>4, AppendedCall, Zenon
<1>6. /\ DOMAIN requests' = DOMAIN requests \cup {n + 1}
      /\ requests'[n + 1] = r
      /\ \A i \in DOMAIN requests : i # n + 1 => requests'[i] = requests[i]
  BY <1>4 DEF With
<1> HIDE DEF n
<1>7. Starts(n + 1)
  BY <1>1, <1>2, <1>3, <1>5, <1>6 DEF Starts, b
<1>8. \A j \in DOMAIN requests' : BatchStep(j)
  BY <1>2, <1>5, <1>6, <1>7 DEF BatchStep, n
<1> QED
  BY <1>4, <1>7, <1>8, StartStep DEF n

LEMMA EveryStep == IInv /\ [Next]_vars => Step
<1> SUFFICES ASSUME IInv, [Next]_vars PROVE Step
  OBVIOUS
<1>1. CASE WriteInvalid
  BY <1>1, WriteInvalidStep
<1>2. CASE WriteAttachments
  BY <1>2, WriteAttachmentsStep
<1>3. CASE QueryFails
  BY <1>3, QueryFailsStep
<1>4. CASE ReadAttachments \/ RemoveAttachments
  BY <1>4, BeginQueryStep
<1>5. CASE ReadOne
  BY <1>5, ReadOneStep
<1>6. CASE ReadDone
  BY <1>6, ReadDoneStep
<1>7. CASE SelectOne
  BY <1>7, SelectOneStep
<1>8. CASE SelectDone
  BY <1>8, SelectDoneStep
<1>9. CASE Process
  BY <1>9, ProcessStep
<1>10. CASE Answer
  BY <1>10, AnswerStep
<1>11. CASE GiveUp
  BY <1>11, GiveUpStep
<1>12. CASE UNCHANGED vars
  BY <1>12, SameCall, SameBatch DEF vars, Step, OwnStep, StoreStep
<1> QED
  BY <1>1, <1>2, <1>3, <1>4, <1>5, <1>6, <1>7, <1>8, <1>9, <1>10, <1>11, <1>12, Zenon DEF Next, Finished

-----------------------------------------------------------------------------
(* Where the records come from.                                            *)

\* The record of key k that write w makes is that at time t.
Wrote(w, k, t) == calls[w].kind = "write" /\ k \in calls[w].keys /\ t = KeyTime(w, k)

\* Removal i may have taken record r, which a write that began before the removal
\* returned has made.
Took(i, r) ==
  /\ calls[i].kind = "remove"
  /\ Selected(calls[i].keys, r)
  /\ calls[i].end = 0 \/ r.val <= calls[i].end

EndsOK ==
  \A i \in 1..Len(calls) : /\ calls[i].end \in 0..Len(calls) /\ (calls[i].end # 0 => i <= calls[i].end)
                           /\ calls[i].state = "refused" => calls[i].kind = "write"

NumbersOK == \A i \in 1..Len(calls) : calls[i].query.cursor \in Nat /\ calls[i].query.until \in Nat

\* The clock never steps back.
TimesOK ==
  \A i \in 1..Len(calls) : calls[i].kind = "write" /\ calls[i].state # "refused" =>
    /\ calls[i].time \in 2..clock
    /\ calls[i].keys \subseteq Key
    /\ \A j \in 1..Len(calls) : i < j /\ calls[j].kind = "write" /\ calls[j].state # "refused"
         => calls[i].time <= calls[j].time

\* Record r, at time t, has been written by a call, and if removed then by one.
RecordOK(t, r) ==
  /\ Wrote(r.val, r.key, t)
  /\ r.removed = TRUE => \E i \in 1..Len(calls) : Took(i, r)

RecordsOK == \A t \in DOMAIN store : \A r \in {store[t]} : r.val # Foreign => RecordOK(t, r)

BatchesOK ==
  \A i \in DOMAIN requests : \A t \in DOMAIN requests[i].batch :
    LET b == requests[i].batch[t]
    IN  /\ calls[i].kind = "write" => Wrote(i, b.key, t) /\ b.removed = FALSE
        /\ calls[i].kind = "remove" => Took(i, b) /\ b.removed = TRUE

MarksOK ==
  \A i \in 1..Len(calls) : \A t \in calls[i].query.marked : Selected(calls[i].keys, store[t])

Placed == EndsOK /\ NumbersOK /\ TimesOK /\ RecordsOK /\ BatchesOK /\ MarksOK

\* A call keeps what the invariant says of it.
LEMMA GoesOn ==
  ASSUME IInv, Step, NEW i \in 1..Len(calls)
  PROVE  /\ i \in 1..Len(calls') /\ Len(calls) \in Nat /\ Len(calls') \in Nat /\ Len(calls) <= Len(calls')
         /\ calls'[i].kind = calls[i].kind /\ calls'[i].keys = calls[i].keys
         /\ calls[i].kind = "write" => calls'[i].time = calls[i].time
         /\ calls[i].end # 0 => calls'[i] = calls[i]
         /\ calls[i].end = 0 => calls'[i].end = 0 \/ calls'[i].end = Len(calls)
         /\ calls'[i].state = "refused" <=> calls[i].state = "refused"
         /\ OwnStep(i)
<1>1. Len(calls) \in Nat
  BY DEF IInv, CallsOK
<1>2. Len(calls') = Len(calls) \/ Len(calls') = Len(calls) + 1
  BY DEF Step
<1>3. Goes(calls[i], calls'[i], Len(calls)) /\ OwnStep(i)
  BY DEF Step
<1> QED
  BY <1>1, <1>2, <1>3 DEF Goes

LEMMA LastCall ==
  ASSUME IInv, Step, NEW i \in 1..Len(calls'), i \notin 1..Len(calls)
  PROVE  i = Len(calls) + 1 /\ Len(calls') = i /\ Starts(i) /\ Len(calls) \in Nat
<1>1. Len(calls) \in Nat
  BY DEF IInv, CallsOK
<1>2. Len(calls') = Len(calls) \/ (Len(calls') = Len(calls) + 1 /\ Starts(Len(calls) + 1))
  BY DEF Step
<1> QED
  BY <1>1, <1>2

LEMMA WroteKeeps ==
  ASSUME IInv, Step, NEW w \in 1..Len(calls), NEW k, NEW t
  PROVE  Wrote(w, k, t) <=> Wrote(w, k, t)'
<1>1. /\ calls'[w].kind = calls[w].kind /\ calls'[w].keys = calls[w].keys
      /\ calls[w].kind = "write" => calls'[w].time = calls[w].time
  BY GoesOn
<1> QED
  BY <1>1 DEF Wrote, KeyTime

LEMMA TookKeeps ==
  ASSUME IInv, Step, NEW i \in 1..Len(calls), NEW r, NEW q, Took(i, r),
         r.val \in 0..Len(calls), q.key = r.key, q.val = r.val
  PROVE  Took(i, q)' /\ i \in 1..Len(calls')
<1>1. calls'[i].kind = calls[i].kind /\ calls'[i].keys = calls[i].keys /\ i \in 1..Len(calls') /\ Len(calls) \in Nat
  BY GoesOn
<1>2. calls'[i].end = 0 \/ q.val <= calls'[i].end
  <2>1. calls[i].end # 0 => calls'[i].end = calls[i].end
    BY GoesOn
  <2>2. calls[i].end = 0 => calls'[i].end = 0 \/ calls'[i].end = Len(calls)
    BY GoesOn
  <2> QED
    BY <2>1, <2>2, <1>1 DEF Took
<1> QED
  BY <1>1, <1>2 DEF Took, Selected

LEMMA EndsKeep ==
  ASSUME IInv, Step, EndsOK
  PROVE  EndsOK'
<1> SUFFICES ASSUME NEW i \in 1..Len(calls')
             PROVE  /\ calls'[i].end \in 0..Len(calls') /\ (calls'[i].end # 0 => i <= calls'[i].end)
                    /\ calls'[i].state = "refused" => calls'[i].kind = "write"
  BY DEF EndsOK
<1>1. CASE i \in 1..Len(calls)
  BY <1>1, GoesOn DEF EndsOK
<1>2. CASE i \notin 1..Len(calls)
  BY <1>2, LastCall DEF Starts
<1> QED
  BY <1>1, <1>2

LEMMA TimesKeep ==
  ASSUME IInv, Step, TimesOK
  PROVE  TimesOK'
<1>1. /\ Len(calls') = Len(calls) => clock' = clock
      /\ Len(calls') # Len(calls) => Starts(Len(calls) + 1)
  BY DEF Step
<1>2. clock \in Nat /\ clock' \in Nat /\ clock <= clock' /\ 2 <= clock
  <2>1. clock \in Nat /\ 2 <= clock
    BY AttachmentsAssumption DEF IInv
  <2>2. clock' = clock \/ clock' \in clock..MaxTime
    BY <1>1 DEF Starts
  <2> QED
    BY <2>1, <2>2, AttachmentsAssumption
<1> SUFFICES ASSUME NEW i \in 1..Len(calls'), calls'[i].kind = "write", calls'[i].state # "refused"
             PROVE  /\ calls'[i].time \in 2..clock'
                    /\ calls'[i].keys \subseteq Key
                    /\ \A j \in 1..Len(calls') : i < j /\ calls'[j].kind = "write" /\ calls'[j].state # "refused"
                         => calls'[i].time <= calls'[j].time
  BY DEF TimesOK
<1>3. ASSUME NEW j \in 1..Len(calls'), j \notin 1..Len(calls), calls'[j].kind = "write", calls'[j].state # "refused"
      PROVE  j = Len(calls) + 1 /\ j = Len(calls') /\ calls'[j].time = clock' /\ calls'[j].keys \subseteq Key
  BY <1>3, LastCall DEF Starts
<1>4. ASSUME NEW j \in 1..Len(calls), calls'[j].kind = "write", calls'[j].state # "refused"
      PROVE  /\ calls[j].kind = "write" /\ calls[j].state # "refused"
             /\ calls'[j].time = calls[j].time /\ calls'[j].time \in 2..clock
             /\ calls'[j].keys \subseteq Key
  BY <1>4, GoesOn DEF TimesOK
<1>5. CASE i \in 1..Len(calls)
  <2>1. ASSUME NEW j \in 1..Len(calls'), i < j, calls'[j].kind = "write", calls'[j].state # "refused"
        PROVE  calls'[i].time <= calls'[j].time
    <3>1. CASE j \in 1..Len(calls)
      BY <2>1, <3>1, <1>4, <1>5 DEF TimesOK
    <3>2. CASE j \notin 1..Len(calls)
      BY <2>1, <3>2, <1>2, <1>3, <1>4, <1>5
    <3> QED
      BY <3>1, <3>2
  <2> QED
    BY <2>1, <1>2, <1>4, <1>5
<1>6. CASE i \notin 1..Len(calls)
  <2>1. i = Len(calls') /\ calls'[i].time = clock' /\ calls'[i].keys \subseteq Key
    BY <1>3, <1>6
  <2> QED
    BY <2>1, <1>2
<1> QED
  BY <1>5, <1>6

\* What the server does to the store.
LEMMA RecordAfter ==
  ASSUME Step, NEW t \in DOMAIN store'
  PROVE  \/ t \in DOMAIN store /\ store'[t] = store[t]
         \/ \E j \in DOMAIN requests : /\ t \in DOMAIN requests[j].batch
                                       /\ store'[t] = requests[j].batch[t]
                                       /\ calls[j].kind = "write" => t \notin DOMAIN store
<1>1. CASE store' = store
  BY <1>1
<1>2. ASSUME NEW j, NEW u, Takes(j, u, FALSE)
      PROVE  \/ t \in DOMAIN store /\ store'[t] = store[t]
             \/ /\ t \in DOMAIN requests[j].batch
                /\ store'[t] = requests[j].batch[t]
                /\ calls[j].kind = "write" => t \notin DOMAIN store
  <2>1. store' = With(store, u, requests[j].batch[u])
    BY <1>2 DEF Takes
  <2>2. /\ DOMAIN store' = DOMAIN store \cup {u}
        /\ store'[u] = requests[j].batch[u]
        /\ \A z \in DOMAIN store : z # u => store'[z] = store[z]
    BY <2>1 DEF With
  <2>3. u \in DOMAIN requests[j].batch /\ (calls[j].kind = "write" => u \notin DOMAIN store)
    BY <1>2 DEF Takes
  <2>4. t = u \/ (t \in DOMAIN store /\ t # u)
    BY <2>2
  <2> QED
    BY <2>2, <2>3, <2>4
<1> QED
  BY <1>1, <1>2 DEF Step, StoreStep, Takes

LEMMA RequestOfCall ==
  ASSUME IInv, NEW j \in DOMAIN requests
  PROVE  j \in 1..Len(calls) /\ RequestOK(j, calls[j], requests[j], store)
BY DEF IInv, RequestsOK

LEMMA RecordVal ==
  ASSUME IInv, NEW t \in DOMAIN store
  PROVE  /\ t \in Nat
         /\ store[t].val \in 0..Len(calls)
         /\ store[t].key \in Key \cup {NoKey}
         /\ store[t].removed \in BOOLEAN
         /\ store[t].val # Foreign => store[t].val \in 1..Len(calls) /\ calls[store[t].val].state # "refused"
         /\ store[t].val = Foreign => store[t].key = NoKey
<1>1. /\ t \in Nat
      /\ store[t] \in [key : Key \cup {NoKey}, val : 0..Len(calls), removed : BOOLEAN]
      /\ store[t].val = Foreign => store[t].key = NoKey
      /\ store[t].val # Foreign => calls[store[t].val].state # "refused"
  BY DEF IInv, StoreOK
<1> QED
  BY <1>1 DEF Foreign

LEMMA RecordsKeep ==
  ASSUME IInv, Step, RecordsOK, BatchesOK
  PROVE  RecordsOK'
<1> SUFFICES ASSUME NEW t \in DOMAIN store', NEW r, r = store'[t], r.val # Foreign
             PROVE  RecordOK(t, r)'
  BY DEF RecordsOK
<1>1. ASSUME r.val \in 1..Len(calls), RecordOK(t, r)
      PROVE  RecordOK(t, r)'
  <2>1. Wrote(r.val, r.key, t)'
    BY <1>1, WroteKeeps DEF RecordOK
  <2>2. ASSUME r.removed = TRUE PROVE \E i \in 1..Len(calls') : Took(i, r)'
    <3>1. PICK i \in 1..Len(calls) : Took(i, r)
      BY <1>1, <2>2 DEF RecordOK
    <3>2. r.val \in 0..Len(calls)
      BY <1>1
    <3> QED
      BY <3>1, <3>2, TookKeeps
  <2> QED
    BY <2>1, <2>2 DEF RecordOK
<1>2. r.val \in 1..Len(calls) /\ RecordOK(t, r)
  <2>1. CASE t \in DOMAIN store /\ r = store[t]
    BY <2>1, RecordVal DEF RecordsOK
  <2>2. ASSUME NEW j \in DOMAIN requests, t \in DOMAIN requests[j].batch, r = requests[j].batch[t]
        PROVE  r.val \in 1..Len(calls) /\ RecordOK(t, r)
    <3>1. j \in 1..Len(calls) /\ RequestOK(j, calls[j], requests[j], store)
      BY RequestOfCall
    <3>2. CASE calls[j].kind = "write"
      <4>1. r.val = j
        BY <2>2, <3>1, <3>2 DEF RequestOK
      <4>2. Wrote(j, r.key, t) /\ r.removed = FALSE
        BY <2>2, <3>2 DEF BatchesOK
      <4> QED
        BY <3>1, <4>1, <4>2 DEF RecordOK
    <3>3. CASE calls[j].kind = "remove"
      <4>1. t \in DOMAIN store /\ r.key = store[t].key /\ r.val = store[t].val
        BY <2>2, <3>1, <3>3 DEF RequestOK
      <4>2. r.val \in 1..Len(calls) /\ Wrote(r.val, r.key, t)
        BY <4>1, RecordVal DEF RecordsOK, RecordOK
      <4>3. Took(j, r)
        BY <2>2, <3>3 DEF BatchesOK
      <4> QED
        BY <3>1, <4>2, <4>3 DEF RecordOK
    <3> QED
      BY <3>1, <3>2, <3>3 DEF RequestOK
  <2> QED
    BY <2>1, <2>2, RecordAfter
<1> QED
  BY <1>1, <1>2

LEMMA StoreGrows ==
  ASSUME IInv, Step, BatchesOK
  PROVE  /\ Grows(store, store')
         /\ \A t \in DOMAIN store : store[t].removed = TRUE => store'[t].removed = TRUE
<1>1. CASE store' = store
  BY <1>1 DEF Grows
<1>2. ASSUME NEW j, NEW u, Takes(j, u, FALSE)
      PROVE  /\ Grows(store, store')
             /\ \A t \in DOMAIN store : store[t].removed = TRUE => store'[t].removed = TRUE
  <2>1. /\ j \in DOMAIN requests /\ u \in DOMAIN requests[j].batch
        /\ calls[j].kind = "write" => u \notin DOMAIN store
        /\ store' = With(store, u, requests[j].batch[u])
    BY <1>2 DEF Takes
  <2>2. Grows(store, store')
    BY <2>1, TakenRecord, Zenon
  <2>3. calls[j].kind = "write" \/ calls[j].kind = "remove"
    BY <2>1, RequestOfCall DEF RequestOK
  <2>4. u \in DOMAIN store => requests[j].batch[u].removed = TRUE
    BY <2>1, <2>3 DEF BatchesOK
  <2>5. \A t \in DOMAIN store : store'[t] = IF t = u THEN requests[j].batch[u] ELSE store[t]
    BY <2>1 DEF With
  <2> QED
    BY <2>2, <2>4, <2>5
<1> QED
  BY <1>1, <1>2 DEF Step, StoreStep

LEMMA BatchesKeep ==
  ASSUME IInv, Step, Placed
  PROVE  BatchesOK'
<1> SUFFICES ASSUME NEW i \in DOMAIN requests', NEW t \in DOMAIN requests'[i].batch,
                    NEW b, b = requests'[i].batch[t]
             PROVE  /\ calls'[i].kind = "write" => Wrote(i, b.key, t)' /\ b.removed = FALSE
                    /\ calls'[i].kind = "remove" => Took(i, b)' /\ b.removed = TRUE
  BY DEF BatchesOK
<1>1. ASSUME i \in DOMAIN requests, t \in DOMAIN requests[i].batch, b = requests[i].batch[t]
      PROVE  /\ calls'[i].kind = "write" => Wrote(i, b.key, t)' /\ b.removed = FALSE
             /\ calls'[i].kind = "remove" => Took(i, b)' /\ b.removed = TRUE
  <2>1. i \in 1..Len(calls) /\ RequestOK(i, calls[i], requests[i], store)
    BY <1>1, RequestOfCall
  <2>2. calls'[i].kind = calls[i].kind
    BY <2>1, GoesOn
  <2>3. CASE calls[i].kind = "write"
    <3>1. Wrote(i, b.key, t) /\ b.removed = FALSE
      BY <1>1, <2>3 DEF Placed, BatchesOK
    <3> QED
      BY <2>1, <2>2, <2>3, <3>1, WroteKeeps
  <2>4. CASE calls[i].kind = "remove"
    <3>1. Took(i, b) /\ b.removed = TRUE
      BY <1>1, <2>4 DEF Placed, BatchesOK
    <3>2. t \in DOMAIN store /\ b.val = store[t].val
      BY <1>1, <2>1, <2>4 DEF RequestOK
    <3>3. b.val \in 0..Len(calls)
      BY <3>2, RecordVal
    <3>4. Took(i, b)'
      BY <2>1, <3>1, <3>3, TookKeeps
    <3> QED
      BY <2>2, <2>4, <3>1, <3>4
  <2> QED
    BY <2>1, <2>3, <2>4 DEF RequestOK
<1>2. CASE i \in DOMAIN requests /\ requests'[i].batch = requests[i].batch
  BY <1>1, <1>2
<1>3. ASSUME NEW u, NEW rejected, Takes(i, u, rejected)
      PROVE  i \in DOMAIN requests /\ t \in DOMAIN requests[i].batch /\ b = requests[i].batch[t]
  BY <1>3 DEF Takes, Without, Restrict
<1>4. CASE i \in 1..Len(calls) /\ Sends(i)
  <2>1. calls[i].kind = "remove" /\ calls[i].end = 0 /\ calls[i].query.marked \subseteq DOMAIN store
    BY <1>4 DEF Sends, IInv, CallsOK, CallOK, QueryOK
  <2>2. calls'[i].kind = "remove"
    BY <1>4, <2>1, GoesOn
  <2>3. t \in calls[i].query.marked /\ b = [store[t] EXCEPT !.removed = TRUE]
    BY <1>4 DEF Sends, RemoveBatch
  <2>4. t \in DOMAIN store /\ store[t] \in [key : Key \cup {NoKey}, val : 0..Len(calls), removed : BOOLEAN]
    BY <2>1, <2>3 DEF IInv, StoreOK
  <2>5. PICK r : r = store[t]
    OBVIOUS
  <2>6. b.key = r.key /\ b.val = r.val /\ b.removed = TRUE /\ r.val \in 0..Len(calls)
    BY <2>3, <2>4, <2>5
  <2>7. Took(i, r)
    BY <1>4, <2>1, <2>3, <2>5 DEF Took, Placed, MarksOK
  <2>8. Took(i, b)'
    BY <1>4, <2>6, <2>7, TookKeeps
  <2> QED
    BY <2>2, <2>6, <2>8
<1>5. CASE Starts(i) /\ calls'[i].state = "request"
  <2>1. PICK keys, time : keys = calls'[i].keys /\ time = clock'
    OBVIOUS
  <2>2. /\ calls'[i].kind = "write" /\ keys \subseteq Key /\ time \in clock..MaxTime
        /\ calls'[i].time = time /\ requests'[i].batch = WriteBatch(time, keys, i)
    BY <1>5, <2>1 DEF Starts
  <2>3. time \in Nat
    BY <2>2, AttachmentsAssumption DEF IInv
  <2>4. b.key \in keys /\ t = Stamp(time, keys, b.key) /\ b.removed = FALSE
    <3>1. Batch(requests'[i].batch, time, keys, i)
      BY <2>2, <2>3, BatchOfWrite
    <3> QED
      BY <3>1 DEF Batch
  <2>5. Wrote(i, b.key, t)'
    BY <2>1, <2>2, <2>4 DEF Wrote, KeyTime
  <2> QED
    BY <2>2, <2>4, <2>5
<1> QED
  BY <1>1, <1>2, <1>3, <1>4, <1>5 DEF Step, BatchStep

LEMMA MarksKeep ==
  ASSUME IInv, Step, Placed
  PROVE  MarksOK'
<1> SUFFICES ASSUME NEW i \in 1..Len(calls'), NEW t \in calls'[i].query.marked
             PROVE  Selected(calls'[i].keys, store'[t])
  BY DEF MarksOK
<1>1. Grows(store, store')
  BY StoreGrows DEF Placed
<1>2. ASSUME NEW u \in DOMAIN store, NEW keys, Selected(keys, store[u])
      PROVE  Selected(keys, store'[u])
  BY <1>1, <1>2 DEF Grows, Selected
<1>3. ASSUME i \in 1..Len(calls) PROVE Selected(calls'[i].keys, store'[t])
  <2>1. calls'[i].keys = calls[i].keys
    BY <1>3, GoesOn
  <2>2. ASSUME NEW u \in calls[i].query.marked
        PROVE  u \in DOMAIN store /\ Selected(calls[i].keys, store[u])
    BY <1>3, <2>2 DEF Placed, MarksOK, IInv, CallsOK, CallOK, QueryOK
  <2>3. CASE t \in calls[i].query.marked
    BY <2>1, <2>2, <2>3, <1>2
  <2>4. ASSUME t \notin calls[i].query.marked, Selects(i)
        PROVE  Selected(calls'[i].keys, store'[t])
    <3>1. t \in DOMAIN store /\ Selected(calls[i].keys, store[t])
      BY <2>4 DEF Selects, Gives
    <3> QED
      BY <2>1, <3>1, <1>2
  <2>5. calls'[i].query = calls[i].query \/ Idle(calls'[i].query) \/ ReadsOn(i) \/ Selects(i)
    BY <1>3 DEF Step
  <2> QED
    BY <2>3, <2>4, <2>5 DEF Idle, ReadsOn
<1>4. CASE i \notin 1..Len(calls)
  BY <1>4, LastCall DEF Starts, Idle, NewQuery, Query
<1> QED
  BY <1>3, <1>4

LEMMA KeyTimeBound ==
  ASSUME NEW keys \in SUBSET Key, NEW k \in keys, NEW time \in Nat
  PROVE  Stamp(time, keys, k) \in Nat /\ time <= Stamp(time, keys, k) /\ Stamp(time, keys, k) <= time + Keys
<1> DEFINE A == {x \in keys : x < k}
<1>1. IsFiniteSet(Key) /\ Cardinality(Key) = Keys
  BY FS_Interval, AttachmentsAssumption DEF Key
<1>2. A \in SUBSET Key
  OBVIOUS
<1> HIDE DEF A
<1>3. Cardinality(A) \in Nat /\ Cardinality(A) <= Keys
  BY <1>1, <1>2, FS_Subset, FS_CardinalityType
<1> QED
  BY <1>3, AttachmentsAssumption DEF Stamp, A

LEMMA StoreBound ==
  ASSUME IInv, Placed, NEW t \in DOMAIN store
  PROVE  t \in Nat /\ t <= MaxTime + Keys
<1>1. MaxTime \in Nat /\ Keys \in Nat /\ MaxTime >= 1 /\ clock <= MaxTime /\ clock \in Nat
  BY AttachmentsAssumption DEF IInv
<1>2. CASE store[t].val = Foreign
  <2>1. t = 1
    BY <1>2 DEF IInv, StoreOK
  <2> QED
    BY <2>1, <1>1
<1>3. CASE store[t].val # Foreign
  <2>1. PICK w, k : w = store[t].val /\ k = store[t].key
    OBVIOUS
  <2>2. w \in 1..Len(calls) /\ calls[w].state # "refused" /\ Wrote(w, k, t)
    BY <1>3, <2>1, RecordVal DEF Placed, RecordsOK, RecordOK
  <2>3. calls[w].time \in 2..clock /\ calls[w].keys \in SUBSET Key /\ k \in calls[w].keys
    BY <2>2 DEF Placed, TimesOK, Wrote
  <2>4. calls[w].time \in Nat /\ calls[w].time <= MaxTime
    BY <2>3, <1>1
  <2>5. t = Stamp(calls[w].time, calls[w].keys, k)
    BY <2>2 DEF Wrote, KeyTime
  <2>6. t \in Nat /\ t <= calls[w].time + Keys
    BY <2>3, <2>4, <2>5, KeyTimeBound
  <2> QED
    BY <2>4, <2>6, <1>1
<1> QED
  BY <1>2, <1>3

\* A query gives at least what is stored when it begins.
LEMMA NewQueryReaches ==
  ASSUME IInv, Placed
  PROVE  /\ NewQuery.cursor = 0 /\ NewQuery.until \in Nat /\ NewQuery.left = FALSE
         /\ NewQuery.map = <<>> /\ NewQuery.marked = {}
         /\ \A t \in DOMAIN store : t \in Nat /\ t <= NewQuery.until
<1> DEFINE T == DOMAIN store \cup {0}
<1>1. T \subseteq Nat /\ T # {} /\ MaxTime + Keys \in Nat /\ \A t \in T : t <= MaxTime + Keys
  BY StoreBound, AttachmentsAssumption
<1>2. /\ NewQuery.cursor = 0 /\ NewQuery.until = Max(T) /\ NewQuery.left = FALSE
      /\ NewQuery.map = <<>> /\ NewQuery.marked = {}
  BY DEF NewQuery, Query
<1>3. \A t \in DOMAIN store : t \in T
  OBVIOUS
<1> HIDE DEF T
<1>4. Max(T) \in T /\ \A t \in T : t <= Max(T)
  BY <1>1, GreatestNumber
<1> QED
  BY <1>1, <1>2, <1>3, <1>4

LEMMA NumbersKeep ==
  ASSUME IInv, Step, Placed
  PROVE  NumbersOK'
<1> SUFFICES ASSUME NEW i \in 1..Len(calls')
             PROVE  calls'[i].query.cursor \in Nat /\ calls'[i].query.until \in Nat
  BY DEF NumbersOK
<1>1. CASE i \in 1..Len(calls)
  <2>1. calls'[i].query = calls[i].query \/ Idle(calls'[i].query) \/ ReadsOn(i) \/ Selects(i)
    BY <1>1 DEF Step
  <2>2. calls[i].query.cursor \in Nat /\ calls[i].query.until \in Nat
    BY <1>1 DEF Placed, NumbersOK
  <2>3. ASSUME NEW t, Gives(i, t) PROVE calls'[i].query.cursor \in Nat /\ calls'[i].query.until \in Nat
    BY <2>2, <2>3, RecordVal DEF Gives
  <2>4. ReadsOn(i) \/ Selects(i) => \E t : Gives(i, t)
    BY DEF ReadsOn, Selects
  <2>5. CASE Idle(calls'[i].query)
    BY <2>5 DEF Idle
  <2> QED
    BY <2>1, <2>2, <2>3, <2>4, <2>5
<1>2. CASE i \notin 1..Len(calls)
  BY <1>2, LastCall, NewQueryReaches DEF Starts, Idle
<1> QED
  BY <1>1, <1>2

LEMMA PlacedKeeps ==
  ASSUME IInv, Step, Placed
  PROVE  Placed'
BY EndsKeep, NumbersKeep, TimesKeep, RecordsKeep, BatchesKeep, MarksKeep DEF Placed

LEMMA InitPlaced == Init => Placed
<1> SUFFICES ASSUME Init PROVE Placed
  OBVIOUS
<1>1. calls = <<>> /\ Len(calls) = 0 /\ DOMAIN requests = {}
  BY DEF Init
<1>2. RecordsOK
  <2>1. store = <<Record(NoKey, Foreign)>> \/ store = <<>>
    BY DEF Init
  <2> QED
    BY <2>1 DEF RecordsOK, Record
<1> QED
  BY <1>1, <1>2 DEF Placed, EndsOK, NumbersOK, TimesOK, BatchesOK, MarksOK

-----------------------------------------------------------------------------
(* Removals.                                                               *)

\* Call v has written key k and returned no error.
Done(v, k) == calls[v].kind = "write" /\ calls[v].state = "ok" /\ k \in calls[v].keys

\* The record at time t is that of a write of k done before call r began.
Before(r, k, t) == \E v \in 1..Len(calls) : Done(v, k) /\ Precedes(v, r) /\ t = KeyTime(v, k)

\* Call j is a removal of key k.
Erases(j, k) == calls[j].kind = "remove" /\ (calls[j].keys = {} \/ k \in calls[j].keys)

\* Removal j, which has to find the record at time t, has not missed it.
Marked(j, t) ==
  /\ calls[j].state = "selecting" =>
       t <= calls[j].query.until /\ (t <= calls[j].query.cursor => t \in calls[j].query.marked)
  /\ calls[j].state = "request" =>
       requests[j].errors = TRUE \/ t \in DOMAIN requests[j].batch \/ store[t].removed = TRUE
  /\ calls[j].state = "ok" => store[t].removed = TRUE

Erased ==
  \A j \in 1..Len(calls), k \in Key, t \in DOMAIN store : Erases(j, k) /\ Before(j, k, t) => Marked(j, t)

\* A removal done before call r began has removed the record at time t.
Gone(r, k, t) ==
  \E j \in 1..Len(calls) : Erases(j, k) /\ calls[j].state = "ok" /\ Before(j, k, t) /\ Precedes(j, r)

\* The record of a write that is done.
LEMMA DoneStored ==
  ASSUME IInv, Placed, NEW v \in 1..Len(calls), NEW k \in Key, Done(v, k)
  PROVE  /\ KeyTime(v, k) \in DOMAIN store
         /\ store[KeyTime(v, k)].key = k /\ store[KeyTime(v, k)].val = v
         /\ KeyTime(v, k) \in Nat \ {0}
<1>1. Stored(v, k, store)
  BY DEF IInv, WriteOK, Done
<1>2. PICK t \in DOMAIN store : store[t].key = k /\ store[t].val = v
  BY <1>1 DEF Stored
<1>3. v # Foreign
  BY DEF Foreign
<1>4. RecordOK(t, store[t])
  BY <1>2, <1>3 DEF Placed, RecordsOK
<1>5. t = KeyTime(v, k)
  BY <1>2, <1>4 DEF RecordOK, Wrote
<1>6. t # 0
  <2>1. calls[v].time \in 2..clock /\ calls[v].keys \in SUBSET Key /\ k \in calls[v].keys
    BY DEF Placed, TimesOK, Done
  <2>2. calls[v].time \in Nat /\ calls[v].time >= 2
    BY <2>1
  <2>3. t = Stamp(calls[v].time, calls[v].keys, k)
    BY <1>5 DEF KeyTime
  <2>4. calls[v].time <= t /\ t \in Nat
    BY <2>1, <2>2, <2>3, KeyTimeBound
  <2> QED
    BY <2>2, <2>4
<1>7. t \in Nat
  BY RecordVal
<1> QED
  BY <1>2, <1>5, <1>6, <1>7

AllStored ==
  \A r, t : \A k \in Key : Before(r, k, t) => t \in DOMAIN store /\ store[t].key = k /\ t \in Nat \ {0}

LEMMA BeforeStored == IInv /\ Placed => AllStored
BY DoneStored DEF Before, AllStored

\* What was done before a call began is settled then.
LEMMA SettledCall ==
  ASSUME IInv, Step, NEW v, NEW r \in 1..Len(calls)
  PROVE  /\ v \in 1..Len(calls) /\ Precedes(v, r)
              => v \in 1..Len(calls') /\ calls'[v] = calls[v] /\ Precedes(v, r)'
         /\ v \in 1..Len(calls') /\ calls'[v].state = "ok" /\ Precedes(v, r)'
              => v \in 1..Len(calls) /\ calls'[v] = calls[v] /\ Precedes(v, r)
<1>1. ASSUME v \in 1..Len(calls), Precedes(v, r)
      PROVE  v \in 1..Len(calls') /\ calls'[v] = calls[v] /\ Precedes(v, r)'
  BY <1>1, GoesOn DEF Precedes
<1>2. ASSUME v \in 1..Len(calls'), calls'[v].state = "ok", Precedes(v, r)'
      PROVE  v \in 1..Len(calls) /\ calls'[v] = calls[v] /\ Precedes(v, r)
  <2>1. v \in 1..Len(calls)
    <3> SUFFICES ASSUME v \notin 1..Len(calls) PROVE FALSE
      OBVIOUS
    <3>1. Starts(v)
      BY <1>2, LastCall
    <3> QED
      BY <1>2, <3>1 DEF Starts
  <2>2. calls'[v].end # 0 /\ calls'[v].end < r /\ Len(calls) \in Nat
    BY <1>2, <2>1, GoesOn DEF Precedes
  <2>3. calls[v].end # 0
    <3> SUFFICES ASSUME calls[v].end = 0 PROVE FALSE
      OBVIOUS
    <3>1. calls'[v].end = Len(calls)
      BY <2>1, <2>2, GoesOn
    <3> QED
      BY <2>2, <3>1
  <2>4. calls'[v] = calls[v]
    BY <2>1, <2>3, GoesOn
  <2> QED
    BY <2>1, <2>2, <2>4 DEF Precedes
<1> QED
  BY <1>1, <1>2

LEMMA BeforeSettled ==
  ASSUME IInv, Step, NEW r \in 1..Len(calls), NEW k, NEW t
  PROVE  Before(r, k, t) <=> Before(r, k, t)'
<1>1. ASSUME Before(r, k, t) PROVE Before(r, k, t)'
  <2>1. PICK v \in 1..Len(calls) : Done(v, k) /\ Precedes(v, r) /\ t = KeyTime(v, k)
    BY <1>1 DEF Before
  <2>2. v \in 1..Len(calls') /\ calls'[v] = calls[v] /\ Precedes(v, r)'
    BY <2>1, SettledCall
  <2>3. Done(v, k)' /\ t = KeyTime(v, k)'
    BY <2>1, <2>2 DEF Done, KeyTime
  <2> QED
    BY <2>2, <2>3 DEF Before
<1>2. ASSUME Before(r, k, t)' PROVE Before(r, k, t)
  <2>1. PICK v \in 1..Len(calls') : Done(v, k)' /\ Precedes(v, r)' /\ t = KeyTime(v, k)'
    BY <1>2 DEF Before
  <2>2. calls'[v].state = "ok"
    BY <2>1 DEF Done
  <2>3. v \in 1..Len(calls) /\ calls'[v] = calls[v] /\ Precedes(v, r)
    BY <2>1, <2>2, SettledCall
  <2>4. Done(v, k) /\ t = KeyTime(v, k)
    BY <2>1, <2>3 DEF Done, KeyTime
  <2> QED
    BY <2>3, <2>4 DEF Before
<1> QED
  BY <1>1, <1>2

LEMMA GoneSettled ==
  ASSUME IInv, Step, NEW r \in 1..Len(calls), NEW k, NEW t, Gone(r, k, t)'
  PROVE  Gone(r, k, t)
<1>1. PICK j \in 1..Len(calls') : Erases(j, k)' /\ calls'[j].state = "ok" /\ Before(j, k, t)' /\ Precedes(j, r)'
  BY DEF Gone
<1>2. j \in 1..Len(calls) /\ calls'[j] = calls[j] /\ Precedes(j, r)
  BY <1>1, SettledCall
<1>3. Erases(j, k) /\ calls[j].state = "ok"
  BY <1>1, <1>2 DEF Erases
<1>4. Before(j, k, t)
  BY <1>1, <1>2, BeforeSettled
<1> QED
  BY <1>2, <1>3, <1>4 DEF Gone

LEMMA GoneRemoved ==
  ASSUME IInv, Placed, Erased, NEW r, NEW k \in Key, NEW t, Gone(r, k, t)
  PROVE  t \in DOMAIN store /\ store[t].removed = TRUE
<1>1. PICK j \in 1..Len(calls) : Erases(j, k) /\ calls[j].state = "ok" /\ Before(j, k, t)
  BY DEF Gone
<1>2. t \in DOMAIN store
  BY <1>1, BeforeStored DEF AllStored
<1> QED
  BY <1>1, <1>2 DEF Erased, Marked

\* A removal on its way has not missed anything after a step of its own.
LEMMA MarkedKeeps ==
  ASSUME IInv, IInv', Step, Placed, NEW j \in 1..Len(calls), NEW k \in Key, NEW t,
         Erases(j, k), Before(j, k, t), Marked(j, t)
  PROVE  Marked(j, t)'
<1>1. t \in DOMAIN store /\ store[t].key = k /\ t \in Nat
  BY BeforeStored DEF AllStored
<1>2. store[t].removed = TRUE => store'[t].removed = TRUE
  BY <1>1, StoreGrows DEF Placed
<1>3. calls[j].kind = "remove" /\ calls[j].state # "reading"
  BY DEF Erases, IInv, CallsOK, CallOK
<1>4. calls[j].query.cursor \in Nat /\ calls[j].query.until \in Nat
  BY DEF Placed, NumbersOK
<1>5. OwnStep(j) /\ j \in 1..Len(calls')
  BY GoesOn
<1>6. CASE calls'[j] = calls[j]
  <2>1. ASSUME calls'[j].state = "request"
        PROVE  requests'[j].errors = TRUE \/ t \in DOMAIN requests'[j].batch \/ store'[t].removed = TRUE
    <3>1. BatchStep(j)
      BY <1>5, <2>1 DEF IInv, RequestsOK, Step
    <3>2. requests[j].errors = TRUE \/ t \in DOMAIN requests[j].batch \/ store[t].removed = TRUE
      BY <1>6, <2>1 DEF Marked
    <3>3. ASSUME NEW u, NEW rejected, Takes(j, u, rejected)
          PROVE  requests'[j].errors = TRUE \/ t \in DOMAIN requests'[j].batch \/ store'[t].removed = TRUE
      <4>1. /\ j \in DOMAIN requests /\ u \in DOMAIN requests[j].batch
            /\ store' = IF rejected THEN store ELSE With(store, u, requests[j].batch[u])
            /\ requests'[j].batch = Without(requests[j].batch, u)
            /\ requests[j].errors = TRUE \/ rejected => requests'[j].errors = TRUE
        BY <1>6, <2>1, <3>3 DEF Takes
      <4>2. t # u /\ t \in DOMAIN requests[j].batch => t \in DOMAIN requests'[j].batch
        BY <4>1 DEF Without, Restrict
      <4>3. requests[j].batch[u].removed = TRUE
        BY <1>3, <4>1 DEF Placed, BatchesOK
      <4>4. ~rejected => store'[u].removed = TRUE
        BY <4>1, <4>3 DEF With
      <4> QED
        BY <1>2, <3>2, <4>1, <4>2, <4>4
    <3>4. CASE requests'[j] = requests[j]
      BY <1>2, <3>2, <3>4
    <3>5. ~Sends(j) /\ calls'[j].state # "error" /\ j # Len(calls) + 1
      <4>1. Len(calls) \in Nat
        BY GoesOn
      <4> QED
        BY <4>1, <1>6, <2>1 DEF Sends
    <3> QED
      BY <3>1, <3>3, <3>4, <3>5 DEF BatchStep
  <2> QED
    BY <1>2, <1>6, <2>1 DEF Marked
<1>7. CASE calls'[j].state = "error"
  BY <1>7 DEF Marked
<1>8. CASE Selects(j)
  <2>1. PICK u : /\ Gives(j, u)
                 /\ calls'[j].query.marked =
                      calls[j].query.marked \cup IF Selected(calls[j].keys, store[u]) THEN {u} ELSE {}
    BY <1>8 DEF Selects
  <2>2. /\ u \in DOMAIN store /\ u \in Nat
        /\ t > calls[j].query.cursor => u <= t
        /\ calls'[j].query.cursor = u /\ calls'[j].query.until = calls[j].query.until
    BY <1>1, <2>1, RecordVal DEF Gives
  <2>3. t <= calls[j].query.until /\ (t <= calls[j].query.cursor => t \in calls[j].query.marked)
    BY <1>8 DEF Marked, Selects
  <2>4. Selected(calls[j].keys, store[t])
    BY <1>1 DEF Erases, Selected
  <2>5. t <= u => t \in calls'[j].query.marked
    <3>1. CASE t <= calls[j].query.cursor
      BY <2>1, <2>3, <3>1
    <3>2. CASE t > calls[j].query.cursor /\ t <= u
      <4>1. t = u
        BY <1>1, <2>2, <3>2
      <4> QED
        BY <2>1, <2>4, <4>1
    <3> QED
      BY <3>1, <3>2, <1>1, <1>4
  <2>6. calls'[j].state = "selecting"
    BY <1>8 DEF Selects
  <2> QED
    BY <2>2, <2>3, <2>5, <2>6 DEF Marked
<1>9. ASSUME QueryComplete(j), calls[j].state = "selecting" PROVE t \in calls[j].query.marked
  BY <1>1, <1>4, <1>9 DEF QueryComplete, Marked
<1>10. CASE Sends(j)
  <2>1. t \in DOMAIN requests'[j].batch /\ calls'[j].state = "request"
    BY <1>9, <1>10 DEF Sends, RemoveBatch
  <2> QED
    BY <2>1 DEF Marked
<1>11. CASE SelectsNone(j)
  BY <1>9, <1>11 DEF SelectsNone
<1>12. CASE Answered(j)
  BY <1>2, <1>12 DEF Answered, Marked
<1>13. ~ReadsOn(j) /\ ~ReadsOut(j)
  BY <1>3 DEF ReadsOn, ReadsOut
<1> QED
  BY <1>5, <1>6, <1>7, <1>8, <1>10, <1>11, <1>12, <1>13 DEF OwnStep

LEMMA ErasedKeeps ==
  ASSUME IInv, IInv', Step, Placed, Placed', Erased
  PROVE  Erased'
<1> SUFFICES ASSUME NEW j \in 1..Len(calls'), NEW k \in Key, NEW t \in DOMAIN store',
                    Erases(j, k)', Before(j, k, t)'
             PROVE  Marked(j, t)'
  BY DEF Erased
<1>1. CASE j \in 1..Len(calls)
  <2>1. Before(j, k, t)
    BY <1>1, BeforeSettled
  <2>2. Erases(j, k)
    BY <1>1, GoesOn DEF Erases
  <2>3. t \in DOMAIN store
    BY <2>1, BeforeStored DEF AllStored
  <2>4. Marked(j, t)
    BY <1>1, <2>1, <2>2, <2>3 DEF Erased
  <2> QED
    BY <1>1, <2>1, <2>2, <2>4, MarkedKeeps
<1>2. CASE j \notin 1..Len(calls)
  <2>1. Starts(j)
    BY <1>2, LastCall
  <2>2. calls'[j].kind = "remove"
    BY DEF Erases
  <2>3. calls'[j].state = "selecting" /\ calls'[j].query = NewQuery /\ store' = store
    BY <2>1, <2>2 DEF Starts
  <2>4. NewQuery.cursor = 0 /\ t \in Nat /\ t <= NewQuery.until
    BY <2>3, NewQueryReaches
  <2>5. t # 0
    <3>1. (IInv /\ Placed => AllStored)'
      BY BeforeStored, PTL
    <3>2. AllStored'
      BY <3>1
    <3> QED
      BY <3>2 DEF AllStored
  <2> QED
    BY <2>3, <2>4, <2>5 DEF Marked
<1> QED
  BY <1>1, <1>2

-----------------------------------------------------------------------------
(* Reads.                                                                  *)

\* Read r has been given all the query gives up to time t.
Seen(r, t) == calls[r].state = "ok" \/ t <= calls[r].query.cursor

\* Of the records of k that r has been given, and of those done before it began,
\* the one at time T is the last.
Latest(r, k, T) ==
  /\ T \in DOMAIN store /\ store[T].key = k /\ Seen(r, T)
  /\ \A t \in DOMAIN store : Before(r, k, t) /\ Seen(r, t) => t <= T

\* The calls that may have had to do with read r.
Since(r) == IF calls[r].end = 0 THEN Len(calls) ELSE calls[r].end

Shown(r, k) ==
  /\ k \in DOMAIN calls[r].query.map
  /\ \E T \in DOMAIN store : \E q \in {store[T]} :
       Latest(r, k, T) /\ ~Gone(r, k, T) /\ q.val = calls[r].query.map[k] /\ q.val <= Since(r)

Absent(r, k) ==
  /\ k \notin DOMAIN calls[r].query.map
  /\ \/ \A t \in DOMAIN store : Before(r, k, t) => ~Seen(r, t)
     \/ \E T \in DOMAIN store : \E q \in {store[T]} :
          Latest(r, k, T) /\ q.removed = TRUE /\ \E i \in 1..Since(r) : Took(i, q)

ReadOK(r) ==
  /\ calls[r].query.left # TRUE
  /\ \A k \in Key :
       /\ calls[r].state = "reading" =>
            \A t \in DOMAIN store : Before(r, k, t) => t <= calls[r].query.until
       /\ Shown(r, k) \/ Absent(r, k)

Answers ==
  \A r \in 1..Len(calls) : calls[r].kind = "read" /\ calls[r].state \in {"reading", "ok"} => ReadOK(r)

ReadsOK == NoForeign => Answers

\* A step of read r that has not to do with key k.
Carries(r, k) ==
  /\ k \in DOMAIN calls'[r].query.map <=> k \in DOMAIN calls[r].query.map
  /\ k \in DOMAIN calls[r].query.map => calls'[r].query.map[k] = calls[r].query.map[k]
  /\ \A t \in DOMAIN store : Seen(r, t) => Seen(r, t)'
  /\ \A t \in DOMAIN store : Before(r, k, t) /\ Seen(r, t)' => Seen(r, t)
  /\ Since(r) \in Nat /\ Since(r)' \in Nat /\ Since(r) <= Since(r)' /\ Since(r) <= Len(calls)

LEMMA LatestKeeps ==
  ASSUME IInv, Step, Placed, NEW r \in 1..Len(calls), NEW k \in Key, Carries(r, k),
         NEW T, Latest(r, k, T)
  PROVE  Latest(r, k, T)'
<1>1. Grows(store, store')
  BY StoreGrows DEF Placed
<1>2. T \in DOMAIN store' /\ store'[T].key = k
  BY <1>1 DEF Latest, Grows
<1>3. Seen(r, T)'
  BY DEF Latest, Carries
<1>4. ASSUME NEW t \in DOMAIN store', Before(r, k, t)', Seen(r, t)' PROVE t <= T
  <2>1. Before(r, k, t)
    BY <1>4, BeforeSettled
  <2>2. t \in DOMAIN store
    BY <2>1, BeforeStored DEF AllStored
  <2>3. Seen(r, t)
    BY <1>4, <2>1, <2>2 DEF Carries
  <2> QED
    BY <2>1, <2>2, <2>3 DEF Latest
<1> QED
  BY <1>2, <1>3, <1>4 DEF Latest

LEMMA CarriesKeeps ==
  ASSUME IInv, Step, Placed, NEW r \in 1..Len(calls), NEW k \in Key, Carries(r, k),
         Shown(r, k) \/ Absent(r, k)
  PROVE  Shown(r, k)' \/ Absent(r, k)'
<1>1. /\ Grows(store, store')
      /\ \A t \in DOMAIN store : store[t].removed = TRUE => store'[t].removed = TRUE
  BY StoreGrows DEF Placed
<1>2. CASE Shown(r, k)
  <2>1. PICK T \in DOMAIN store :
          Latest(r, k, T) /\ ~Gone(r, k, T) /\ store[T].val = calls[r].query.map[k] /\ store[T].val <= Since(r)
    BY <1>2 DEF Shown
  <2>2. Latest(r, k, T)'
    BY <2>1, LatestKeeps
  <2>3. ~Gone(r, k, T)'
    BY <2>1, GoneSettled
  <2>4. T \in DOMAIN store' /\ store'[T].val = store[T].val
    BY <1>1 DEF Grows
  <2>5. store'[T].val <= Since(r)'
    BY <2>1, <2>4, RecordVal DEF Carries
  <2>6. k \in DOMAIN calls'[r].query.map /\ store'[T].val = calls'[r].query.map[k]
    BY <2>1, <2>4, <1>2 DEF Carries, Shown
  <2> QED
    BY <2>2, <2>3, <2>4, <2>5, <2>6 DEF Shown
<1>3. CASE Absent(r, k)
  <2>1. k \notin DOMAIN calls'[r].query.map
    BY <1>3 DEF Absent, Carries
  <2>2. CASE \A t \in DOMAIN store : Before(r, k, t) => ~Seen(r, t)
    <3>1. ASSUME NEW t \in DOMAIN store', Before(r, k, t)' PROVE ~Seen(r, t)'
      <4>1. Before(r, k, t)
        BY <3>1, BeforeSettled
      <4>2. t \in DOMAIN store
        BY <4>1, BeforeStored DEF AllStored
      <4> QED
        BY <4>1, <4>2, <2>2 DEF Carries
    <3> QED
      BY <2>1, <3>1 DEF Absent
  <2>3. ASSUME NEW T \in DOMAIN store, Latest(r, k, T), store[T].removed = TRUE,
               NEW i \in 1..Since(r), Took(i, store[T])
        PROVE  Absent(r, k)'
    <3>1. Latest(r, k, T)'
      BY <2>3, LatestKeeps
    <3>2. PICK a, b : a = store[T] /\ b = store'[T]
      OBVIOUS
    <3>3. T \in DOMAIN store' /\ b.key = a.key /\ b.val = a.val /\ b.removed = TRUE
      BY <1>1, <2>3, <3>2 DEF Grows
    <3>4. i \in 1..Len(calls) /\ i \in 1..Since(r)'
      BY GoesOn DEF Carries
    <3>5. Took(i, a) /\ a.val \in 0..Len(calls)
      BY <2>3, <3>2, RecordVal
    <3>6. Took(i, b)'
      BY <3>3, <3>4, <3>5, TookKeeps
    <3> QED
      BY <2>1, <3>1, <3>2, <3>3, <3>4, <3>6 DEF Absent
  <2> QED
    BY <1>3, <2>2, <2>3 DEF Absent
<1> QED
  BY <1>2, <1>3

\* The record that read r is given next.
LEMMA GivenKeeps ==
  ASSUME IInv, IInv', Step, Placed, Placed', Erased, NoForeign, NEW r \in 1..Len(calls), ReadsOn(r),
         ReadOK(r), NEW k \in Key
  PROVE  Shown(r, k)' \/ Absent(r, k)'
<1>1. PICK T : /\ Gives(r, T)
               /\ store[T].key # NoKey /\ calls[r].query.left # TRUE
                    => /\ calls'[r].query.left # TRUE
                       /\ calls'[r].query.map = Replay(calls[r].query.map, store[T], store[T].val)
  BY DEF ReadsOn
<1> DEFINE map == calls[r].query.map
<1>2. /\ T \in DOMAIN store /\ store[T].key # NoKey /\ store' = store
      /\ calls'[r].query.map = Replay(map, store[T], store[T].val)
  BY <1>1 DEF Gives, NoForeign, ReadOK
<1>3. /\ calls[r].state = "reading" /\ calls'[r].state = "reading"
      /\ calls[r].end = 0 /\ calls'[r].end = 0 /\ r \in 1..Len(calls')
      /\ Len(calls) \in Nat /\ Len(calls') \in Nat /\ Len(calls) <= Len(calls')
  <2>1. calls[r].state = "reading" /\ calls'[r].state = "reading" /\ r \in 1..Len(calls')
    BY GoesOn DEF ReadsOn
  <2>2. CallOK(calls[r], store) /\ CallOK(calls'[r], store')
    BY <2>1 DEF IInv, CallsOK
  <2> QED
    BY <2>1, <2>2, GoesOn DEF CallOK
<1>4. calls[r].query.cursor \in Nat /\ T \in Nat /\ T > calls[r].query.cursor /\ calls'[r].query.cursor = T
  BY <1>1, RecordVal DEF Gives, Placed, NumbersOK
<1>5. /\ \A t : Seen(r, t) <=> t <= calls[r].query.cursor
      /\ \A t : Seen(r, t)' <=> t <= T
  BY <1>3, <1>4 DEF Seen
<1>6. Since(r) = Len(calls) /\ Since(r)' = Len(calls')
  BY <1>3 DEF Since
<1>7. CASE store[T].key = k
  <2>1. Latest(r, k, T)'
    BY <1>2, <1>4, <1>5, <1>7 DEF Latest
  <2>2. PICK q : q = store[T] /\ q = store'[T]
    BY <1>2
  <2>3. q.key = k /\ q.val # Foreign /\ q.val \in 1..Len(calls) /\ q.removed \in BOOLEAN
    BY <1>2, <1>7, <2>2, RecordVal
  <2>4. CASE q.removed = TRUE
    <3>1. k \notin DOMAIN calls'[r].query.map
      BY <1>2, <1>7, <2>2, <2>4 DEF Replay, Without, Restrict
    <3>2. RecordOK(T, q)'
      BY <1>2, <2>2, <2>3 DEF Placed, RecordsOK
    <3>3. PICK i \in 1..Len(calls') : Took(i, q)'
      BY <2>4, <3>2 DEF RecordOK
    <3> QED
      BY <1>2, <1>6, <2>1, <2>2, <2>4, <3>1, <3>3 DEF Absent
  <2>5. CASE q.removed = FALSE
    <3>1. k \in DOMAIN calls'[r].query.map /\ calls'[r].query.map[k] = q.val
      BY <1>2, <1>7, <2>2, <2>5 DEF Replay, With
    <3>2. ~Gone(r, k, T)'
      <4>1. ~Gone(r, k, T)
        BY <2>2, <2>5, GoneRemoved
      <4> QED
        BY <4>1, GoneSettled
    <3>3. q.val <= Since(r)'
      BY <1>3, <1>6, <2>3
    <3> QED
      BY <1>2, <2>1, <2>2, <3>1, <3>2, <3>3 DEF Shown
  <2> QED
    BY <2>3, <2>4, <2>5
<1>8. CASE store[T].key # k
  <2>1. /\ k \in DOMAIN calls'[r].query.map <=> k \in DOMAIN map
        /\ k \in DOMAIN map => calls'[r].query.map[k] = map[k]
    BY <1>2, <1>8 DEF Replay, With, Without, Restrict
  <2>2. \A t \in DOMAIN store : Seen(r, t) => Seen(r, t)'
    BY <1>4, <1>5, RecordVal
  <2>3. ASSUME NEW t \in DOMAIN store, Before(r, k, t), Seen(r, t)' PROVE Seen(r, t)
    <3>1. t \in Nat /\ store[t].key = k /\ t <= T
      BY <2>3, <1>5, BeforeStored DEF AllStored
    <3>2. t # T
      BY <3>1, <1>8
    <3>3. t > calls[r].query.cursor => T <= t
      BY <1>1 DEF Gives
    <3> QED
      BY <1>4, <1>5, <3>1, <3>2, <3>3
  <2>4. Carries(r, k)
    BY <1>3, <1>6, <2>1, <2>2, <2>3 DEF Carries
  <2> QED
    BY <2>4, CarriesKeeps DEF ReadOK
<1> QED
  BY <1>7, <1>8

LEMMA ReadKeeps ==
  ASSUME IInv, IInv', Step, Placed, Placed', Erased, NoForeign, NEW r \in 1..Len(calls),
         calls[r].kind = "read", calls[r].state \in {"reading", "ok"} => ReadOK(r),
         calls'[r].state \in {"reading", "ok"}
  PROVE  ReadOK(r)'
<1>1. /\ OwnStep(r) /\ r \in 1..Len(calls')
      /\ Len(calls) \in Nat /\ Len(calls') \in Nat /\ Len(calls) <= Len(calls')
  BY GoesOn
<1>2. calls[r].state # "selecting" /\ calls[r].state # "request"
  BY DEF IInv, CallsOK, CallOK, RequestsOK, RequestOK
<1>3. calls'[r] = calls[r] \/ ReadsOn(r) \/ ReadsOut(r)
  BY <1>1, <1>2 DEF OwnStep, Selects, Sends, SelectsNone, Answered
<1>4. ReadOK(r)
  BY <1>3 DEF ReadsOn, ReadsOut
<1>5. calls[r].end \in 0..Len(calls) /\ calls'[r].end \in 0..Len(calls')
  BY <1>1 DEF Placed, EndsOK
<1>6. calls[r].state = "reading" => calls[r].end = 0
  BY DEF IInv, CallsOK, CallOK
<1>7. ASSUME NEW k \in Key, NEW t \in DOMAIN store', Before(r, k, t)'
      PROVE  Before(r, k, t) /\ t \in DOMAIN store /\ t \in Nat
  <2>1. Before(r, k, t)
    BY <1>7, BeforeSettled
  <2> QED
    BY <2>1, BeforeStored DEF AllStored
<1>8. CASE calls'[r] = calls[r]
  <2>1. Since(r) \in Nat /\ Since(r)' \in Nat /\ Since(r) <= Since(r)' /\ Since(r) <= Len(calls)
    BY <1>1, <1>5, <1>8 DEF Since
  <2>2. \A t : Seen(r, t)' <=> Seen(r, t)
    BY <1>8 DEF Seen
  <2>3. \A k \in Key : Carries(r, k)
    BY <1>8, <2>1, <2>2 DEF Carries
  <2>4. \A k \in Key : Shown(r, k)' \/ Absent(r, k)'
    BY <1>4, <2>3, CarriesKeeps DEF ReadOK
  <2> QED
    BY <1>4, <1>7, <1>8, <2>4 DEF ReadOK
<1>9. CASE ReadsOn(r)
  <2>1. \A k \in Key : Shown(r, k)' \/ Absent(r, k)'
    BY <1>4, <1>9, GivenKeeps
  <2>2. PICK T : /\ Gives(r, T)
                 /\ store[T].key # NoKey /\ calls[r].query.left # TRUE => calls'[r].query.left # TRUE
    BY <1>9 DEF ReadsOn
  <2>3. calls'[r].query.left # TRUE /\ calls'[r].query.until = calls[r].query.until /\ calls[r].state = "reading"
    BY <1>4, <1>9, <2>2 DEF Gives, NoForeign, ReadOK, ReadsOn
  <2> QED
    BY <1>4, <1>7, <2>1, <2>3 DEF ReadOK
<1>10. CASE ReadsOut(r)
  <2>1. Since(r) \in Nat /\ Since(r)' \in Nat /\ Since(r) <= Since(r)' /\ Since(r) <= Len(calls)
    BY <1>1, <1>5, <1>6, <1>10 DEF Since, ReadsOut
  <2>2. calls[r].query.cursor \in Nat /\ calls[r].query.until \in Nat
    BY DEF Placed, NumbersOK
  <2>3. ASSUME NEW k \in Key, NEW t \in DOMAIN store, Before(r, k, t) PROVE Seen(r, t)
    <3>1. t \in Nat /\ t <= calls[r].query.until
      BY <2>3, <1>4, <1>10, RecordVal DEF ReadOK, ReadsOut
    <3>2. t > calls[r].query.cursor => t > calls[r].query.until
      BY <1>10 DEF ReadsOut, QueryComplete
    <3> QED
      BY <2>2, <3>1, <3>2 DEF Seen
  <2>4. \A t : Seen(r, t)'
    BY <1>10 DEF Seen, ReadsOut
  <2>5. \A k \in Key : Carries(r, k)
    BY <1>10, <2>1, <2>3, <2>4 DEF Carries, ReadsOut
  <2>6. \A k \in Key : Shown(r, k)' \/ Absent(r, k)'
    BY <1>4, <2>5, CarriesKeeps DEF ReadOK
  <2> QED
    BY <1>10, <2>6 DEF ReadOK, ReadsOut
<1> QED
  BY <1>3, <1>8, <1>9, <1>10

LEMMA ReadsKeep ==
  ASSUME IInv, IInv', Step, Placed, Placed', Erased, ReadsOK
  PROVE  ReadsOK'
<1> SUFFICES ASSUME NoForeign', NEW r \in 1..Len(calls'), calls'[r].kind = "read",
                    calls'[r].state \in {"reading", "ok"}
             PROVE  ReadOK(r)'
  BY DEF ReadsOK, Answers
<1>1. NoForeign
  <2>1. Grows(store, store')
    BY StoreGrows DEF Placed
  <2> QED
    BY <2>1 DEF Grows, NoForeign
<1>2. Answers
  BY <1>1 DEF ReadsOK
<1>3. CASE r \in 1..Len(calls)
  <2>1. calls[r].kind = "read"
    BY <1>3, GoesOn
  <2>2. calls[r].state \in {"reading", "ok"} => ReadOK(r)
    BY <1>2, <1>3, <2>1 DEF Answers
  <2> QED
    BY <1>1, <1>3, <2>1, <2>2, ReadKeeps
<1>4. CASE r \notin 1..Len(calls)
  <2>1. Starts(r)
    BY <1>4, LastCall
  <2>2. calls'[r].state = "reading" /\ calls'[r].query = NewQuery /\ store' = store
    BY <2>1 DEF Starts
  <2>3. /\ NewQuery.cursor = 0 /\ NewQuery.left = FALSE /\ NewQuery.map = <<>>
        /\ \A t \in DOMAIN store : t \in Nat /\ t <= NewQuery.until
    BY NewQueryReaches
  <2>4. (IInv /\ Placed => AllStored)'
    BY BeforeStored, PTL
  <2>5. AllStored'
    BY <2>4
  <2>6. ASSUME NEW k \in Key, NEW t \in DOMAIN store', Before(r, k, t)' PROVE ~Seen(r, t)'
    <3>1. t \in Nat \ {0}
      BY <2>5, <2>6 DEF AllStored
    <3> QED
      BY <3>1, <2>2, <2>3 DEF Seen
  <2>7. \A k \in Key : Absent(r, k)'
    <3>1. DOMAIN <<>> = {}
      OBVIOUS
    <3> QED
      BY <3>1, <2>2, <2>3, <2>6 DEF Absent
  <2> QED
    BY <2>2, <2>3, <2>7 DEF ReadOK
<1> QED
  BY <1>3, <1>4

-----------------------------------------------------------------------------
(* What a read returns.                                                    *)

\* The times of a write have no gaps.
LEMMA StampsAdjoin ==
  ASSUME NEW keys \in SUBSET Key, NEW k \in keys, NEW time \in Nat, NEW t \in Nat,
         time <= t, t <= Stamp(time, keys, k)
  PROVE  \E l \in keys : t = Stamp(time, keys, l)
<1> DEFINE S == {l \in keys : t <= Stamp(time, keys, l)}
           m == Min(S)
<1>1. \A l \in keys : l \in Nat /\ l <= Keys /\ Stamp(time, keys, l) \in Nat
  BY StampInNat, AttachmentsAssumption DEF Key
<1>2. S \subseteq Nat /\ S # {}
  BY <1>1
<1>3. m \in S /\ \A l \in S : m <= l
  BY <1>2, LeastNumber
<1>4. m \in keys /\ t <= Stamp(time, keys, m) /\ \A l \in keys : t <= Stamp(time, keys, l) => m <= l
  BY <1>3
<1> HIDE DEF m, S
<1>5. t = Stamp(time, keys, m)
  <2> SUFFICES ASSUME t < Stamp(time, keys, m) PROVE FALSE
    BY <1>1, <1>4
  <2> DEFINE A == {x \in keys : x < m}
  <2>1. IsFiniteSet(Key)
    BY FS_Interval, AttachmentsAssumption DEF Key
  <2>2. A # {}
    <3> SUFFICES ASSUME A = {} PROVE FALSE
      OBVIOUS
    <3>1. Cardinality(A) = 0
      BY FS_EmptySet
    <3>2. Stamp(time, keys, m) = time + Cardinality(A)
      BY DEF Stamp
    <3> HIDE DEF A
    <3>3. Stamp(time, keys, m) = time
      BY <3>1, <3>2
    <3> QED
      BY <3>3
  <2>3. A \subseteq Nat /\ Keys \in Nat /\ \A x \in A : x <= Keys
    BY <1>1, AttachmentsAssumption
  <2> DEFINE p == Max(A)
  <2>4. p \in A /\ \A x \in A : x <= p
    <3> HIDE DEF A
    <3> QED
      BY <2>2, <2>3, GreatestNumber
  <2>5. p \in keys /\ p < m /\ p \in Nat /\ \A x \in keys : x < m => x <= p
    BY <2>4, <1>1
  <2> HIDE DEF p
  <2> DEFINE B == {x \in keys : x < p}
  <2>6. A = B \cup {p} /\ p \notin B
    <3>1. \A x \in keys : x \in Nat /\ m \in Nat
      BY <1>1, <1>4
    <3>2. \A x \in keys : x < m <=> (x < p \/ x = p)
      BY <2>5, <3>1
    <3>3. p \in keys /\ ~(p < p)
      BY <2>5
    <3>4. ASSUME NEW x PROVE x \in A <=> x \in B \cup {p}
      BY <3>2, <3>3, Zenon
    <3>5. p \notin B
      BY <3>3
    <3> HIDE DEF A, B
    <3> QED
      BY <3>4, <3>5
  <2>7. IsFiniteSet(B)
    <3>1. B \in SUBSET Key
      OBVIOUS
    <3> QED
      BY <2>1, <3>1, FS_Subset
  <2>8. Stamp(time, keys, m) = time + Cardinality(A) /\ Stamp(time, keys, p) = time + Cardinality(B)
    BY DEF Stamp
  <2> HIDE DEF A, B
  <2>9. Cardinality(A) = Cardinality(B) + 1 /\ Cardinality(B) \in Nat
    BY <2>6, <2>7, FS_AddElement, FS_CardinalityType
  <2>10. t <= Stamp(time, keys, p)
    BY <2>8, <2>9
  <2> QED
    BY <1>4, <1>1, <2>5, <2>10
<1> QED
  BY <1>4, <1>5

\* Of two writes of a key that are done the later bears the later time.
LEMMA WriteOrder ==
  ASSUME IInv, Placed, NEW v \in 1..Len(calls), NEW j \in 1..Len(calls), v < j,
         NEW k \in Key, Done(v, k), Done(j, k)
  PROVE  KeyTime(v, k) < KeyTime(j, k)
<1>1. /\ calls[v].keys \in SUBSET Key /\ calls[j].keys \in SUBSET Key
      /\ calls[v].time \in Nat /\ calls[j].time \in Nat /\ calls[v].time <= calls[j].time
  <2>1. calls[v].time \in 2..clock /\ calls[j].time \in 2..clock /\ calls[v].time <= calls[j].time
    BY DEF Placed, TimesOK, Done
  <2>2. calls[v].time \in Nat /\ calls[j].time \in Nat
    BY <2>1
  <2> QED
    BY <2>1, <2>2 DEF Placed, TimesOK, Done
<1>2. k \in calls[v].keys /\ k \in calls[j].keys
  BY DEF Done
<1>3. KeyTime(j, k) \in Nat /\ calls[j].time <= KeyTime(j, k) /\ KeyTime(v, k) \in Nat
  BY <1>1, <1>2, KeyTimeBound DEF KeyTime
<1> SUFFICES ASSUME KeyTime(j, k) <= KeyTime(v, k) PROVE FALSE
  BY <1>3
<1>4. PICK l \in calls[v].keys : KeyTime(j, k) = KeyTime(v, l)
  <2> DEFINE t == KeyTime(j, k)
  <2>1. t \in Nat /\ calls[v].time <= t /\ t <= Stamp(calls[v].time, calls[v].keys, k)
    BY <1>1, <1>3 DEF KeyTime
  <2> HIDE DEF t
  <2>2. \E l \in calls[v].keys : t = Stamp(calls[v].time, calls[v].keys, l)
    BY <1>1, <1>2, <2>1, StampsAdjoin
  <2> QED
    BY <2>2 DEF t, KeyTime
<1>5. l \in Key /\ Done(v, l)
  BY <1>1 DEF Done
<1>6. store[KeyTime(v, l)].val = v
  BY <1>5, DoneStored
<1>7. store[KeyTime(j, k)].val = j
  BY DoneStored
<1> QED
  BY <1>4, <1>6, <1>7

\* The write of a record in the store.
LEMMA Author ==
  ASSUME IInv, Placed, NEW T \in DOMAIN store, NEW k \in Key, store[T].key = k, NEW w, w = store[T].val
  PROVE  /\ w \in 1..Len(calls) /\ calls[w].kind = "write" /\ k \in calls[w].keys
         /\ calls[w].state # "refused" /\ T = KeyTime(w, k) /\ Changes(w, k)
<1>1. \A l \in Key : l # NoKey
  BY AttachmentsAssumption DEF Key, NoKey
<1>2. w # Foreign
  BY <1>1, RecordVal
<1>3. w \in 1..Len(calls) /\ calls[w].state # "refused"
  BY <1>2, RecordVal
<1>4. Wrote(w, k, T)
  BY <1>2 DEF Placed, RecordsOK, RecordOK
<1> QED
  BY <1>3, <1>4 DEF Wrote, Changes

LEMMA ChangesHow ==
  ASSUME NEW j, NEW k
  PROVE  Changes(j, k) <=> /\ calls[j].state # "refused"
                           /\ \/ calls[j].kind = "write" /\ k \in calls[j].keys
                              \/ Erases(j, k)
BY DEF Changes, Erases, Selected, Record

LEMMA DoneEnds ==
  ASSUME IInv, Placed, NEW i \in 1..Len(calls)
  PROVE  /\ calls[i].end \in 0..Len(calls)
         /\ calls[i].state \in {"ok", "error", "refused"} <=> calls[i].end # 0
         /\ calls[i].end # 0 => i <= calls[i].end
<1>1. CallOK(calls[i], store)
  BY DEF IInv, CallsOK
<1> QED
  BY <1>1 DEF CallOK, Placed, EndsOK

\* The record a read has been left with is no older than any write of the key
\* done before the read began.
LEMMA LatestIsLast ==
  ASSUME IInv, Placed, NEW r \in 1..Len(calls), calls[r].state = "ok", NEW k \in Key, NEW T, Latest(r, k, T),
         NEW j \in 1..Len(calls), Done(j, k), Precedes(j, r)
  PROVE  KeyTime(j, k) <= T /\ KeyTime(j, k) \in Nat /\ T \in Nat
<1>1. KeyTime(j, k) \in DOMAIN store /\ KeyTime(j, k) \in Nat
  BY DoneStored
<1>2. Before(r, k, KeyTime(j, k)) /\ Seen(r, KeyTime(j, k))
  BY DEF Before, Seen
<1>3. T \in Nat
  BY RecordVal DEF Latest
<1> QED
  BY <1>1, <1>2, <1>3 DEF Latest

\* No write hides the call that has had the last say on the record.
LEMMA NoWriteHides ==
  ASSUME IInv, Placed, NEW r \in 1..Len(calls), calls[r].state = "ok", NEW k \in Key, NEW T, Latest(r, k, T),
         NEW w \in 1..Len(calls), Wrote(w, k, T), calls[w].state # "refused",
         NEW i \in 1..Len(calls), w <= calls[i].end, w \in Sources(i, k),
         NEW j \in 1..Len(calls), calls[j].kind = "write", Changes(j, k), calls[j].state = "ok",
         Precedes(i, j), Precedes(j, r)
  PROVE  ~ \A v \in Sources(i, k) : calls[v].state # "ok" => KeyTime(v, k) < KeyTime(j, k)
<1> SUFFICES ASSUME \A v \in Sources(i, k) : calls[v].state # "ok" => KeyTime(v, k) < KeyTime(j, k)
             PROVE  FALSE
  OBVIOUS
<1>1. Done(j, k)
  BY DEF Changes, Done
<1>2. KeyTime(j, k) <= T /\ KeyTime(j, k) \in Nat /\ T \in Nat
  BY <1>1, LatestIsLast
<1>3. T = KeyTime(w, k)
  BY DEF Wrote
<1>4. calls[w].state = "ok"
  BY <1>2, <1>3
<1>5. w < j
  BY DoneEnds DEF Precedes
<1>6. Done(w, k)
  BY <1>4 DEF Done, Wrote
<1>7. KeyTime(w, k) < KeyTime(j, k)
  BY <1>1, <1>5, <1>6, WriteOrder
<1> QED
  BY <1>2, <1>3, <1>7

\* The value a read returns is that of a write it may return.
LEMMA ShownIsVisible ==
  ASSUME IInv, Placed, NEW r \in 1..Len(calls), calls[r].state = "ok", NEW k \in Key, Shown(r, k)
  PROVE  /\ k \in DOMAIN calls[r].query.map
         /\ calls[calls[r].query.map[k]].kind = "write"
         /\ Visible(calls[r].query.map[k], k, r)
<1>1. PICK T \in DOMAIN store : /\ Latest(r, k, T) /\ ~Gone(r, k, T)
                                /\ store[T].val = calls[r].query.map[k] /\ store[T].val <= Since(r)
  BY DEF Shown
<1> DEFINE v == calls[r].query.map[k]
<1>2. /\ v \in 1..Len(calls) /\ calls[v].kind = "write" /\ k \in calls[v].keys
      /\ calls[v].state # "refused" /\ T = KeyTime(v, k) /\ Changes(v, k)
  <2>1. store[T].key = k /\ v = store[T].val
    BY <1>1 DEF Latest
  <2> HIDE DEF v
  <2> QED
    BY <1>1, <2>1, Author
<1>3. v <= calls[r].end
  BY <1>1, DoneEnds DEF Since
<1> HIDE DEF v
<1>4. ~Hidden(v, k, r)
  <2> SUFFICES ASSUME NEW j \in 1..Len(calls), Changes(j, k), calls[j].state = "ok",
                      Precedes(v, j), Precedes(j, r),
                      IF calls[j].kind = "write"
                      THEN \A w \in Sources(v, k) : calls[w].state # "ok" => KeyTime(w, k) < KeyTime(j, k)
                      ELSE calls[v].kind = "write" => calls[v].state = "ok"
               PROVE  FALSE
    BY DEF Hidden
  <2>1. CASE calls[j].kind = "write"
    <3>1. v \in Sources(v, k) /\ Wrote(v, k, T) /\ Latest(r, k, T)
      BY <1>1, <1>2 DEF Sources, Wrote
    <3>2. v <= calls[v].end
      BY <1>2, DoneEnds DEF Precedes
    <3> QED
      BY <1>2, <2>1, <3>1, <3>2, NoWriteHides
  <2>2. CASE calls[j].kind # "write"
    <3>1. Erases(j, k) /\ Done(v, k)
      BY <1>2, <2>2, ChangesHow DEF Done
    <3>2. Before(j, k, T)
      BY <1>2, <3>1 DEF Before
    <3> QED
      BY <1>1, <3>1, <3>2 DEF Gone
  <2> QED
    BY <2>1, <2>2
<1> QED
  BY <1>1, <1>2, <1>3, <1>4 DEF Shown, Visible, v

\* If a read leaves a key out since the record was removed, a removal it may
\* have seen did that: the last to begin of those that may have.
LEMMA RemovedIsVisible ==
  ASSUME IInv, Placed, NEW r \in 1..Len(calls), calls[r].state = "ok", NEW k \in Key,
         NEW T \in DOMAIN store, Latest(r, k, T), NEW i0 \in 1..Since(r), Took(i0, store[T]),
         store[T].val # Foreign
  PROVE  \E i \in 1..Len(calls) : calls[i].kind = "remove" /\ Visible(i, k, r)
<1> DEFINE w == store[T].val
           I == {i \in 1..calls[r].end : Erases(i, k) /\ (calls[i].end = 0 \/ w <= calls[i].end)}
           m == Max(I)
<1>1. calls[r].end \in 1..Len(calls) /\ Since(r) = calls[r].end
  BY DoneEnds DEF Since
<1>2. /\ w \in 1..Len(calls) /\ calls[w].kind = "write" /\ Wrote(w, k, T)
      /\ calls[w].state # "refused" /\ T = KeyTime(w, k) /\ Changes(w, k)
  <2>1. store[T].key = k
    BY DEF Latest
  <2> DEFINE v == w
  <2> HIDE DEF v
  <2>2. v = store[T].val
    BY DEF v
  <2>3. /\ v \in 1..Len(calls) /\ calls[v].kind = "write" /\ k \in calls[v].keys
        /\ calls[v].state # "refused" /\ T = KeyTime(v, k) /\ Changes(v, k)
    BY <2>1, <2>2, Author
  <2> QED
    BY <2>2, <2>3 DEF Wrote
<1>3. i0 \in I
  <2>1. store[T].key = k
    BY DEF Latest
  <2>2. Erases(i0, k)
    BY <2>1 DEF Took, Selected, Erases
  <2> QED
    BY <1>1, <2>2 DEF Took
<1>4. I \subseteq Nat /\ calls[r].end \in Nat /\ \A i \in I : i <= calls[r].end
  BY <1>1
<1>5. m \in I /\ \A i \in I : i <= m
  <2> HIDE DEF I
  <2> QED
    BY <1>3, <1>4, GreatestNumber
<1> HIDE DEF m
<1>6. /\ m \in 1..Len(calls) /\ m <= calls[r].end /\ Erases(m, k)
      /\ calls[m].end = 0 \/ w <= calls[m].end
  BY <1>1, <1>5
<1>7. calls[m].kind = "remove" /\ Changes(m, k)
  <2>1. calls[m].state # "refused"
    BY <1>6 DEF Erases, Placed, EndsOK
  <2> QED
    BY <1>6, <2>1, ChangesHow DEF Erases
<1>8. ~Hidden(m, k, r)
  <2> SUFFICES ASSUME NEW j \in 1..Len(calls), Changes(j, k), calls[j].state = "ok",
                      Precedes(m, j), Precedes(j, r),
                      calls[j].kind = "write" =>
                        \A v \in Sources(m, k) : calls[v].state # "ok" => KeyTime(v, k) < KeyTime(j, k)
               PROVE  FALSE
    BY DEF Hidden
  <2>1. w <= calls[m].end
    BY <1>6 DEF Precedes
  <2>2. CASE calls[j].kind = "write"
    <3>1. w \in Sources(m, k)
      BY <1>2, <1>7, <2>1 DEF Sources
    <3> HIDE DEF w
    <3> QED
      BY <1>2, <1>6, <2>1, <2>2, <3>1, NoWriteHides
  <2>3. CASE calls[j].kind # "write"
    <3>1. Erases(j, k)
      BY <2>3, ChangesHow
    <3>2. m < j /\ j <= calls[r].end /\ w <= calls[j].end
      BY <1>1, <1>2, <1>6, <2>1, DoneEnds, SMTT(30) DEF Precedes
    <3>3. j \in I
      BY <1>1, <3>1, <3>2
    <3> QED
      BY <1>5, <1>6, <3>2, <3>3
  <2> QED
    BY <2>2, <2>3
<1> QED
  BY <1>6, <1>7, <1>8 DEF Visible

\* A read leaves a key out as it may.
LEMMA AbsentIsVisible ==
  ASSUME IInv, Placed, NoForeign, NEW r \in 1..Len(calls), calls[r].state = "ok", NEW k \in Key, Absent(r, k)
  PROVE  /\ k \notin DOMAIN calls[r].query.map
         /\ \/ \E i \in 1..Len(calls) : calls[i].kind = "remove" /\ Visible(i, k, r)
            \/ \A j \in InState("ok") : calls[j].kind = "write" /\ Changes(j, k) => ~Precedes(j, r)
<1>1. CASE \A t \in DOMAIN store : Before(r, k, t) => ~Seen(r, t)
  <2>1. ASSUME NEW j \in InState("ok"), calls[j].kind = "write", Changes(j, k), Precedes(j, r)
        PROVE  FALSE
    <3>1. j \in 1..Len(calls) /\ Done(j, k)
      BY <2>1 DEF InState, Changes, Done
    <3>2. KeyTime(j, k) \in DOMAIN store
      BY <3>1, DoneStored
    <3>3. Before(r, k, KeyTime(j, k)) /\ Seen(r, KeyTime(j, k))
      BY <2>1, <3>1 DEF Before, Seen
    <3> QED
      BY <1>1, <3>2, <3>3
  <2> QED
    BY <2>1 DEF Absent
<1>2. CASE \E T \in DOMAIN store : \E q \in {store[T]} :
             Latest(r, k, T) /\ q.removed = TRUE /\ \E i \in 1..Since(r) : Took(i, q)
  <2>1. PICK T \in DOMAIN store : Latest(r, k, T) /\ \E i \in 1..Since(r) : Took(i, store[T])
    BY <1>2
  <2>2. PICK i \in 1..Since(r) : Took(i, store[T])
    BY <2>1
  <2>3. store[T].val # Foreign
    BY RecordVal DEF NoForeign
  <2>4. \E j \in 1..Len(calls) : calls[j].kind = "remove" /\ Visible(j, k, r)
    BY <2>1, <2>2, <2>3, RemovedIsVisible
  <2> QED
    BY <2>4 DEF Absent
<1> QED
  BY <1>1, <1>2 DEF Absent

LEMMA ReadsReturn == IInv /\ Placed /\ ReadsOK => ReadsAreRegular
<1> SUFFICES ASSUME IInv, Placed, ReadsOK, NoForeign, NEW r \in InState("ok"), NEW k \in Key, calls[r].kind = "read"
             PROVE  \/ /\ k \in DOMAIN calls[r].query.map
                       /\ calls[calls[r].query.map[k]].kind = "write"
                       /\ Visible(calls[r].query.map[k], k, r)
                    \/ /\ k \notin DOMAIN calls[r].query.map
                       /\ \/ \E i \in 1..Len(calls) : calls[i].kind = "remove" /\ Visible(i, k, r)
                          \/ \A j \in InState("ok") :
                               calls[j].kind = "write" /\ Changes(j, k) => ~Precedes(j, r)
  BY DEF ReadsAreRegular
<1>1. r \in 1..Len(calls) /\ calls[r].state = "ok"
  BY DEF InState
<1>2. Shown(r, k) \/ Absent(r, k)
  BY <1>1 DEF ReadsOK, Answers, ReadOK
<1> QED
  BY <1>1, <1>2, ShownIsVisible, AbsentIsVisible

RInv == IInv /\ Placed /\ Erased /\ ReadsOK

LEMMA InitRInv == Init => RInv
<1> SUFFICES ASSUME Init PROVE RInv
  OBVIOUS
<1>1. Len(calls) = 0
  BY DEF Init
<1>2. Erased /\ ReadsOK
  BY <1>1 DEF Erased, ReadsOK, Answers
<1> QED
  BY <1>2, InitIInv, InitPlaced DEF RInv

LEMMA NextRInv == RInv /\ [Next]_vars => RInv'
<1> SUFFICES ASSUME RInv, [Next]_vars PROVE RInv'
  OBVIOUS
<1>1. IInv' /\ Step
  BY NextIInv, EveryStep DEF RInv
<1>2. Placed'
  BY <1>1, PlacedKeeps DEF RInv
<1>3. Erased'
  BY <1>1, <1>2, ErasedKeeps DEF RInv
<1>4. ReadsOK'
  BY <1>1, <1>2, ReadsKeep DEF RInv
<1> QED
  BY <1>1, <1>2, <1>3, <1>4 DEF RInv

-----------------------------------------------------------------------------
(* The theorems.                                                           *)

\* A removal only ever marks records that are in the store, a map has only the
\* entry's keys, and bytes that are not an attachment's come up only if somebody
\* has written a record without a key (bucket.cc 222-248, 284-297).
THEOREM TypeCorrect == Spec => []TypeOK
<1>1. IInv => TypeOK
  <2> SUFFICES ASSUME IInv PROVE TypeOK
    OBVIOUS
  <2>1. clock \in 2..MaxTime
    BY DEF IInv
  <2>2. \A t \in DOMAIN store : store[t] \in [key : Key \cup {NoKey}, val : 0..Len(calls), removed : BOOLEAN]
    BY DEF IInv, StoreOK
  <2>3. ASSUME NEW i \in 1..Len(calls)
        PROVE  /\ calls[i].state \in {"request", "reading", "selecting", "ok", "error", "refused"}
               /\ calls[i].end # 0 <=> calls[i].state \in {"ok", "error", "refused"}
               /\ calls[i].query.marked \subseteq DOMAIN store
               /\ DOMAIN calls[i].query.map \subseteq Key
               /\ Foreign \in Range(calls[i].query.map) => store[1].key = NoKey
    <3>1. CallOK(calls[i], store)
      BY DEF IInv, CallsOK
    <3> QED
      BY <3>1 DEF CallOK, QueryOK, Alien
  <2>4. DOMAIN requests \subseteq 1..Len(calls)
    BY DEF IInv, RequestsOK
  <2> QED
    BY <2>1, <2>2, <2>3, <2>4 DEF TypeOK
<1> QED
  BY <1>1, IInvHolds, PTL

\* Whatever the server rejects, however many calls overlap and whatever they
\* remove meanwhile: a write that returned no error has stored each of its
\* attachments, one that was refused none (bucket.cc 200-214, 912-919).
THEOREM WritesAreWholeCorrect == Spec => []WritesAreWhole
<1>1. IInv => WritesAreWhole
  <2> SUFFICES ASSUME IInv, NEW i \in 1..Len(calls), NEW k \in Key, calls[i].kind = "write"
               PROVE  /\ calls[i].state = "ok" /\ k \in calls[i].keys => Stored(i, k, store)
                      /\ calls[i].state = "refused" => ~Stored(i, k, store)
    BY DEF WritesAreWhole, Stored
  <2>1. calls[i].state = "ok" /\ k \in calls[i].keys => Stored(i, k, store)
    BY DEF IInv, WriteOK
  <2>2. calls[i].state = "refused" => ~Stored(i, k, store)
    <3>1. i # Foreign
      BY DEF Foreign
    <3> QED
      BY <3>1 DEF IInv, StoreOK, Stored
  <2> QED
    BY <2>1, <2>2
<1> QED
  BY <1>1, IInvHolds, PTL

\* What a read returns is regular, however calls overlap, fail, time out or are
\* answered late: for each key a value that no later change done before the read
\* began hides, or nothing, if a removal or the lack of a write explains it
\* (bucket.cc 198-206, 234-248, 284-303).
THEOREM ReadsAreRegularCorrect == Spec => []ReadsAreRegular
<1>1. Init => RInv
  BY InitRInv
<1>2. RInv /\ [Next]_vars => RInv'
  BY NextRInv
<1>3. RInv => ReadsAreRegular
  BY ReadsReturn DEF RInv
<1> QED
  BY <1>1, <1>2, <1>3, PTL DEF Spec
=============================================================================
