------------------------- MODULE BucketNamesProofs -------------------------
(* Theorems about BucketNames, for any threads, names and bounds.          *)
EXTENDS BucketNames, TLAPS

USE DEF None

-----------------------------------------------------------------------------
(* Types.                                                                  *)

Phases == {"none", "sent", "served"}
AnyName == Names \cup {NoName}
Moments == 0..MaxMoves

CallSet(m) == [op : Ops, request : Requests \cup {NoRequest}, phase : Phases, code : Codes,
               hit : 0..m, seen : Moments]

BucketSet(m) == [open : BOOLEAN, name : AnyName, path : AnyName, ioPath : AnyName, home : 0..m, seen : Moments]

LEMMA TypeMeans ==
  TypeOK <=> /\ bucketOf \in [Names -> 0..made]
             /\ made \in 0..MaxBuckets
             /\ moves \in [1..MaxBuckets -> Moments]
             /\ calls \in [Threads -> CallSet(made)]
             /\ late \subseteq Requests
             /\ buckets \in [Threads -> BucketSet(made)]
             /\ \A t \in Threads : buckets[t].open => buckets[t].home # None /\ buckets[t].path # NoName
  BY DEF TypeOK, CallSet, BucketSet, Phases, AnyName, Moments

LEMMA TypeMeansNext ==
  TypeOK' <=> /\ bucketOf' \in [Names -> 0..made']
              /\ made' \in 0..MaxBuckets
              /\ moves' \in [1..MaxBuckets -> Moments]
              /\ calls' \in [Threads -> CallSet(made')]
              /\ late' \subseteq Requests
              /\ buckets' \in [Threads -> BucketSet(made')]
              /\ \A t \in Threads : buckets'[t].open => buckets'[t].home # None /\ buckets'[t].path # NoName
  BY DEF TypeOK, CallSet, BucketSet, Phases, AnyName, Moments

LEMMA CallType ==
  ASSUME NEW m \in Nat, NEW op \in Ops, NEW r \in Requests \cup {NoRequest}, NEW p \in Phases,
         NEW code \in Codes, NEW hit \in 0..m, NEW seen \in Moments, NEW c, c = Call(op, r, p, code, hit, seen)
  PROVE  /\ c \in CallSet(m)
         /\ c.op = op /\ c.request = r /\ c.phase = p /\ c.code = code /\ c.hit = hit /\ c.seen = seen
  BY DEF Call, CallSet

LEMMA NoCallType ==
  ASSUME NEW m \in Nat
  PROVE  NoCall \in CallSet(m) /\ NoCall.phase = "none"
<1>1. /\ "Data" \in Ops /\ "none" \in Phases /\ 0 \in Codes /\ None \in 0..m /\ 0 \in Moments
      /\ NoRequest \in Requests \cup {NoRequest}
  BY BucketNamesAssumption DEF Ops, Phases, Codes, Moments
<1> QED BY <1>1, CallType DEF NoCall

LEMMA CallSetGrows == ASSUME NEW m \in Nat, NEW n \in Nat, m <= n PROVE CallSet(m) \subseteq CallSet(n)
  BY DEF CallSet

LEMMA BucketSetGrows == ASSUME NEW m \in Nat, NEW n \in Nat, m <= n PROVE BucketSet(m) \subseteq BucketSet(n)
  BY DEF BucketSet

LEMMA BucketType ==
  ASSUME NEW m \in Nat, NEW n \in AnyName, NEW home \in 0..m, NEW seen \in Moments, NEW b, b = Bucket(n, home, seen)
  PROVE  /\ b \in BucketSet(m)
         /\ b.open /\ b.name = n /\ b.path = n /\ b.ioPath = n /\ b.home = home /\ b.seen = seen
  BY DEF Bucket, BucketSet

LEMMA NoBucketType == NoBucket \in BucketSet(0) /\ ~NoBucket.open
<1> DEFINE b == Bucket(NoName, None, 0)
<1>1. NoName \in AnyName /\ None \in 0..0 /\ 0 \in Moments
  BY BucketNamesAssumption DEF AnyName, Moments
<1> HIDE DEF b
<1>2. b \in BucketSet(0)
  BY <1>1, BucketType DEF b
<1>3. ASSUME NEW o \in BOOLEAN PROVE [b EXCEPT !.open = o] \in BucketSet(0) /\ [b EXCEPT !.open = o].open = o
  BY <1>2 DEF BucketSet
<1> QED BY <1>3 DEF NoBucket, b

\* The Bucket after a rename: its paths are the new name, and of its bucket it
\* knows what the call saw.
LEMMA RenamedType ==
  ASSUME NEW m \in Nat, NEW b \in BucketSet(m), NEW c \in CallSet(m), c.request \in Requests,
         NEW d, d = Renamed(b, c)
  PROVE  /\ d \in BucketSet(m)
         /\ d.open = b.open /\ d.name = b.name /\ d.home = b.home
         /\ d.path = c.request.new /\ d.ioPath = c.request.new
         /\ d.seen = IF c.hit = b.home THEN c.seen ELSE b.seen
<1> DEFINE s == IF c.hit = b.home THEN c.seen ELSE b.seen
           n == c.request.new
           b1 == [b EXCEPT !.path = n]
           b2 == [b1 EXCEPT !.ioPath = n]
<1>1. s \in Moments /\ n \in AnyName
  BY DEF CallSet, BucketSet, AnyName, Requests
<1>2. d = [b EXCEPT !.path = n, !.ioPath = n, !.seen = s]
  BY DEF Renamed
<1> HIDE DEF s, n
<1>3. b1 \in BucketSet(m)
  BY <1>1 DEF BucketSet
<1>4. b2 \in BucketSet(m)
  BY <1>1, <1>3 DEF BucketSet
<1>5. d \in BucketSet(m)
  <2>1. d = [b2 EXCEPT !.seen = s]
    BY <1>2
  <2> HIDE DEF b2
  <2> QED BY <1>1, <1>4, <2>1 DEF BucketSet
<1>6. d.open = b.open /\ d.name = b.name /\ d.home = b.home
  BY <1>2 DEF BucketSet
<1>7. d.path = n /\ d.ioPath = n /\ d.seen = s
  BY <1>2 DEF BucketSet
<1> QED BY <1>5, <1>6, <1>7 DEF s, n

-----------------------------------------------------------------------------
(* The invariant.                                                          *)

\* The server keeps names unique.
Injective == \A m, n \in Names : bucketOf[m] = bucketOf[n] /\ bucketOf[n] # None => m = n

\* A Bucket object knows of no move that has not happened, and if it knows of all
\* of them its paths lead to its bucket: of names bo, moves mv and md buckets.
BucketKnows(b, bo, md, mv) ==
  b.open => /\ b.home \in 1..md
            /\ b.name \in Names /\ b.path \in Names /\ b.ioPath \in Names
            /\ b.seen <= mv[b.home]
            /\ mv[b.home] = b.seen => bo[b.path] = b.home /\ bo[b.ioPath] = b.home

\* The request of a call is one its operation makes, of the Bucket it is made on.
CallFits(c, b) ==
  c.phase # "none" =>
    /\ c.request \in Requests
    /\ c.op \in Opening => c.request.verb \in {"head", "create"}
    /\ c.op = "Rename" => c.request.verb = "rename"
    /\ c.op \in {"Data", "Remove"} => c.request.verb \in {"data", "delete"}
    /\ c.op \in {"Data", "Remove", "Rename"} => b.open /\ c.request.name \in {b.path, b.ioPath}

\* A request that went well found a bucket.  If that has not moved since, the name
\* it was opened by, or that it was given, leads to it; and if the Bucket is up to
\* date, the bucket found is its own.
AnswerLeads(c, b, bo, md, mv) ==
  c.phase = "served" =>
    /\ c.code = 200 => c.hit # None
    /\ c.hit # None => c.hit \in 1..md /\ c.seen <= mv[c.hit]
    /\ c.code = 200 /\ mv[c.hit] = c.seen =>
         /\ c.op \in Opening => bo[c.request.name] = c.hit
         /\ c.op = "Rename" => bo[c.request.new] = c.hit
    /\ c.op \in {"Data", "Remove", "Rename"} /\ b.open /\ mv[b.home] = b.seen => c.hit = b.home

ThreadInv(c, b, bo, md, mv) == BucketKnows(b, bo, md, mv) /\ CallFits(c, b) /\ AnswerLeads(c, b, bo, md, mv)

IInv == /\ TypeOK
        /\ Injective
        /\ \A t \in Threads : ThreadInv(calls[t], buckets[t], bucketOf, made, moves)

LEMMA InvImplies == IInv => PathsLeadHome /\ DataGoesHome
  BY DEF IInv, ThreadInv, BucketKnows, AnswerLeads, PathsLeadHome, DataGoesHome, UpToDate, Answered

LEMMA InvMeansNext ==
  IInv' <=> /\ TypeOK'
            /\ Injective'
            /\ \A t \in Threads : ThreadInv(calls'[t], buckets'[t], bucketOf', made', moves')
  BY DEF IInv, ThreadInv, BucketKnows, CallFits, AnswerLeads

LEMMA InvInit == Init => IInv
<1> SUFFICES ASSUME Init PROVE IInv
  OBVIOUS
<1>1. \A t \in Threads : calls[t] = NoCall /\ buckets[t] = NoBucket
  BY DEF Init
<1>2. made = 0 /\ bucketOf \in [Names -> 0..made] /\ moves \in [1..MaxBuckets -> Moments] /\ late \subseteq Requests
  BY BucketNamesAssumption DEF Init, Moments
<1>3. calls \in [Threads -> CallSet(made)] /\ buckets \in [Threads -> BucketSet(made)]
  BY <1>2, NoCallType, NoBucketType DEF Init
<1>4. TypeOK
  BY <1>1, <1>2, <1>3, NoBucketType, TypeMeans, BucketNamesAssumption
<1>5. Injective
  BY DEF Init, Injective
<1>6. \A t \in Threads : ThreadInv(calls[t], buckets[t], bucketOf, made, moves)
  BY <1>1, NoCallType, NoBucketType DEF ThreadInv, BucketKnows, CallFits, AnswerLeads
<1> QED BY <1>4, <1>5, <1>6 DEF IInv

-----------------------------------------------------------------------------
(* What the server does to names.                                          *)

LEMMA CodeType == ASSUME NEW r PROVE Code(r) \in {200, 404, 409}
  BY DEF Code

LEMMA PerformType ==
  ASSUME TypeOK, NEW r \in Requests, Perform(r)
  PROVE  /\ bucketOf' \in [Names -> 0..made']
         /\ made' \in 0..MaxBuckets /\ made <= made'
         /\ moves' \in [1..MaxBuckets -> Moments]
         /\ Found(r) \in 0..made'
<1>1. r.name \in Names /\ r.new \in Names
  BY DEF Requests
<1>2. made' \in 0..MaxBuckets /\ made <= made' /\ made \in Nat
  BY BucketNamesAssumption DEF TypeOK, Perform
<1>3. \A n \in Names : bucketOf[n] \in 0..made
  BY DEF TypeOK
<1>4. bucketOf' \in [Names -> 0..made']
  <2>1. ASSUME NEW n \in Names PROVE bucketOf'[n] \in 0..made'
    BY <1>1, <1>2, <1>3 DEF Perform
  <2> QED BY <2>1 DEF Perform
<1>5. moves' \in [1..MaxBuckets -> Moments]
  <2>1. CASE Moved(r)
    <3>1. bucketOf[r.name] \in 1..MaxBuckets
      <4>1. bucketOf[r.name] # None
        BY <2>1 DEF Moved, Code
      <4>2. bucketOf[r.name] \in 0..made /\ made \in 0..MaxBuckets
        BY <1>1, <1>3 DEF TypeOK
      <4> QED BY <4>1, <4>2, BucketNamesAssumption
    <3>2. moves[bucketOf[r.name]] + 1 \in Moments
      BY <2>1, <3>1, BucketNamesAssumption, SMTT(30) DEF TypeOK, Perform, Moments
    <3>3. moves' = [moves EXCEPT ![bucketOf[r.name]] = moves[bucketOf[r.name]] + 1]
      BY <2>1 DEF Perform
    <3>4. moves \in [1..MaxBuckets -> Moments]
      BY DEF TypeOK, Moments
    <3> QED BY <3>2, <3>3, <3>4
  <2>2. CASE ~Moved(r)
    BY <2>2 DEF Perform, TypeOK, Moments
  <2> QED BY <2>1, <2>2
<1>6. Found(r) \in 0..made'
  BY <1>1, <1>2, <1>3 DEF Found, Perform
<1> QED BY <1>2, <1>4, <1>5, <1>6

\* Names stay unique.
LEMMA PerformInjective ==
  ASSUME TypeOK, Injective, NEW r \in Requests, Perform(r)
  PROVE  Injective'
<1> SUFFICES ASSUME NEW m \in Names, NEW n \in Names, bucketOf'[m] = bucketOf'[n], bucketOf'[n] # None
             PROVE  m = n
  BY DEF Injective
<1>1. r.name \in Names /\ r.new \in Names
  BY DEF Requests
<1>2. \A k \in Names : bucketOf[k] \in 0..made
  BY DEF TypeOK
<1>3. made \in Nat
  BY DEF TypeOK
<1>4. CASE Code(r) # 200
  BY <1>4 DEF Perform, Injective
<1>5. CASE Code(r) = 200 /\ r.verb = "create"
  BY <1>1, <1>2, <1>3, <1>5 DEF Perform, Injective
<1>6. CASE Code(r) = 200 /\ r.verb = "rename"
  <2>1. bucketOf[r.new] = None /\ bucketOf[r.name] # None
    BY <1>6 DEF Code
  <2> QED BY <1>1, <1>6, <2>1 DEF Perform, Injective
<1>7. CASE Code(r) = 200 /\ r.verb = "delete"
  BY <1>7 DEF Perform, Injective
<1>8. CASE Code(r) = 200 /\ r.verb \notin {"create", "rename", "delete"}
  BY <1>8 DEF Perform, Injective
<1> QED BY <1>4, <1>5, <1>6, <1>7, <1>8

\* A bucket that does not move keeps its name, and moves are never forgotten.
LEMMA PerformKeeps ==
  ASSUME TypeOK, Injective, NEW r \in Requests, Perform(r), NEW k \in 1..made
  PROVE  /\ moves[k] <= moves'[k] /\ moves[k] \in Nat /\ moves'[k] \in Nat
         /\ \A n \in Names : bucketOf[n] = k /\ moves'[k] = moves[k] => bucketOf'[n] = k
<1>1. r.name \in Names /\ r.new \in Names
  BY DEF Requests
<1>2. k \in 1..MaxBuckets
  BY BucketNamesAssumption DEF TypeOK
<1>3. moves[k] \in Nat
  BY <1>2, BucketNamesAssumption DEF TypeOK
<1>4. moves'[k] = IF Moved(r) /\ bucketOf[r.name] = k THEN moves[k] + 1 ELSE moves[k]
  BY <1>2 DEF Perform, TypeOK
<1>5. ASSUME NEW n \in Names, bucketOf[n] = k, moves'[k] = moves[k] PROVE bucketOf'[n] = k
  <2>1. ~(Moved(r) /\ n = r.name)
    BY <1>3, <1>4, <1>5
  <2>2. CASE Code(r) # 200
    BY <1>5, <2>2 DEF Perform
  <2>3. CASE Code(r) = 200 /\ r.verb = "create"
    <3>1. bucketOf[r.name] = None
      BY <2>3 DEF Code
    <3> QED BY <1>5, <2>3, <3>1 DEF Perform
  <2>4. CASE Code(r) = 200 /\ r.verb = "rename"
    <3>1. bucketOf[r.new] = None
      BY <2>4 DEF Code
    <3> QED BY <1>5, <2>1, <2>4, <3>1 DEF Perform, Moved
  <2>5. CASE Code(r) = 200 /\ r.verb \notin {"create", "rename"}
    BY <1>5, <2>1, <2>5 DEF Perform, Moved
  <2> QED BY <2>2, <2>3, <2>4, <2>5
<1> QED BY <1>3, <1>4, <1>5

\* So what holds of a thread that takes no part in it still holds.
LEMMA PerformThread ==
  ASSUME TypeOK, Injective, NEW r \in Requests, Perform(r), NEW c \in CallSet(made), NEW b \in BucketSet(made),
         ThreadInv(c, b, bucketOf, made, moves)
  PROVE  ThreadInv(c, b, bucketOf', made', moves')
<1>1. made <= made' /\ made \in Nat /\ made' \in Nat
  BY PerformType DEF TypeOK
<1>2. c.seen \in Nat /\ b.seen \in Nat
  BY BucketNamesAssumption DEF CallSet, BucketSet, Moments
<1>3. CallFits(c, b)
  BY DEF ThreadInv
<1>4. BucketKnows(b, bucketOf', made', moves')
  <2> SUFFICES ASSUME b.open PROVE BucketKnows(b, bucketOf', made', moves')
    BY DEF BucketKnows
  <2>1. /\ b.home \in 1..made
        /\ b.name \in Names /\ b.path \in Names /\ b.ioPath \in Names
        /\ b.seen <= moves[b.home]
        /\ moves[b.home] = b.seen => bucketOf[b.path] = b.home /\ bucketOf[b.ioPath] = b.home
    BY DEF ThreadInv, BucketKnows
  <2>2. /\ moves[b.home] <= moves'[b.home] /\ moves[b.home] \in Nat /\ moves'[b.home] \in Nat
        /\ \A n \in Names : bucketOf[n] = b.home /\ moves'[b.home] = moves[b.home] => bucketOf'[n] = b.home
    BY <2>1, PerformKeeps
  <2> QED BY <1>1, <1>2, <2>1, <2>2 DEF BucketKnows
<1>5. AnswerLeads(c, b, bucketOf', made', moves')
  <2> SUFFICES ASSUME c.phase = "served" PROVE AnswerLeads(c, b, bucketOf', made', moves')
    BY DEF AnswerLeads
  <2>1. AnswerLeads(c, b, bucketOf, made, moves)
    BY DEF ThreadInv
  <2>2. /\ c.code = 200 => c.hit # None
        /\ c.hit # None => c.hit \in 1..made' /\ c.seen <= moves'[c.hit]
    BY <1>1, <1>2, <2>1, PerformKeeps DEF AnswerLeads
  <2>3. ASSUME c.code = 200, moves'[c.hit] = c.seen
        PROVE  /\ c.op \in Opening => bucketOf'[c.request.name] = c.hit
               /\ c.op = "Rename" => bucketOf'[c.request.new] = c.hit
    <3>1. c.hit \in 1..made /\ c.seen <= moves[c.hit]
      BY <2>1, <2>3 DEF AnswerLeads
    <3>2. /\ moves[c.hit] <= moves'[c.hit] /\ moves[c.hit] \in Nat /\ moves'[c.hit] \in Nat
          /\ \A n \in Names : bucketOf[n] = c.hit /\ moves'[c.hit] = moves[c.hit] => bucketOf'[n] = c.hit
      BY <3>1, PerformKeeps
    <3>3. moves[c.hit] = c.seen
      BY <1>2, <2>3, <3>1, <3>2
    <3>4. c.request.name \in Names /\ c.request.new \in Names
      BY <1>3 DEF CallFits, Requests
    <3> QED BY <2>1, <2>3, <3>2, <3>3, <3>4 DEF AnswerLeads
  <2>4. ASSUME c.op \in {"Data", "Remove", "Rename"}, b.open, moves'[b.home] = b.seen PROVE c.hit = b.home
    <3>1. b.home \in 1..made /\ b.seen <= moves[b.home]
      BY <2>4 DEF ThreadInv, BucketKnows
    <3>2. moves[b.home] = b.seen
      BY <1>2, <2>4, <3>1, PerformKeeps
    <3> QED BY <2>1, <2>4, <3>2 DEF AnswerLeads
  <2> QED BY <2>2, <2>3, <2>4 DEF AnswerLeads
<1> QED BY <1>3, <1>4, <1>5 DEF ThreadInv

\* Nor is it lost by the thread whose request is served.
LEMMA PerformServed ==
  ASSUME TypeOK, Injective, NEW c \in CallSet(made), NEW b \in BucketSet(made), c.phase = "sent",
         ThreadInv(c, b, bucketOf, made, moves), Perform(c.request), NEW d,
         d = Call(c.op, c.request, "served", Code(c.request), Found(c.request),
                  IF Found(c.request) = None THEN 0 ELSE moves'[Found(c.request)])
  PROVE  d \in CallSet(made') /\ ThreadInv(d, b, bucketOf', made', moves')
<1> DEFINE r == c.request
           seen == IF Found(r) = None THEN 0 ELSE moves'[Found(r)]
<1>1. CallFits(c, b) /\ BucketKnows(b, bucketOf, made, moves)
  BY DEF ThreadInv
<1>2. r \in Requests /\ r.name \in Names /\ r.new \in Names
  BY <1>1 DEF CallFits, Requests
<1>3. /\ made' \in 0..MaxBuckets /\ made <= made' /\ made \in Nat /\ made' \in Nat
      /\ moves' \in [1..MaxBuckets -> Moments]
      /\ Found(r) \in 0..made'
  BY <1>2, PerformType DEF TypeOK
<1>4. seen \in Moments /\ seen \in Nat
  BY <1>3, BucketNamesAssumption DEF Moments
<1>5. "served" \in Phases /\ Code(r) \in Codes /\ c.op \in Ops
  BY CodeType DEF Phases, Codes, CallSet
<1>6. /\ d \in CallSet(made')
      /\ d.op = c.op /\ d.request = r /\ d.phase = "served" /\ d.code = Code(r)
      /\ d.hit = Found(r) /\ d.seen = seen
  BY <1>2, <1>3, <1>4, <1>5, CallType
<1>7. CallFits(d, b)
  BY <1>1, <1>6 DEF CallFits
<1>8. BucketKnows(b, bucketOf', made', moves')
  BY <1>2, PerformThread DEF ThreadInv
<1>9. AnswerLeads(d, b, bucketOf', made', moves')
  <2>1. /\ d.code = 200 => d.hit # None
        /\ d.hit # None => d.hit \in 1..made' /\ d.seen <= moves'[d.hit]
    <3>1. Code(r) = 200 => Found(r) # None
      BY <1>2, <1>3 DEF Code, Found
    <3>2. Found(r) # None => Found(r) \in 1..made' /\ seen = moves'[Found(r)]
      BY <1>3
    <3> QED BY <1>4, <1>6, <3>1, <3>2
  <2>2. d.code = 200 /\ d.op \in Opening => bucketOf'[d.request.name] = d.hit
    <3>1. c.op \in Opening => r.verb \in {"head", "create"}
      BY <1>1 DEF CallFits
    <3> QED BY <1>2, <1>6, <3>1, ZenonT(60) DEF Perform, Found
  <2>3. d.code = 200 /\ d.op = "Rename" => bucketOf'[d.request.new] = d.hit
    <3>1. c.op = "Rename" => r.verb = "rename"
      BY <1>1 DEF CallFits
    <3> QED BY <1>2, <1>6, <3>1, ZenonT(60) DEF Perform, Found
  <2>4. ASSUME d.op \in {"Data", "Remove", "Rename"}, b.open, moves'[b.home] = b.seen PROVE d.hit = b.home
    <3>1. b.home \in 1..made /\ b.seen <= moves[b.home]
      BY <1>1, <2>4 DEF BucketKnows
    <3>2. b.seen \in Nat
      BY BucketNamesAssumption DEF BucketSet, Moments
    <3>3. moves[b.home] = b.seen
      BY <1>2, <2>4, <3>1, <3>2, PerformKeeps
    <3>4. bucketOf[r.name] = b.home /\ r.verb # "create"
      BY <1>1, <1>6, <2>4, <3>3 DEF BucketKnows, CallFits
    <3> QED BY <1>6, <3>4 DEF Found
  <2> QED BY <2>1, <2>2, <2>3, <2>4 DEF AnswerLeads
<1> QED BY <1>6, <1>7, <1>8, <1>9 DEF ThreadInv

-----------------------------------------------------------------------------
(* Steps.                                                                  *)

\* A thread sends a request: names and Buckets stay.
LEMMA SendInv ==
  ASSUME IInv, NEW t \in Threads, NEW op \in Ops, NEW r \in Requests, Send(t, op, r),
         CallFits(Call(op, r, "sent", 0, None, 0), buckets[t]),
         UNCHANGED <<bucketOf, made, moves, late, buckets>>
  PROVE  IInv'
<1> DEFINE d == Call(op, r, "sent", 0, None, 0)
<1>0. TypeOK /\ Injective /\ made \in Nat /\ \A u \in Threads : ThreadInv(calls[u], buckets[u], bucketOf, made, moves)
  BY DEF IInv, TypeOK
<1>1. "sent" \in Phases /\ 0 \in Codes /\ None \in 0..made /\ 0 \in Moments
  BY <1>0, BucketNamesAssumption DEF Phases, Codes, Moments
<1>2. calls' = [calls EXCEPT ![t] = d]
  BY DEF Send
<1> HIDE DEF d
<1>3. d \in CallSet(made) /\ d.phase = "sent"
  BY <1>0, <1>1, CallType DEF d
<1>4. calls \in [Threads -> CallSet(made)]
  BY <1>0, TypeMeans
<1>5. TypeOK'
  <2>1. calls' \in [Threads -> CallSet(made')]
    BY <1>2, <1>3, <1>4
  <2> QED BY <1>0, <2>1, TypeMeans, TypeMeansNext
<1>6. Injective'
  BY <1>0 DEF Injective
<1>7. ThreadInv(d, buckets[t], bucketOf, made, moves)
  BY <1>0, <1>3 DEF ThreadInv, AnswerLeads, d
<1>8. \A u \in Threads : calls'[u] = IF u = t THEN d ELSE calls[u]
  BY <1>2, <1>4
<1> QED BY <1>0, <1>5, <1>6, <1>7, <1>8, InvMeansNext

\* A call returns, with the Bucket b: names stay.
LEMMA ReturnInv ==
  ASSUME IInv, NEW t \in Threads, Return(t), NEW b \in BucketSet(made), BucketKnows(b, bucketOf, made, moves),
         buckets' = [buckets EXCEPT ![t] = b], late' \subseteq Requests, UNCHANGED <<bucketOf, made, moves>>
  PROVE  IInv'
<1>0. TypeOK /\ Injective /\ made \in Nat /\ \A u \in Threads : ThreadInv(calls[u], buckets[u], bucketOf, made, moves)
  BY DEF IInv, TypeOK
<1>1. calls' = [calls EXCEPT ![t] = NoCall]
  BY DEF Return
<1>2. calls \in [Threads -> CallSet(made)] /\ buckets \in [Threads -> BucketSet(made)]
  BY <1>0, TypeMeans
<1>3. calls' \in [Threads -> CallSet(made)] /\ buckets' \in [Threads -> BucketSet(made)]
  BY <1>0, <1>1, <1>2, NoCallType
<1>4. \A u \in Threads : /\ calls'[u] = IF u = t THEN NoCall ELSE calls[u]
                         /\ buckets'[u] = IF u = t THEN b ELSE buckets[u]
  BY <1>1, <1>2
<1>5. ThreadInv(NoCall, b, bucketOf, made, moves)
  BY <1>0, NoCallType DEF ThreadInv, CallFits, AnswerLeads
<1>6. \A u \in Threads : ThreadInv(calls'[u], buckets'[u], bucketOf', made', moves')
  BY <1>0, <1>4, <1>5
<1>7. \A u \in Threads : buckets'[u].open => buckets'[u].home # None /\ buckets'[u].path # NoName
  BY <1>6, <1>0, BucketNamesAssumption DEF ThreadInv, BucketKnows
<1>8. TypeOK'
  BY <1>0, <1>3, <1>7, TypeMeans, TypeMeansNext
<1>9. Injective'
  BY <1>0 DEF Injective
<1> QED BY <1>6, <1>8, <1>9, InvMeansNext

\* The server sees a request of thread t.
LEMMA ServeInv == ASSUME IInv, Serve PROVE IInv'
<1> DEFINE served(c) == Call(c.op, c.request, "served", Code(c.request), Found(c.request),
                             IF Found(c.request) = None THEN 0 ELSE moves'[Found(c.request)])
<1>0. TypeOK /\ Injective /\ made \in Nat /\ \A u \in Threads : ThreadInv(calls[u], buckets[u], bucketOf, made, moves)
  BY DEF IInv, TypeOK
<1>1. PICK t \in Threads : /\ calls[t].phase = "sent" /\ Perform(calls[t].request)
                           /\ calls' = [calls EXCEPT ![t] = served(calls[t])]
  BY DEF Serve
<1>2. UNCHANGED <<late, buckets>>
  BY DEF Serve
<1> HIDE DEF served
<1>3. /\ calls \in [Threads -> CallSet(made)] /\ buckets \in [Threads -> BucketSet(made)]
      /\ \A u \in Threads : buckets[u].open => buckets[u].home # None /\ buckets[u].path # NoName
      /\ late \subseteq Requests
  BY <1>0, TypeMeans
<1>4. calls[t].request \in Requests
  BY <1>0, <1>1 DEF ThreadInv, CallFits
<1>5. /\ bucketOf' \in [Names -> 0..made']
      /\ made' \in 0..MaxBuckets /\ made <= made' /\ made' \in Nat
      /\ moves' \in [1..MaxBuckets -> Moments]
  BY <1>0, <1>1, <1>4, PerformType
<1>6. Injective'
  BY <1>0, <1>1, <1>4, PerformInjective
<1>7. served(calls[t]) \in CallSet(made') /\ ThreadInv(served(calls[t]), buckets[t], bucketOf', made', moves')
  BY <1>0, <1>1, <1>3, PerformServed DEF served
<1>8. \A u \in Threads : calls'[u] = IF u = t THEN served(calls[t]) ELSE calls[u]
  BY <1>1, <1>3
<1>9. CallSet(made) \subseteq CallSet(made') /\ BucketSet(made) \subseteq BucketSet(made')
  BY <1>0, <1>5, CallSetGrows, BucketSetGrows
<1>10. TypeOK'
  <2>1. calls' \in [Threads -> CallSet(made')]
    BY <1>1, <1>3, <1>7, <1>8, <1>9
  <2>2. buckets' \in [Threads -> BucketSet(made')]
    BY <1>2, <1>3, <1>9
  <2> QED BY <1>2, <1>3, <1>5, <2>1, <2>2, TypeMeansNext
<1>11. \A u \in Threads : ThreadInv(calls[u], buckets[u], bucketOf', made', moves')
  BY <1>0, <1>1, <1>3, <1>4, PerformThread
<1> QED BY <1>2, <1>6, <1>7, <1>8, <1>10, <1>11, InvMeansNext

\* The server sees a request that its client has given up.
LEMMA ServeLateInv == ASSUME IInv, ServeLate PROVE IInv'
<1>0. TypeOK /\ Injective /\ made \in Nat /\ \A u \in Threads : ThreadInv(calls[u], buckets[u], bucketOf, made, moves)
  BY DEF IInv, TypeOK
<1>1. PICK r \in late : Perform(r) /\ late' = late \ {r}
  BY DEF ServeLate
<1>2. UNCHANGED <<calls, buckets>>
  BY DEF ServeLate
<1>3. /\ calls \in [Threads -> CallSet(made)] /\ buckets \in [Threads -> BucketSet(made)]
      /\ \A u \in Threads : buckets[u].open => buckets[u].home # None /\ buckets[u].path # NoName
      /\ late \subseteq Requests
  BY <1>0, TypeMeans
<1>4. /\ bucketOf' \in [Names -> 0..made']
      /\ made' \in 0..MaxBuckets /\ made <= made' /\ made' \in Nat
      /\ moves' \in [1..MaxBuckets -> Moments]
  BY <1>0, <1>1, <1>3, PerformType
<1>5. CallSet(made) \subseteq CallSet(made') /\ BucketSet(made) \subseteq BucketSet(made')
  BY <1>0, <1>4, CallSetGrows, BucketSetGrows
<1>6. TypeOK'
  <2>1. calls' \in [Threads -> CallSet(made')] /\ buckets' \in [Threads -> BucketSet(made')]
    BY <1>2, <1>3, <1>5
  <2> QED BY <1>1, <1>2, <1>3, <1>4, <2>1, TypeMeansNext
<1>7. Injective'
  BY <1>0, <1>1, <1>3, PerformInjective
<1>8. \A u \in Threads : ThreadInv(calls[u], buckets[u], bucketOf', made', moves')
  BY <1>0, <1>1, <1>3, PerformThread
<1> QED BY <1>2, <1>6, <1>7, <1>8, InvMeansNext

\* A call on a name or on the Bucket of its thread begins with a request of that
\* name or of the names of the Bucket.
LEMMA BeginInv == ASSUME IInv, Begin PROVE IInv'
<1> DEFINE sent(op, r) == Call(op, r, "sent", 0, None, 0)
<1>0. TypeOK /\ made \in Nat /\ \A u \in Threads : BucketKnows(buckets[u], bucketOf, made, moves)
  BY DEF IInv, TypeOK, ThreadInv
<1>1. PICK t \in Threads :
        \/ \E n \in Names : Open(t, n)
        \/ buckets[t].open /\ (Data(t) \/ Remove(t) \/ (\E new \in Names : Rename(t, new)) \/ CreateQueryLink(t))
  BY DEF Begin
<1>2. UNCHANGED <<bucketOf, made, moves, late, buckets>>
  BY DEF Begin
<1>3. ASSUME NEW op \in Ops, NEW verb \in {"head", "create", "delete", "data", "link", "rename"},
             NEW n \in Names, NEW new \in Names, Send(t, op, Request(verb, n, new)),
             op \in Opening => verb \in {"head", "create"},
             op = "Rename" => verb = "rename",
             op \in {"Data", "Remove"} => verb \in {"data", "delete"},
             op \in {"Data", "Remove", "Rename"} => buckets[t].open /\ n \in {buckets[t].path, buckets[t].ioPath}
      PROVE  IInv'
  <2>1. Request(verb, n, new) \in Requests /\ Request(verb, n, new).verb = verb /\ Request(verb, n, new).name = n
    BY DEF Request, Requests
  <2>2. sent(op, Request(verb, n, new)).op = op /\ sent(op, Request(verb, n, new)).request = Request(verb, n, new)
    BY DEF Call
  <2>3. CallFits(sent(op, Request(verb, n, new)), buckets[t])
    BY <1>3, <2>1, <2>2 DEF CallFits
  <2> QED BY <1>2, <1>3, <2>1, <2>3, SendInv
<1>4. ASSUME NEW n \in Names, Open(t, n) PROVE IInv'
  BY <1>3, <1>4 DEF Open, Ops, Opening
<1>5. buckets[t].open => buckets[t].path \in Names /\ buckets[t].ioPath \in Names /\ buckets[t].name \in Names
  BY <1>0 DEF BucketKnows
<1>6. CASE buckets[t].open /\ Data(t)
  BY <1>3, <1>5, <1>6 DEF Data, Ops, Opening
<1>7. CASE buckets[t].open /\ Remove(t)
  BY <1>3, <1>5, <1>7 DEF Remove, Ops, Opening
<1>8. ASSUME buckets[t].open, NEW new \in Names, Rename(t, new) PROVE IInv'
  BY <1>3, <1>5, <1>8 DEF Rename, Ops, Opening
<1>9. CASE buckets[t].open /\ CreateQueryLink(t)
  BY <1>3, <1>5, <1>9 DEF CreateQueryLink, Ops, Opening
<1> QED BY <1>1, <1>4, <1>6, <1>7, <1>8, <1>9

LEMMA CreateMissingInv == ASSUME IInv, CreateMissing PROVE IInv'
<1> DEFINE req(t) == Request("create", calls[t].request.name, calls[t].request.name)
           sent(t) == Call("GetOrCreateBucket", req(t), "sent", 0, None, 0)
<1>1. PICK t \in Threads : Answered(t) /\ Send(t, "GetOrCreateBucket", req(t))
  BY DEF CreateMissing
<1>2. UNCHANGED <<bucketOf, made, moves, late, buckets>>
  BY DEF CreateMissing
<1>3. calls[t].request \in Requests
  BY <1>1 DEF IInv, ThreadInv, CallFits, Answered
<1>4. req(t) \in Requests /\ req(t).verb = "create"
  BY <1>3 DEF Request, Requests
<1>5. sent(t).op = "GetOrCreateBucket" /\ sent(t).request = req(t)
  BY DEF Call
<1>6. CallFits(sent(t), buckets[t])
  BY <1>4, <1>5 DEF CallFits
<1> HIDE DEF req
<1> QED BY <1>1, <1>2, <1>4, <1>6, SendInv DEF Ops

\* A call returns and leaves its Bucket as it is.
LEMMA PlainReturnInv ==
  ASSUME IInv, NEW t \in Threads, Return(t), late' \subseteq Requests, UNCHANGED <<bucketOf, made, moves, buckets>>
  PROVE  IInv'
<1>1. buckets \in [Threads -> BucketSet(made)]
  BY TypeMeans DEF IInv
<1>2. BucketKnows(buckets[t], bucketOf, made, moves)
  BY DEF IInv, ThreadInv
<1>3. buckets' = [buckets EXCEPT ![t] = buckets[t]]
  BY <1>1
<1>4. UNCHANGED <<bucketOf, made, moves>> /\ buckets[t] \in BucketSet(made)
  BY <1>1
<1> QED BY <1>2, <1>3, <1>4, ReturnInv

LEMMA ReturnBucketInv == ASSUME IInv, ReturnBucket PROVE IInv'
<1>1. PICK t \in Threads :
        /\ Answered(t) /\ calls[t].op \in Opening /\ ~Refused(calls[t]) /\ Return(t)
        /\ buckets' = [buckets EXCEPT ![t] = Bucket(calls[t].request.name, calls[t].hit, calls[t].seen)]
  BY DEF ReturnBucket
<1> DEFINE c == calls[t]
           b == Bucket(c.request.name, c.hit, c.seen)
<1>2. UNCHANGED <<bucketOf, made, moves, late>>
  BY DEF ReturnBucket
<1>3. c \in CallSet(made) /\ made \in Nat /\ late \subseteq Requests
  BY TypeMeans DEF IInv, TypeOK
<1>4. c.hit \in 0..made /\ c.seen \in Moments
  BY <1>3 DEF CallSet
<1>5. CallFits(c, buckets[t]) /\ AnswerLeads(c, buckets[t], bucketOf, made, moves)
  BY DEF IInv, ThreadInv
<1>6. c.request.name \in Names
  BY <1>1, <1>5 DEF CallFits, Answered, Requests
<1>7. /\ c.hit \in 1..made /\ c.seen <= moves[c.hit]
      /\ moves[c.hit] = c.seen => bucketOf[c.request.name] = c.hit
  BY <1>1, <1>5 DEF AnswerLeads, Answered, Refused
<1> HIDE DEF b
<1>8. /\ b \in BucketSet(made)
      /\ b.open /\ b.name = c.request.name /\ b.path = c.request.name /\ b.ioPath = c.request.name
      /\ b.home = c.hit /\ b.seen = c.seen
  BY <1>3, <1>4, <1>6, BucketType DEF b, AnyName
<1>9. BucketKnows(b, bucketOf, made, moves)
  BY <1>6, <1>7, <1>8 DEF BucketKnows
<1> QED BY <1>1, <1>2, <1>3, <1>8, <1>9, ReturnInv DEF b

\* Rename went well: if the bucket renamed is the Bucket's own and has not moved
\* since, the new name leads to it; if it is another one, the Bucket was not up to
\* date before and is not now.
LEMMA ReturnRenamedInv == ASSUME IInv, ReturnRenamed PROVE IInv'
<1>1. PICK t \in Threads :
        /\ Answered(t) /\ calls[t].op = "Rename" /\ ~Refused(calls[t]) /\ Return(t)
        /\ buckets' = [buckets EXCEPT ![t] = Renamed(buckets[t], calls[t])]
  BY DEF ReturnRenamed
<1> DEFINE c == calls[t]
           b == buckets[t]
           d == Renamed(b, c)
<1>2. UNCHANGED <<bucketOf, made, moves, late>>
  BY DEF ReturnRenamed
<1>3. c \in CallSet(made) /\ b \in BucketSet(made) /\ made \in Nat /\ late \subseteq Requests
  BY TypeMeans, SMTT(30) DEF IInv, TypeOK
<1>4. CallFits(c, b) /\ AnswerLeads(c, b, bucketOf, made, moves) /\ BucketKnows(b, bucketOf, made, moves)
  BY DEF IInv, ThreadInv
<1>5. c.request \in Requests /\ c.request.new \in Names
  BY <1>1, <1>4 DEF CallFits, Answered, Requests
<1>6. /\ c.hit \in 1..made /\ c.seen <= moves[c.hit]
      /\ moves[c.hit] = c.seen => bucketOf[c.request.new] = c.hit
      /\ b.open /\ moves[b.home] = b.seen => c.hit = b.home
  BY <1>1, <1>4 DEF AnswerLeads, Answered, Refused
<1> HIDE DEF d
<1>7. /\ d \in BucketSet(made)
      /\ d.open = b.open /\ d.name = b.name /\ d.home = b.home
      /\ d.path = c.request.new /\ d.ioPath = c.request.new
      /\ d.seen = IF c.hit = b.home THEN c.seen ELSE b.seen
  BY <1>3, <1>5, RenamedType DEF d
<1>8. BucketKnows(d, bucketOf, made, moves)
  BY <1>4, <1>5, <1>6, <1>7 DEF BucketKnows
<1> QED BY <1>1, <1>2, <1>3, <1>7, <1>8, ReturnInv DEF d

LEMMA InvNext == IInv /\ [Next]_vars => IInv'
<1> SUFFICES ASSUME IInv, [Next]_vars PROVE IInv'
  OBVIOUS
<1>0. late \subseteq Requests
  BY DEF IInv, TypeOK
<1>1. CASE ReturnError
  BY <1>0, <1>1, PlainReturnInv DEF ReturnError
<1>2. CASE ReturnOk
  BY <1>0, <1>2, PlainReturnInv DEF ReturnOk
<1>3. CASE Lose
  <2>1. PICK t \in Threads : /\ calls[t].phase \in {"sent", "served"} /\ Return(t)
                             /\ late' \in {late, late \cup {calls[t].request}}
    BY <1>3 DEF Lose
  <2>2. calls[t].request \in Requests
    BY <2>1 DEF IInv, ThreadInv, CallFits
  <2>3. UNCHANGED <<bucketOf, made, moves, buckets>>
    BY <1>3 DEF Lose
  <2> QED BY <1>0, <2>1, <2>2, <2>3, PlainReturnInv
<1>4. CASE UNCHANGED vars
  BY <1>4, InvMeansNext DEF vars, IInv, TypeOK, Injective
<1> QED BY <1>1, <1>2, <1>3, <1>4, BeginInv, ServeInv, ServeLateInv, CreateMissingInv, ReturnBucketInv,
           ReturnRenamedInv DEF Next

LEMMA InvHolds == Spec => []IInv
  BY InvInit, InvNext, PTL DEF Spec

-----------------------------------------------------------------------------

\* Every state has its type: in particular an open Bucket has a bucket and a path
\* (client.cc 120-150, bucket.cc 46-54).
THEOREM TypeCorrect == Spec => []TypeOK
  BY InvHolds, PTL DEF IInv

\* For any number of threads, names and buckets, a Bucket that knows of every
\* rename of its bucket has paths that lead to it (client.cc 120-150, bucket.cc
\* 537-547).
THEOREM PathsLeadHomeCorrect == Spec => []PathsLeadHome
  BY InvHolds, InvImplies, PTL

\* And what it reads, writes, renames and removes is its own bucket (bucket.cc
\* 74-172, 319-347).
THEOREM DataGoesHomeCorrect == Spec => []DataGoesHome
  BY InvHolds, InvImplies, PTL
=============================================================================
