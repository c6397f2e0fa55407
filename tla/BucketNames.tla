---------------------------- MODULE BucketNames ----------------------------
(***************************************************************************)
(* How Client and Bucket objects find a bucket by name: opening (client.cc *)
(* 120-150), the paths a Bucket keeps and what it asks of them (bucket.cc  *)
(* 46-54, 74-172, 319-347), Rename and query links (bucket.cc 531-621).    *)
(*                                                                         *)
(* Each thread has a client of its own and at most one Bucket, which it    *)
(* shares with nobody: Rename is not const and takes no lock.  A call is   *)
(* one request after another; a request is served by the server at one     *)
(* instant between its sending and its answer.  The server is external:    *)
(* it keeps bucket names unique, answers 404 for a name it does not know   *)
(* and 409 for one that is taken, and goes on with a request whose client  *)
(* has given up.  Buckets are numbered as they are made, so that one made  *)
(* under an old name is told from the one that had it before.              *)
(***************************************************************************)
EXTENDS Naturals, FiniteSets

CONSTANTS Threads,
          Names,       \* bucket names
          NoName,
          MaxBuckets,  \* bound: buckets ever made
          MaxMoves,    \* bound: renames and removals of one bucket
          MaxLate,     \* bound: given up requests under way at once
          MayLose      \* may requests and answers be lost or come too late?

ASSUME BucketNamesAssumption == /\ NoName \notin Names
                                /\ MaxBuckets \in Nat
                                /\ MaxMoves \in Nat
                                /\ MaxLate \in Nat
                                /\ MayLose \in BOOLEAN

None == 0  \* no bucket

VARIABLES
  bucketOf,  \* server: the bucket that has a name, or None
  made,      \* number of buckets made so far
  moves,     \* history: how often a bucket has been renamed or removed
  calls,     \* the call of each thread and its request
  late,      \* requests given up by their clients that the server has yet to see
  buckets    \* the Bucket object of each thread

vars == <<bucketOf, made, moves, calls, late, buckets>>

-----------------------------------------------------------------------------
(* Requests.                                                               *)

Request(verb, name, new) == [verb |-> verb, name |-> name, new |-> new]

\* "head", "create", "delete" of a bucket; "data" is any request on its entries,
\* records or settings.
Requests == [verb : {"head", "create", "delete", "data", "link", "rename"}, name : Names, new : Names]

NoRequest == Request("none", NoName, NoName)

Ops == {"GetBucket", "CreateBucket", "GetOrCreateBucket", "Rename", "Remove", "Data", "CreateQueryLink"}

Opening == {"GetBucket", "CreateBucket", "GetOrCreateBucket"}

Codes == {0, 200, 404, 409}  \* 0: none yet

\* A call: its operation, the request in progress, how far that is, the status
\* of its answer and, of the bucket the server found, number and moves.
Call(op, request, phase, code, hit, seen) ==
  [op |-> op, request |-> request, phase |-> phase, code |-> code, hit |-> hit, seen |-> seen]

Send(t, op, request) == calls' = [calls EXCEPT ![t] = Call(op, request, "sent", 0, None, 0)]

NoCall == Call("Data", NoRequest, "none", 0, None, 0)

\* What a call returned is not kept.
Return(t) == calls' = [calls EXCEPT ![t] = NoCall]

-----------------------------------------------------------------------------
(* Bucket objects.                                                         *)

\* home, seen: history, the bucket it was opened on and the moves it knows of.
Bucket(name, home, seen) ==
  [open |-> TRUE, name |-> name, path |-> name, ioPath |-> name, home |-> home, seen |-> seen]

NoBucket == [Bucket(NoName, None, 0) EXCEPT !.open = FALSE]

Init ==
  /\ bucketOf = [n \in Names |-> None]
  /\ made = 0
  /\ moves = [b \in 1..MaxBuckets |-> 0]
  /\ calls = [t \in Threads |-> NoCall]
  /\ late = {}
  /\ buckets = [t \in Threads |-> NoBucket]

-----------------------------------------------------------------------------
(* Calls begin.                                                            *)

Open(t, n) == \/ Send(t, "GetBucket", Request("head", n, n))
              \/ Send(t, "CreateBucket", Request("create", n, n))
              \/ Send(t, "GetOrCreateBucket", Request("head", n, n))

\* Reads, writes and whatever else is asked of a bucket uses path_, or io_path_
\* when the batch protocol V2 is used.
Data(t) == \E path \in {buckets[t].path, buckets[t].ioPath} :
             Send(t, "Data", Request("data", path, path))

Remove(t) == Send(t, "Remove", Request("delete", buckets[t].path, buckets[t].path))

Rename(t, new) == Send(t, "Rename", Request("rename", buckets[t].path, new))

\* The name of the bucket goes into the body of the request.
CreateQueryLink(t) == Send(t, "CreateQueryLink", Request("link", buckets[t].name, buckets[t].name))

Begin ==
  /\ \E t \in Threads :
       /\ calls[t] = NoCall
       /\ \/ \E n \in Names : Open(t, n)
          \/ /\ buckets[t].open
             /\ \/ Data(t)
                \/ Remove(t)
                \/ \E new \in Names : Rename(t, new)
                \/ CreateQueryLink(t)
  /\ UNCHANGED <<bucketOf, made, moves, late, buckets>>

-----------------------------------------------------------------------------
(* The server.                                                             *)

Code(r) == IF r.verb = "create" THEN IF bucketOf[r.name] = None THEN 200 ELSE 409
           ELSE IF bucketOf[r.name] = None THEN 404
           ELSE IF r.verb = "rename" /\ bucketOf[r.new] # None THEN 409
           ELSE 200

\* The bucket a request is about.
Found(r) == IF r.verb = "create" /\ Code(r) = 200 THEN made + 1 ELSE bucketOf[r.name]

Moved(r) == r.verb \in {"delete", "rename"} /\ Code(r) = 200

Perform(r) ==
  /\ r.verb = "create" => made < MaxBuckets
  /\ Moved(r) => moves[bucketOf[r.name]] < MaxMoves
  /\ made' = IF r.verb = "create" /\ Code(r) = 200 THEN made + 1 ELSE made
  /\ moves' = IF Moved(r) THEN [moves EXCEPT ![bucketOf[r.name]] = @ + 1] ELSE moves
  /\ bucketOf' = [n \in Names |->
                    IF Code(r) # 200 THEN bucketOf[n]
                    ELSE IF r.verb = "create" /\ n = r.name THEN made + 1
                    ELSE IF r.verb = "rename" /\ n = r.new THEN bucketOf[r.name]
                    ELSE IF r.verb \in {"rename", "delete"} /\ n = r.name THEN None
                    ELSE bucketOf[n]]

Serve ==
  /\ \E t \in Threads :
       LET r == calls[t].request
       IN  /\ calls[t].phase = "sent"
           /\ Perform(r)
           /\ calls' = [calls EXCEPT ![t] = Call(calls[t].op, r, "served", Code(r), Found(r),
                                                 IF Found(r) = None THEN 0 ELSE moves'[Found(r)])]
  /\ UNCHANGED <<late, buckets>>

ServeLate == /\ \E r \in late : Perform(r) /\ late' = late \ {r}
             /\ UNCHANGED <<calls, buckets>>

-----------------------------------------------------------------------------
(* Calls go on with the answer.                                            *)

\* GetOrCreateBucket looks first.
Missing(c) == c.op = "GetOrCreateBucket" /\ c.request.verb = "head" /\ c.code = 404

\* Mutant: 404 is not taken for an error.
RefusedMutant(c) == c.code \notin {200, 404}

Refused(c) == c.code # 200

Answered(t) == calls[t].phase = "served"

CreateMissing ==
  /\ \E t \in Threads :
       /\ Answered(t)
       /\ Missing(calls[t])
       /\ Send(t, "GetOrCreateBucket", Request("create", calls[t].request.name, calls[t].request.name))
  /\ UNCHANGED <<bucketOf, made, moves, late, buckets>>

ReturnError ==
  /\ \E t \in Threads :
       /\ Answered(t)
       /\ Refused(calls[t]) /\ ~Missing(calls[t])
       /\ Return(t)
  /\ UNCHANGED <<bucketOf, made, moves, late, buckets>>

\* A Bucket object is built.
ReturnBucket ==
  /\ \E t \in Threads :
       /\ Answered(t)
       /\ calls[t].op \in Opening
       /\ ~Refused(calls[t]) /\ ~Missing(calls[t])
       /\ Return(t)
       /\ buckets' = [buckets EXCEPT ![t] = Bucket(calls[t].request.name, calls[t].hit, calls[t].seen)]
  /\ UNCHANGED <<bucketOf, made, moves, late>>

\* Mutant: io_path_ stays as it was, too.
RenamedMutant(b, c) == [b EXCEPT !.path = c.request.new, !.seen = IF c.hit = b.home THEN c.seen ELSE @]

\* Mutant: path_ stays as it was.
RenamedIoMutant(b, c) == [b EXCEPT !.ioPath = c.request.new, !.seen = IF c.hit = b.home THEN c.seen ELSE @]

\* name_ stays as it was; seen is history.
Renamed(b, c) == [b EXCEPT !.path = c.request.new, !.ioPath = c.request.new,
                           !.seen = IF c.hit = b.home THEN c.seen ELSE @]

ReturnRenamed ==
  /\ \E t \in Threads :
       /\ Answered(t)
       /\ calls[t].op = "Rename"
       /\ ~Refused(calls[t])
       /\ Return(t)
       /\ buckets' = [buckets EXCEPT ![t] = Renamed(@, calls[t])]
  /\ UNCHANGED <<bucketOf, made, moves, late>>

ReturnOk ==
  /\ \E t \in Threads :
       /\ Answered(t)
       /\ calls[t].op \in {"Remove", "Data", "CreateQueryLink"}
       /\ ~Refused(calls[t])
       /\ Return(t)
  /\ UNCHANGED <<bucketOf, made, moves, late, buckets>>

\* The request cannot be sent, its answer is lost or comes after the timeout.
\* Unless it was lost itself, the server will still see the request, which
\* matters if it changes names.
Lose ==
  /\ MayLose
  /\ \E t \in Threads :
       /\ calls[t].phase \in {"sent", "served"}
       /\ Return(t)
       /\ \/ late' = late
          \/ /\ calls[t].phase = "sent"
             /\ calls[t].request.verb \in {"create", "delete", "rename"}
             /\ Cardinality(late) < MaxLate
             /\ late' = late \cup {calls[t].request}
  /\ UNCHANGED <<bucketOf, made, moves, buckets>>

Next == \/ Begin \/ Serve \/ ServeLate \/ Lose
        \/ CreateMissing \/ ReturnError \/ ReturnBucket \/ ReturnRenamed \/ ReturnOk

Spec == Init /\ [][Next]_vars

-----------------------------------------------------------------------------
(* Properties.                                                             *)

TypeOK ==
  /\ bucketOf \in [Names -> 0..made]
  /\ made \in 0..MaxBuckets
  /\ moves \in [1..MaxBuckets -> 0..MaxMoves]
  /\ calls \in [Threads -> [op : Ops, request : Requests \cup {NoRequest}, phase : {"none", "sent", "served"},
                            code : Codes, hit : 0..made, seen : 0..MaxMoves]]
  /\ late \subseteq Requests
  /\ buckets \in [Threads -> [open : BOOLEAN, name : Names \cup {NoName},
                              path : Names \cup {NoName}, ioPath : Names \cup {NoName},
                              home : 0..made, seen : 0..MaxMoves]]
  /\ \A t \in Threads : buckets[t].open => buckets[t].home # None /\ buckets[t].path # NoName

\* The object knows of every rename of its bucket, and the bucket is not removed.
UpToDate(t) == buckets[t].open /\ moves[buckets[t].home] = buckets[t].seen

\* As long as a Bucket knows of all renames both its paths lead to the bucket it
\* was opened on: whatever calls were refused, lost or served late, and whoever
\* else renames, removes and makes buckets (client.cc 120-150, bucket.cc 537-547).
PathsLeadHome ==
  \A t \in Threads : UpToDate(t) => /\ bucketOf[buckets[t].path] = buckets[t].home
                                    /\ bucketOf[buckets[t].ioPath] = buckets[t].home

\* What a Bucket reads, writes or changes is then in its own bucket, by either
\* path (bucket.cc 74-172, 319-347).
DataGoesHome ==
  \A t \in Threads :
    Answered(t) /\ calls[t].op \in {"Data", "Remove", "Rename"} /\ UpToDate(t) =>
      calls[t].hit = buckets[t].home

\* "Creates a query link for accessing data ... entry in the bucket": a link is
\* one to the bucket of the object it is asked of (bucket.cc 557, 597).
LinksLeadHome ==
  \A t \in Threads :
    Answered(t) /\ calls[t].op = "CreateQueryLink" /\ UpToDate(t) => calls[t].hit = buckets[t].home

\* "Get an existing bucket or create a new bucket": as long as its requests are
\* answered, it does one or the other (client.cc 143-150).
GetsOrCreates ==
  \A t \in Threads :
    Answered(t) /\ calls[t].op = "GetOrCreateBucket" /\ Refused(calls[t]) => Missing(calls[t])
=============================================================================
