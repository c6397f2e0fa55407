---------------------------- MODULE RecordReader ----------------------------
(***************************************************************************)
(* How the records of one response share its body: the receiver of the     *)
(* HTTP client appends chunks to the deque `data` (bucket.cc 682-695) while *)
(* the callback worker calls Read of one record after the other            *)
(* (bucket.cc 797-827, batch_v1.cc 142-184, batch_v2.cc 302-344).  Read of *)
(* a batched record cuts the chunk that reaches into the next record in    *)
(* two and pushes the rest back.                                           *)
(*                                                                         *)
(* A byte is its position in the body; a chunk is a sequence of bytes.     *)
(***************************************************************************)
EXTENDS Integers, Sequences

CONSTANTS Protocols,   \* of "single", "v1", "v2": who built the records
          MaxRecords,  \* bound: records in the response
          Sizes,       \* record sizes to choose from
          MaxChunk,    \* bound: bytes the client receives at once
          Habits       \* sets of "skip", "partial", "again": what callbacks may do
                       \* besides reading their record once and to the end

ASSUME RecordReaderAssumption ==
  /\ Protocols \subseteq {"single", "v1", "v2"}
  /\ MaxRecords \in Nat \ {0}
  /\ Sizes \subseteq Nat
  /\ MaxChunk \in Nat \ {0}
  /\ Habits \subseteq SUBSET {"skip", "partial", "again"}

VARIABLES
  proto,   \* protocol of the response
  habits,  \* what its callbacks may do
  sizes,   \* sizes of its records, from the headers
  sent,    \* bytes of the body received so far
  data,    \* the deque: chunks, then End
  rpc,     \* "between" records, "read", "deliver" a chunk, "after" Read, "crashed"
  rec,     \* record whose callback runs or ran last
  total,   \* local `total` of Read
  chunk,   \* local `chunk` of Read
  log      \* history: bytes given to callbacks, as [rec, byte]

vars == <<proto, habits, sizes, sent, data, rpc, rec, total, chunk, log>>

\* std::nullopt in the deque, where every chunk has at least one byte.
End == <<>>

\* Offset[i]: bytes of the body before record i + 1.
Offset == LET before[i \in 0..Len(sizes)] ==
                IF i = 0 THEN 0 ELSE before[i - 1] + sizes[i]
          IN  before

BodySize == Offset[Len(sizes)]

Init == /\ proto \in Protocols
        /\ habits \in Habits
        /\ \E n \in IF proto = "single" THEN {1} ELSE 1..MaxRecords : sizes \in [1..n -> Sizes]
        /\ sent = 0
        /\ data = <<>>
        /\ rpc = "between"
        /\ rec = 0
        /\ total = 0
        /\ chunk = <<>>
        /\ log = <<>>

-----------------------------------------------------------------------------
(* The thread that receives the body.                                      *)

Closed == sent > BodySize

ReceiveChunk ==
  /\ sent < BodySize
  /\ \E n \in 1..MaxChunk :
       /\ sent + n <= BodySize
       /\ data' = Append(data, [k \in 1..n |-> sent + k])
       /\ sent' = sent + n
  /\ UNCHANGED <<proto, habits, sizes, rpc, rec, total, chunk, log>>

\* "we use nullptr to indicate the end of the stream"
CloseStream ==
  /\ sent = BodySize
  /\ data' = Append(data, End)
  /\ sent' = BodySize + 1
  /\ UNCHANGED <<proto, habits, sizes, rpc, rec, total, chunk, log>>

-----------------------------------------------------------------------------
(* The worker: callbacks for the records in turn, and Read.                *)

Record == sizes[rec]

\* Bytes Read may still take: size - total.  A single record has the whole body.
Room == IF proto = "single" THEN BodySize ELSE Record - total

\* Mutant: one record too many.
EnterRecordMutant ==
  /\ rpc = "between"
  /\ rec <= Len(sizes)
  /\ rec' = rec + 1
  /\ rpc' = "read"
  /\ UNCHANGED <<proto, habits, sizes, sent, data, total, chunk, log>>

\* The callback for the next record calls Read.
EnterRecord ==
  /\ rpc = "between"
  /\ rec < Len(sizes)
  /\ rec' = rec + 1
  /\ rpc' = "read"
  /\ UNCHANGED <<proto, habits, sizes, sent, data, total, chunk, log>>

\* The callback returns without calling Read.
SkipRecord ==
  /\ "skip" \in habits
  /\ rpc = "between"
  /\ rec < Len(sizes)
  /\ rec' = rec + 1
  /\ UNCHANGED <<proto, habits, sizes, sent, data, rpc, total, chunk, log>>

\* Bytes of the first chunk that Read takes.
Cut == IF Len(Head(data)) > Room THEN Room ELSE Len(Head(data))

Rest == SubSeq(Head(data), Cut + 1, Len(Head(data)))

Take(n, remaining) ==
  /\ chunk' = SubSeq(Head(data), 1, n)
  /\ data' = remaining
  /\ rpc' = IF n = 0 THEN "read" ELSE "deliver"
  /\ UNCHANGED <<proto, habits, sizes, sent, rec, total, log>>

ChunkReady == rpc = "read" /\ data # <<>> /\ Head(data) # End

\* Mutants: the rest of a chunk is lost, or goes to the back.
TakeChunkLosingRest == ChunkReady /\ Take(Cut, Tail(data))
TakeChunkPushingBack ==
  ChunkReady /\ Take(Cut, IF Rest = <<>> THEN Tail(data) ELSE Append(Tail(data), Rest))

\* Under the lock: take the first chunk, or the part of it that has room, and
\* push the rest back.  An empty chunk is not delivered: Read sleeps and retries.
TakeChunk ==
  ChunkReady /\ Take(Cut, IF Rest = <<>> THEN Tail(data) ELSE <<Rest>> \o Tail(data))

\* The deque is empty: sleep 100 us and look again.
Poll ==
  /\ rpc = "read"
  /\ data = <<>>
  /\ UNCHANGED vars

\* Read finds the end marker, takes it away and returns.
ReadToEnd ==
  /\ rpc = "read"
  /\ data # <<>>
  /\ Head(data) = End
  /\ data' = Tail(data)
  /\ rpc' = "after"
  /\ UNCHANGED <<proto, habits, sizes, sent, rec, total, chunk, log>>

\* The V1 reader asks the end marker for its size before it looks whether there
\* is a chunk: a build that checks optional aborts there, others read 0.
ReadToEndUnchecked ==
  /\ proto = "v1"
  /\ rpc = "read"
  /\ data # <<>>
  /\ Head(data) = End
  /\ rpc' = "crashed"
  /\ UNCHANGED <<proto, habits, sizes, sent, data, rec, total, chunk, log>>

GiveChunk ==
  /\ rpc = "deliver"
  /\ log' = log \o [k \in 1..Len(chunk) |-> [rec |-> rec, byte |-> chunk[k]]]
  /\ total' = total + Len(chunk)
  /\ chunk' = <<>>
  /\ UNCHANGED <<proto, habits, sizes, sent, data, rec>>

\* Mutants: Read goes on past the size of its record, or stops after one chunk.
DeliverForEver == GiveChunk /\ rpc' = "read"
DeliverOnce    == GiveChunk /\ rpc' = "after"

\* record_callback(chunk), which may refuse more only if callbacks read partially.
Deliver ==
  /\ GiveChunk
  /\ \/ rpc' = IF proto # "single" /\ total' >= Record THEN "after" ELSE "read"
     \/ "partial" \in habits /\ rpc' = "after"

\* The callback calls Read of the same record once more.
ReadAgain ==
  /\ "again" \in habits
  /\ rpc = "after"
  /\ total' = 0
  /\ rpc' = "read"
  /\ UNCHANGED <<proto, habits, sizes, sent, data, rec, chunk, log>>

LeaveRecord ==
  /\ rpc = "after"
  /\ rpc' = "between"
  /\ total' = 0
  /\ UNCHANGED <<proto, habits, sizes, sent, data, rec, chunk, log>>

ReaderStep ==
  \/ EnterRecord \/ SkipRecord \/ TakeChunk \/ Poll \/ ReadToEnd \/ ReadToEndUnchecked
  \/ Deliver \/ ReadAgain \/ LeaveRecord

\* All records handled and the body complete, or the process is gone.
Finished == /\ rpc = "crashed" \/ (rpc = "between" /\ rec = Len(sizes) /\ Closed)
            /\ UNCHANGED vars

Next == ReceiveChunk \/ CloseStream \/ ReaderStep \/ Finished

Spec == Init /\ [][Next]_vars

\* The body arrives and the worker runs.
LiveSpec == Spec /\ WF_vars(ReceiveChunk \/ CloseStream) /\ WF_vars(ReaderStep)

-----------------------------------------------------------------------------
(* Properties.                                                             *)

Byte == 1..BodySize

TypeOK ==
  /\ proto \in Protocols
  /\ habits \in Habits
  /\ sizes \in Seq(Sizes)
  /\ sent \in Nat
  /\ data \in Seq(Seq(Byte))
  /\ rpc \in {"between", "read", "deliver", "after", "crashed"}
  /\ rec \in 0..Len(sizes)
  /\ total \in Nat
  /\ chunk \in Seq(Byte)
  /\ log \in Seq([rec : Nat, byte : Byte])

\* The bytes of record i in the body, and those its callback was given.
Own(i) == Offset[i - 1] + 1 .. Offset[i]
Given(i) == {log[k].byte : k \in {j \in 1..Len(log) : log[j].rec = i}}

\* A record's callback is given bytes of that record only, from its first byte
\* on and without a gap, however the network cut the body; their order is
\* BytesInOrder's.
OwnBytes ==
  \A i \in 1..Len(sizes) : \A b \in Given(i) :
    /\ b \in Own(i)
    /\ Offset[i - 1] + 1 .. b \subseteq Given(i)

\* Callbacks read each record once and to the end.
Careful == habits = {}

\* Read of a batched record knows an empty one only by its size.
SomeBytes == \A i \in 1..Len(sizes) : sizes[i] > 0

\* OwnBytes, if callbacks are careful (batch_v2.cc 307-341, batch_v1.cc 147-181).
CarefulGetOwnBytes == Careful => OwnBytes

\* Once a record has been handled its careful callback has had all of it.
WholeRecords ==
  Careful => \A i \in 1..Len(sizes) :
               i < rec \/ (i = rec /\ rpc = "between") => Given(i) = Own(i)

\* If callbacks are careful Read never asks the end marker for a size
\* (batch_v1.cc 152-156): every byte of the record comes before it.
NoCrash == Careful /\ SomeBytes => rpc # "crashed"

\* Whatever the callbacks do, no byte of the body is given twice or out of order
\* (the rest of a chunk goes back to the front, batch_v2.cc 316-320).
BytesInOrder == \A j, k \in 1..Len(log) : j < k => log[j].byte < log[k].byte

\* Every Read returns (bucket.h 107-124).  Of an empty record in a batch it only
\* does by taking the end marker, of which there is one.
ReadReturns == rpc \in {"read", "deliver"} ~> rpc \in {"after", "crashed"}

\* Read of records that are not empty returns to careful callbacks: it ends on
\* the size of the record although no end marker is left for it.
CarefulReadReturns ==
  Careful /\ SomeBytes /\ rpc \in {"read", "deliver"} ~> rpc = "after"
=============================================================================
