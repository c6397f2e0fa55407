----------------------------- MODULE BatchWrite -----------------------------
(***************************************************************************)
(* One batch operation of a Bucket (bucket.cc 174-188, 311-317, 922-966;   *)
(* batch_v1.cc 34-76, 193-271; batch_v2.cc 356-555): the callback adds     *)
(* records to a Batch, the records are sorted, each becomes a request      *)
(* header, the data of a write is sent in slices, and the errors in the    *)
(* response are mapped back to records.  The operation has two overloads,  *)
(* one for a given entry and one whose records name theirs, and speaks     *)
(* protocol V2 if the server is known to support it, else V1.              *)
(*                                                                         *)
(* Entry names are numbers in the order of the names; a byte is            *)
(* <<record, position>>.  The server is external: it goes through the      *)
(* headers by entry index and time and gives each the next bytes.          *)
(***************************************************************************)
EXTENDS Integers, Sequences, FiniteSets, SequencesExt

CONSTANTS Entries,     \* number of entry names
          Times,       \* timestamps to choose from
          Sizes,       \* sizes of record data to choose from
          MaxRecords,  \* bound: records in the batch
          MaxChunk,    \* kMaxChunkSize
          Types,       \* of "write", "update", "remove"
          Protocols    \* of 1, 2: what the server supports

ASSUME BatchWriteAssumption ==
  /\ Entries \in Nat \ {0}
  /\ Times \subseteq Nat
  /\ Sizes \subseteq Nat
  /\ MaxRecords \in Nat
  /\ MaxChunk \in Nat \ {0}
  /\ Types \subseteq {"write", "update", "remove"}
  /\ Protocols \subseteq {1, 2}

Entry == 1..Entries
Unnamed == 0    \* a record added without an entry name

VARIABLES
  overload, \* "entry" or "records"
  type,     \* BatchType
  protocol, \* what SupportsBatchProtocolV2 will choose
  phase,    \* "building", "sending" or "done"
  recs,     \* records_ of the batch, with the size of their data
  order,    \* `ordered`: indices of recs
  entries,  \* names of the request, by index; of V1 the one in the path
  start,    \* start_ts of the request
  headers,  \* the request's headers: from a key to the record it describes
  body,     \* bytes of the body sent so far
  rejected, \* history: keys the server reported an error for
  result,   \* "none" yet, "ok", "invalid" (nothing sent), "failed" or "aborted"
  errors    \* the error map returned, as [entry, ts]

request == <<order, entries, start, headers>>
vars == <<overload, type, protocol, phase, recs, request, body, rejected, result, errors>>

\* The entry given to the overload for an entry.
Given == 1

Init == /\ overload \in {"entry", "records"}
        /\ type \in Types
        /\ protocol \in Protocols
        /\ phase = "building"
        /\ recs = <<>>
        /\ order = <<>>
        /\ entries = <<>>
        /\ start = 0
        /\ headers = <<>>
        /\ body = <<>>
        /\ rejected = {}
        /\ result = "none"
        /\ errors = {}

-----------------------------------------------------------------------------
(* Building the request.                                                   *)

\* AddRecord and AddOnlyLabels, from the user's callback; only AddRecord with
\* data adds to body_ (data_index), even if the data is empty.
AddRecord ==
  /\ phase = "building"
  /\ Len(recs) < MaxRecords
  /\ \E e \in Entry \cup {Unnamed}, t \in Times, n \in Sizes, data \in BOOLEAN :
       /\ type # "write" => ~data
       /\ ~data => n = 0
       /\ recs' = Append(recs, [entry |-> e, ts |-> t, size |-> n, data |-> data])
  /\ UNCHANGED <<overload, type, protocol, phase, request, body, rejected, result, errors>>

RecordEntry(r, default) == IF r.entry = Unnamed THEN default ELSE r.entry

\* The order of SortRecords: by entry and time, or by time and entry.
Before(l, r, default, byEntry) ==
  LET le == RecordEntry(l, default)
      re == RecordEntry(r, default)
  IN  \/ byEntry /\ le < re
      \/ /\ byEntry => le = re
         /\ l.ts < r.ts \/ (l.ts = r.ts /\ le < re)

SortedBy(default, byEntry) ==
  {o \in SetToSeqs(1..Len(recs)) :
     \A i, j \in 1..Len(recs) : i < j => ~Before(recs[o[j]], recs[o[i]], default, byEntry)}

\* Mutant: sorts by time whatever it is asked for.
SortRecordsMutant(default, byEntry) == SortedBy(default, FALSE)

\* std::sort leaves records that compare equal in any order.
SortRecords(default, byEntry) == SortedBy(default, byEntry)

\* Mutant: the time of the first record of the sorted batch.
StartTimeMutant(o) == recs[o[1]].ts

StartTime(o) == CHOOSE t \in {recs[i].ts : i \in 1..Len(recs)} :
                  \A i \in 1..Len(recs) : t <= recs[i].ts

AddName(names, e) == IF Contains(names, e) THEN names ELSE Append(names, e)

\* The names in the order in which the sorted records first use them.
Names(o, default) ==
  LET names[k \in 0..Len(o)] ==
        IF k = 0 THEN <<>> ELSE AddName(names[k - 1], RecordEntry(recs[o[k]], default))
  IN  names[Len(o)]

Key(i, names, from, default) ==
  [idx |-> CHOOSE k \in 1..Len(names) : names[k] = RecordEntry(recs[i], default),
   delta |-> recs[i].ts - from]

\* Headers::emplace keeps the first of two records with the same key.
HeadersOf(o, names, from, default) ==
  LET key(k) == Key(o[k], names, from, default)
      first(x) == CHOOSE k \in 1..Len(o) : key(k) = x /\ \A j \in 1..(k - 1) : key(j) # x
  IN  [x \in {key(k) : k \in 1..Len(o)} |-> o[first(x)]]

Return(r, errs) == /\ phase' = "done"
                   /\ result' = r
                   /\ errors' = errs

Invalid == /\ Return("invalid", {})
           /\ UNCHANGED request

Send(o, names, from, default, path) ==
  /\ phase' = "sending"
  /\ order' = o
  /\ entries' = path
  /\ start' = from
  /\ headers' = HeadersOf(o, names, from, default)
  /\ UNCHANGED <<result, errors>>

\* V1 takes one entry, names it in the path and a record by its time.
ProcessBatchV1(default) ==
  LET unique == {RecordEntry(recs[i], default) : i \in 1..Len(recs)}
  IN  \/ Cardinality(unique) > 1 /\ Invalid
      \/ /\ Cardinality(unique) <= 1
         /\ \E o \in SortRecords(default, FALSE) :
              Send(o, Names(o, default), 0, default, <<default>>)

\* V2 lists the entries; a record is named by its entry's index and its time
\* since the earliest record.
ProcessBatchV2(default, requireEntry) ==
  \/ recs = <<>> /\ Return("ok", {}) /\ UNCHANGED request
  \/ /\ requireEntry
     /\ \E i \in 1..Len(recs) : recs[i].entry = Unnamed
     /\ Invalid
  \/ /\ recs # <<>>
     /\ requireEntry => \A i \in 1..Len(recs) : recs[i].entry # Unnamed
     /\ \E o \in SortRecords(default, TRUE) :
          Send(o, Names(o, default), StartTime(o), default, Names(o, default))

Named == {i \in 1..Len(recs) : recs[i].entry # Unnamed}

FirstNamed == CHOOSE i \in Named : \A j \in Named : i <= j

\* The callback returns: choose the protocol and send the request.
EntryBatch ==
  /\ overload = "entry"
  /\ IF protocol = 2 THEN ProcessBatchV2(Given, FALSE) ELSE ProcessBatchV1(Given)

\* Without V2 the first named entry stands for all.
RecordsBatch ==
  /\ overload = "records"
  /\ \/ recs = <<>> /\ Return("ok", {}) /\ UNCHANGED request
     \/ recs # <<>> /\ protocol = 2 /\ ProcessBatchV2(Unnamed, TRUE)
     \/ recs # <<>> /\ protocol = 1 /\ Named = {} /\ Invalid
     \/ protocol = 1 /\ Named # {} /\ ProcessBatchV1(recs[FirstNamed].entry)

ProcessBatch ==
  /\ phase = "building"
  /\ EntryBatch \/ RecordsBatch
  /\ UNCHANGED <<overload, type, protocol, recs, body, rejected>>

-----------------------------------------------------------------------------
(* Sending the body.                                                       *)

Bytes(i) == [k \in 1..recs[i].size |-> <<i, k>>]

SizeOf[k \in 0..Len(recs)] == IF k = 0 THEN 0 ELSE SizeOf[k - 1] + recs[k].size

Size == SizeOf[Len(recs)]

ContentLength == IF type = "write" THEN Size ELSE 0

\* The locals of Batch::Slice.
Progress(out, offset, size) == [out |-> out, offset |-> offset, size |-> size]

\* Its loop skips `offset` bytes of the data in order, then takes `size`.  (Once
\* it has them it ends; the turns after that would take nothing.)
Take(p, i) ==
  LET rest == recs[i].size - p.offset
      n    == IF p.size < rest THEN p.size ELSE rest
  IN  IF ~recs[i].data THEN p
      ELSE IF p.offset < recs[i].size
           THEN Progress(p.out \o SubSeq(Bytes(i), p.offset + 1, p.offset + n), 0, p.size - n)
           ELSE Progress(p.out, p.offset - recs[i].size, p.size)

Taken(offset, size) ==
  LET after[k \in 0..Len(order)] ==
        IF k = 0 THEN Progress(<<>>, offset, size) ELSE Take(after[k - 1], order[k])
  IN  after[Len(order)].out

\* Mutant: compares the end of the slice with the size.
SliceMutant(offset, size) == IF offset + size >= Size THEN <<>> ELSE Taken(offset, size)

Slice(offset, size) == IF offset >= Size THEN <<>> ELSE Taken(offset, size)

\* The content provider of Post: httplib asks for the rest, the provider caps
\* the size, and an empty chunk ends the request.
Provide ==
  /\ phase = "sending"
  /\ Len(body) < ContentLength
  /\ LET rest == ContentLength - Len(body)
         chunk == Slice(Len(body), IF rest < MaxChunk THEN rest ELSE MaxChunk)
     IN  \/ chunk = <<>> /\ Return("aborted", {}) /\ UNCHANGED body
         \/ chunk # <<>> /\ body' = body \o chunk /\ UNCHANGED <<phase, result, errors>>
  /\ UNCHANGED <<overload, type, protocol, recs, request, rejected>>

\* The request fails, or the server refuses it as a whole.
Fail ==
  /\ phase = "sending"
  /\ Return("failed", {})
  /\ UNCHANGED <<overload, type, protocol, recs, request, body, rejected>>

\* Mutant: takes the time in the error header for the time of the record.
ErrorOfMutant(k) == [entry |-> IF overload = "entry" THEN Unnamed ELSE entries[k.idx],
                     ts    |-> k.delta]

\* The error header of a record carries its key; V1's start is 0.  The overload
\* for an entry returns times only.
ErrorOf(k) == [entry |-> IF overload = "entry" THEN Unnamed ELSE entries[k.idx],
               ts    |-> start + k.delta]

\* The server has the whole request and answers with the records it rejects.
\* (If it sends a table of entries and a start time, they are the request's.)
Answer ==
  /\ phase = "sending"
  /\ Len(body) = ContentLength
  /\ \E bad \in SUBSET DOMAIN headers :
       /\ rejected' = bad
       /\ Return("ok", {ErrorOf(k) : k \in bad})
  /\ UNCHANGED <<overload, type, protocol, recs, request, body>>

Returned == phase = "done" /\ UNCHANGED vars

Next == AddRecord \/ ProcessBatch \/ Provide \/ Fail \/ Answer \/ Returned

Spec == Init /\ [][Next]_vars

-----------------------------------------------------------------------------
(* Properties.                                                             *)

\* Among the rest: a delta, which the code computes in uint64_t, is not negative.
TypeOK ==
  /\ overload \in {"entry", "records"}
  /\ type \in Types
  /\ protocol \in Protocols
  /\ phase \in {"building", "sending", "done"}
  /\ recs \in Seq([entry : Entry \cup {Unnamed}, ts : Times, size : Sizes \cup {0}, data : BOOLEAN])
  /\ order \in Seq(1..Len(recs))
  /\ entries \in Seq(Entry)
  /\ start \in Nat
  /\ \A k \in DOMAIN headers : k \in [idx : 1..Len(entries), delta : Nat]
  /\ Len(body) <= ContentLength
  /\ rejected \subseteq DOMAIN headers
  /\ result \in {"none", "ok", "invalid", "failed", "aborted"}
  /\ errors \subseteq [entry : Entry \cup {Unnamed}, ts : Nat]

\* Where the caller wants record i.
Target(i) == [entry |-> RecordEntry(recs[i], IF overload = "entry" THEN Given ELSE Unnamed),
              ts    |-> recs[i].ts]

\* Every record has a target of its own.
Distinct == \A i, j \in 1..Len(recs) : Target(i) = Target(j) => i = j

\* V1 addresses the entry in the path only, or the first one named.
WithinPath ==
  protocol = 1 => \A i \in 1..Len(recs) : entries # <<>> => Target(i).entry = entries[1]

Less(a, b) == a.idx < b.idx \/ (a.idx = b.idx /\ a.delta < b.delta)

\* The headers in the order in which the server takes their data.
Wire == CHOOSE w \in [1..Cardinality(DOMAIN headers) -> DOMAIN headers] :
          \A j, k \in DOMAIN w : j < k => Less(w[j], w[k])

\* What the server stores: the k-th header gets the bytes after the headers
\* before it.
Stored ==
  LET before[k \in 0..Cardinality(DOMAIN headers)] ==
        IF k = 0 THEN 0 ELSE before[k - 1] + recs[headers[Wire[k]]].size
      piece(k) == SubSeq(body, before[k - 1] + 1, before[k])
  IN  {[entry |-> entries[Wire[k].idx], ts |-> start + Wire[k].delta, data |-> piece(k)] :
         k \in 1..Cardinality(DOMAIN headers)}

AsAdded == Stored = {[entry |-> Target(i).entry, ts |-> recs[i].ts, data |-> Bytes(i)] :
                        i \in 1..Len(recs)}

\* A written batch is stored as it was added, even if no record names the entry
\* of the path: an explicit name wins over the entry given to the overload, as
\* the test at entry_api_test.cc 754 has it (batch_v1.cc 197-207, 233-235).
StoredWhereAdded == result = "ok" /\ type = "write" /\ Distinct => AsAdded

\* Each record of a batch that was written is stored under its entry and time
\* with its own bytes, whatever the order it was added in and wherever the
\* slices were cut (batch_v1.cc 209-239, batch_v2.cc 388-443, bucket.h 241-280).
StoredAsAdded == result = "ok" /\ type = "write" /\ Distinct /\ WithinPath => AsAdded

\* Each record the server rejected is in the returned map, under its own entry
\* (if the map has entries) and time, and nothing else is (batch_v1.cc 256-268,
\* batch_v2.cc 469-487, 529-552).
ErrorsAttributed ==
  result = "ok" /\ Distinct /\ WithinPath =>
    errors = {[entry |-> IF overload = "entry" THEN Unnamed ELSE Target(headers[k]).entry,
               ts    |-> Target(headers[k]).ts] : k \in rejected}

\* The client never ends its own request for want of data: no slice before the
\* end of the body is empty (http_client.cc 181-187, bucket.h 248-269).
NeverCutOff == result # "aborted"
=============================================================================
