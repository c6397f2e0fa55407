---------------------------- MODULE BatchResponse ----------------------------
(***************************************************************************)
(* The headers of a batch response and the records they are parsed into    *)
(* (batch_v1.cc 78-140, 186-191; batch_v2.cc 60-236, 238-301, 346-354).    *)
(* The body is the data of the records one after the other, and records    *)
(* are read in the order in which the parser returns them (RecordReader),  *)
(* so a parser that changes the order gives records the bytes of others.   *)
(*                                                                         *)
(* V1 names a record by its time and describes it in full.  V2 names it by *)
(* the index of its entry and its time since the first, and leaves out     *)
(* what it has in common with the record before it in the same entry.      *)
(* Headers reach the parser as an unordered map.                           *)
(*                                                                         *)
(* The server is external: it sends well-formed headers, the records of an *)
(* entry by time, and in V2 the entries one after the other.  The text of  *)
(* a header is abstracted to its fields; label names are those that the    *)
(* table of label names stands for.                                        *)
(*                                                                         *)
(* The specification is ResponseSpec: its names leave those of WriteStream *)
(* free, for WireProofs extends both.                                      *)
(***************************************************************************)
EXTENDS Integers, Sequences, SequencesExt

CONSTANTS Entries,     \* number of entries of the query
          Times,       \* timestamps to choose from
          Sizes,       \* sizes to choose from
          ContentTypes,
          DefaultType, \* application/octet-stream
          NoType,      \* an empty content type field
          Labels,      \* label names
          Values,      \* label values
          Erase,       \* an empty label value
          NoHeader,    \* std::nullopt
          MaxRecords,  \* bound: records in the response
          Protocols    \* of 1, 2

LabelMaps == UNION {[K -> Values] : K \in SUBSET Labels}

ASSUME BatchResponseAssumption ==
  /\ Entries \in Nat \ {0}
  /\ Times \subseteq Nat
  /\ DefaultType \in ContentTypes
  /\ NoType \notin ContentTypes
  /\ Erase \notin Values
  /\ MaxRecords \in Nat
  /\ Protocols \subseteq {1, 2}
  /\ NoHeader \notin [size : Sizes, type : ContentTypes, labels : LabelMaps]

Unnamed == 0   \* an empty entry name

VARIABLES
  proto,   \* protocol of the response
  names,   \* x-reduct-entries
  start,   \* x-reduct-start-ts
  headers, \* headers of the records: from key to value
  last,    \* x-reduct-last is "true"
  sent,    \* history: the records in the order of their data in the body
  stage,   \* "sending", "complete" or "parsed"
  parsed   \* the records the parser returns

responseVars == <<proto, names, start, headers, last, sent, stage, parsed>>

ResponseInit == /\ proto \in Protocols
        /\ names \in {s \in [1..Entries -> 1..Entries] : IsInjective(s)}
        /\ start \in Times
        /\ headers = <<>>
        /\ last = FALSE
        /\ sent = <<>>
        /\ stage = "sending"
        /\ parsed = <<>>

-----------------------------------------------------------------------------
(* The server.                                                             *)

\* What a record has in common with the one before it in its entry.
Inherited(idx) ==
  LET before == {k \in 1..Len(sent) : sent[k].entry = names[idx]}
  IN  IF before = {} THEN [type |-> DefaultType, labels |-> <<>>]
      ELSE [type |-> sent[Max(before)].type, labels |-> sent[Max(before)].labels]

\* Labels to set, and labels of the record before to erase.
Delta(labels, base) ==
  LET changed == {k \in DOMAIN labels : k \notin DOMAIN base \/ base[k] # labels[k]}
      gone    == DOMAIN base \ DOMAIN labels
  IN  [k \in changed \cup gone |-> IF k \in changed THEN labels[k] ELSE Erase]

\* Later in the body than everything sent.
Follows(idx, ts) ==
  sent # <<>> => LET prev == Last(sent)
                     p == CHOOSE i \in 1..Entries : prev.entry \in {names[i], Unnamed}
                 IN  IF proto = 1 THEN prev.ts < ts
                     ELSE p < idx \/ (p = idx /\ prev.ts < ts)

SendV1(ts, size, type, labels) ==
  /\ proto = 1
  /\ Follows(1, ts)
  /\ headers' = [k \in DOMAIN headers \cup {ts} |->
                   IF k = ts THEN [size |-> size, type |-> type, labels |-> labels]
                             ELSE headers[k]]
  /\ sent' = Append(sent, [entry |-> Unnamed, ts |-> ts, size |-> size, type |-> type,
                           labels |-> labels, last |-> FALSE])

SendV2(idx, ts, size, type, labels) ==
  LET key == [idx |-> idx, delta |-> ts - start]
      base == Inherited(idx)
  IN  /\ proto = 2
      /\ ts >= start
      /\ Follows(idx, ts)
      /\ headers' = [k \in DOMAIN headers \cup {key} |->
                       IF k = key
                       THEN [size |-> size,
                             type |-> IF type = base.type THEN NoType ELSE type,
                             delta |-> Delta(labels, base.labels)]
                       ELSE headers[k]]
      /\ sent' = Append(sent, [entry |-> names[idx], ts |-> ts, size |-> size, type |-> type,
                               labels |-> labels, last |-> FALSE])

SendRecord ==
  /\ stage = "sending"
  /\ Len(sent) < MaxRecords
  /\ \E idx \in 1..Entries, ts \in Times, size \in Sizes, type \in ContentTypes,
        labels \in LabelMaps :
       SendV1(ts, size, type, labels) \/ SendV2(idx, ts, size, type, labels)
  /\ UNCHANGED <<proto, names, start, last, stage, parsed>>

\* The headers are complete; the last record of the query may be among them.
EndHeaders ==
  /\ stage = "sending"
  /\ stage' = "complete"
  /\ last' \in BOOLEAN
  /\ sent' = [k \in 1..Len(sent) |-> [sent[k] EXCEPT !.last = last' /\ k = Len(sent)]]
  /\ UNCHANGED <<proto, names, start, headers, parsed>>

-----------------------------------------------------------------------------
(* ParseAndBuildBatchedRecordsV1.                                          *)

\* The elements of S in the order of Less.
InOrder(S, Less(_, _)) ==
  CHOOSE s \in SetToSeqs(S) : \A i, j \in 1..Len(s) : i < j => Less(s[i], s[j])

\* The decimal digits of a time.
Digits[n \in Nat] == IF n < 10 THEN <<n>> ELSE Append(Digits[n \div 10], n % 10)

\* std::map<std::string, std::string> orders its keys as strings: b goes on where
\* a ends, or has the greater digit where they first differ.
StringLess(a, b) ==
  LET s == Digits[a]
      t == Digits[b]
  IN  \E k \in 1..Len(t) : /\ k <= Len(s) + 1
                           /\ \A j \in 1..(k - 1) : s[j] = t[j]
                           /\ k <= Len(s) => s[k] < t[k]

\* Mutant: the times in falling order.
OrderV1Mutant == InOrder(DOMAIN headers, LAMBDA a, b : StringLess(b, a))

OrderV1 == InOrder(DOMAIN headers, StringLess)

RecordsV1 ==
  [k \in 1..Len(OrderV1) |->
     LET ts == OrderV1[k]
     IN  [entry |-> Unnamed, ts |-> ts, size |-> headers[ts].size, type |-> headers[ts].type,
          labels |-> headers[ts].labels, last |-> last /\ k = Len(OrderV1)]]

-----------------------------------------------------------------------------
(* ParseAndBuildBatchedRecordsV2.                                          *)

\* By entry index and time, as numbers.
KeyLess(a, b) == a.idx < b.idx \/ (a.idx = b.idx /\ a.delta < b.delta)

OrderV2 == InOrder(DOMAIN headers, KeyLess)

\* An operation with a value sets its label, one without erases it.
ApplyLabelDelta(delta, base) ==
  LET set == {k \in DOMAIN delta : delta[k] # Erase}
  IN  [k \in (DOMAIN base \ DOMAIN delta) \cup set |-> IF k \in set THEN delta[k] ELSE base[k]]

ParseRecordHeader(value, previous) ==
  [size   |-> value.size,
   type   |-> IF value.type # NoType THEN value.type
              ELSE IF previous = NoHeader THEN DefaultType ELSE previous.type,
   labels |-> ApplyLabelDelta(value.delta, IF previous = NoHeader THEN <<>> ELSE previous.labels)]

Before == [previous |-> [idx \in 1..Entries |-> NoHeader], out |-> <<>>]

\* Mutant: a record inherits from the one before it in the batch.
ParseNextMutant(acc, key) ==
  LET header == ParseRecordHeader(headers[key], acc.previous[key.idx])
  IN  [previous |-> [idx \in 1..Entries |-> header],
       out |-> Append(acc.out, [entry |-> names[key.idx], ts |-> start + key.delta,
                                size |-> header.size, type |-> header.type,
                                labels |-> header.labels, last |-> FALSE])]

\* One turn of the loop over the sorted headers.
ParseNext(acc, key) ==
  LET header == ParseRecordHeader(headers[key], acc.previous[key.idx])
  IN  [previous |-> [acc.previous EXCEPT ![key.idx] = header],
       out |-> Append(acc.out, [entry |-> names[key.idx], ts |-> start + key.delta,
                                size |-> header.size, type |-> header.type,
                                labels |-> header.labels, last |-> FALSE])]

\* What the loop has after each of its turns.
Turns == LET order == OrderV2
             acc[k \in 0..Len(order)] == IF k = 0 THEN Before ELSE ParseNext(acc[k - 1], order[k])
         IN  acc

RecordsV2 ==
  LET records == Turns[Len(OrderV2)].out
  IN  [k \in 1..Len(records) |-> [records[k] EXCEPT !.last = last /\ k = Len(records)]]

Parse == /\ stage = "complete"
         /\ stage' = "parsed"
         /\ parsed' = IF proto = 1 THEN RecordsV1 ELSE RecordsV2
         /\ UNCHANGED <<proto, names, start, headers, last, sent>>

Parsed == stage = "parsed" /\ UNCHANGED responseVars

ResponseNext == SendRecord \/ EndHeaders \/ Parse \/ Parsed

ResponseSpec == ResponseInit /\ [][ResponseNext]_responseVars

-----------------------------------------------------------------------------
(* Properties.                                                             *)

\* V1 orders times as strings: all must have the same number of digits.
SameDigits == \A j, k \in 1..Len(sent) : Len(Digits[sent[j].ts]) = Len(Digits[sent[k].ts])

\* The parser returns the records the server sent, each with its own entry,
\* time, size, content type and labels, in the order of their data in the body,
\* and marks the last one only (batch_v1.cc 129-188, batch_v2.cc 275-351).
ParsedAsSent == stage = "parsed" /\ (proto = 1 => SameDigits) => parsed = sent

\* Whatever the times, every record sent is parsed once (batch_v1.cc 125-140).
NoneMissing ==
  stage = "parsed" =>
    /\ Len(parsed) = Len(sent)
    /\ {[r EXCEPT !.last = FALSE] : r \in Range(parsed)}
         = {[r EXCEPT !.last = FALSE] : r \in Range(sent)}
=============================================================================
