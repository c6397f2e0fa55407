----------------------------- MODULE WriteStream -----------------------------
(***************************************************************************)
(* Bucket::Write of one record (bucket.cc 155-172): the caller's callback  *)
(* fills a WritableRecord (bucket.h 133-166), and the HTTP client sends it *)
(* chunk by chunk, asking the record's callback for more                   *)
(* (http_client.cc 171-197).                                               *)
(*                                                                         *)
(* The caller's data are the numbers 1 .. length.  A callback reads them   *)
(* by position (from the offset it is given, as WriteAll does) or as a     *)
(* stream (from where its last chunk ended).  httplib and the server are   *)
(* external: httplib calls the provider until content_length bytes are     *)
(* sent or the provider says no, and the server stores whole bodies only.  *)
(***************************************************************************)
EXTENDS Integers, Sequences, SequencesExt

CONSTANTS
  Length,        \* bound on a caller's data
  kMaxChunkSize  \* in bytes, at least one

ASSUME SizeAssumption == Length \in Nat /\ kMaxChunkSize \in Nat \ {0}

VARIABLES
  record,    \* the WritableRecord
  phase,     \* "filling", "sending", "waiting", "ok" or "error"
  taken,     \* bytes that the callback has handed out (history of a stream)
  overlong,  \* history: a chunk was longer than asked for
  wire,      \* bytes sent
  stored     \* bodies that the server has stored: at most one

vars == <<record, phase, taken, overlong, wire, stored>>

Data(n) == [i \in 1..n |-> i]

Init ==
  \* content_length_ has no initializer: any value.
  /\ record \in [content_length : 0..Length, reads : {"nothing"}, length : {0}]
  /\ phase = "filling"
  /\ taken = 0
  /\ overlong = FALSE
  /\ wire = <<>>
  /\ stored = {}

\* WritableRecord::Write: the length promised may not be that of the data.
Write ==
  /\ phase = "filling"
  /\ record' \in [content_length : 0..Length, reads : {"position", "stream"}, length : 0..Length]
  /\ UNCHANGED <<phase, taken, overlong, wire, stored>>

\* WritableRecord::WriteAll.
WriteAll ==
  /\ phase = "filling"
  /\ \E n \in 0..Length : record' = [content_length |-> n, reads |-> "all", length |-> n]
  /\ UNCHANGED <<phase, taken, overlong, wire, stored>>

\* The record is filled, and Bucket::Write posts it.
Post ==
  /\ phase = "filling"
  /\ phase' = "sending"
  /\ UNCHANGED <<record, taken, overlong, wire, stored>>

-----------------------------------------------------------------------------
(* The content provider.                                                   *)

Lesser(m, n) == IF m < n THEN m ELSE n

\* Asked for, with the record's offset at the end of what is sent.
Size == Lesser(record.content_length - Len(wire), kMaxChunkSize)

\* Where the callback reads next, and the chunks it may return.
From == IF record.reads = "stream" THEN taken ELSE Len(wire)

Chunks == LET n == record.length - From
              Upto(k) == SubSeq(Data(record.length), From + 1, From + k)
          IN  CASE record.reads = "nothing" -> {}
                [] record.reads = "all"     -> {Upto(Lesser(n, Size))}
                [] OTHER                    -> {Upto(k) : k \in 0..n}

\* Mutant: an empty chunk does not stop.
StopsMutant(ok, data) == ~ok

Stops(ok, data) == ~ok \/ data = <<>>

\* Mutant: all of the chunk is sent.
CutMutant(data) == data

\* Mutant: as many bytes as were asked for, those of a shorter chunk and what
\* lies behind it in memory.
SizeMutant(data) == [i \in 1..Size |-> IF i <= Len(data) THEN data[i] ELSE 0]

\* A longer chunk is cut, a shorter one sent as it is.
Cut(data) == SubSeq(data, 1, Lesser(Len(data), Size))

\* The caller's callback stops: the default one always does, WriteAll's never.
Stop ==
  /\ phase = "sending" /\ Len(wire) < record.content_length
  /\ record.reads # "all"
  /\ Stops(FALSE, <<>>)
  /\ phase' = "error"
  /\ UNCHANGED <<record, taken, overlong, wire, stored>>

Provide ==
  /\ phase = "sending" /\ Len(wire) < record.content_length
  /\ \E data \in Chunks :
       /\ taken' = From + Len(data)
       /\ overlong' = (overlong \/ Len(data) > Size)
       /\ IF Stops(TRUE, data)
          THEN phase' = "error" /\ wire' = wire
          ELSE phase' = phase /\ wire' = wire \o Cut(data)
  /\ UNCHANGED <<record, stored>>

-----------------------------------------------------------------------------
(* httplib and the server.                                                 *)

Sent ==
  /\ phase = "sending" /\ Len(wire) >= record.content_length
  /\ phase' = "waiting"
  /\ UNCHANGED <<record, taken, overlong, wire, stored>>

Store ==
  /\ phase = "waiting" /\ stored = {}
  /\ stored' = {SubSeq(wire, 1, record.content_length)}
  /\ UNCHANGED <<record, phase, taken, overlong, wire>>

Answer ==
  /\ phase = "waiting" /\ stored # {}
  /\ phase' = "ok"
  /\ UNCHANGED <<record, taken, overlong, wire, stored>>

\* The server refuses, or the connection is lost, even after the record was
\* stored (CheckRequest).
Fail ==
  /\ phase \in {"sending", "waiting"}
  /\ phase' = "error"
  /\ UNCHANGED <<record, taken, overlong, wire, stored>>

Next == Write \/ WriteAll \/ Post \/ Stop \/ Provide \/ Sent \/ Store \/ Answer \/ Fail

\* httplib goes on asking and the callback returns, but need not ever stop,
\* unless it is the default one; the wait for an answer ends, or times out.
Fairness ==
  /\ WF_vars(Provide \/ Sent)
  /\ WF_vars(record.reads = "nothing" /\ Stop)
  /\ WF_vars(phase = "waiting" /\ (Answer \/ Fail))

Spec == Init /\ [][Next]_vars /\ Fairness

-----------------------------------------------------------------------------
(* Properties.                                                             *)

TypeOK ==
  /\ record \in [content_length : 0..Length, reads : {"nothing", "position", "stream", "all"}, length : 0..Length]
  /\ phase \in {"filling", "sending", "waiting", "ok", "error"}
  /\ taken \in 0..Length
  /\ overlong \in BOOLEAN
  /\ Range(wire) \subseteq 1..Length
  /\ IsInjective(wire) \* no byte is sent twice
  /\ Len(wire) <= record.content_length \* nor one more than was promised

\* A stored record is the beginning of the caller's data, all of it with
\* WriteAll, without a gap or a byte sent twice, whatever the sizes of the
\* chunks, unless a stream returned more than it was asked for; and if the
\* callback set nothing, at most an empty record is stored (bucket.cc 161-171,
\* http_client.cc 177-189).
StoredAsGiven ==
  \A body \in stored :
    /\ ~(record.reads = "stream" /\ overlong) => body = Data(record.content_length)
    /\ record.reads = "all" => body = Data(record.length)
    /\ record.reads = "nothing" => body = <<>>
    /\ Len(body) <= record.length

\* Every Write comes back, too little data and empty chunks included
\* (http_client.cc 182-185: "an empty chunk, which would never advance the
\* offset").
WriteReturns == (phase = "sending") ~> (phase \in {"ok", "error"})
=============================================================================
