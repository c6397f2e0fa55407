---------------------------- MODULE ApiVersion ----------------------------
(***************************************************************************)
(* The version of the server's API: how an HttpClient learns it from the   *)
(* answers it gets (http_client.cc 234-286), how a Bucket inherits it from *)
(* the Client that built it (client.cc 120-141, bucket.cc 46-54), and what *)
(* is decided by it: the batch protocol (bucket.cc 349-370, 462-483,       *)
(* 854-960), the form of query links (549-621, 859-910) and of tokens      *)
(* (client.cc 213-273).                                                    *)
(*                                                                         *)
(* Threads share Clients and Buckets.  The mutex of the version covers one *)
(* read or one write of it, so a version that was read may be out of date  *)
(* when it is used, and answers may be taken in another order than they    *)
(* were given.  The server is external: it may refuse any request, refuses *)
(* the paths and tokens it is too old for, and is only ever upgraded.      *)
(***************************************************************************)
EXTENDS Naturals

CONSTANTS Threads,
          Clients,   \* HttpClients of Client objects
          Buckets,   \* HttpClients of Bucket objects
          Versions   \* versions of the server: pairs of numbers

ASSUME ApiVersionAssumption ==
  /\ Versions \subseteq (Nat \ {0}) \X Nat
  /\ "none" \notin Clients \cup Buckets

Unknown == <<0, 0>>    \* no version: nullopt, or an answer without the header
Malformed == <<0, 1>>  \* header without a dot
Major == 1             \* REDUCT_CPP_MAJOR_VERSION

VARIABLES
  server,   \* version of the server
  version,  \* api_version_ of each HttpClient
  floor,    \* history: the version an HttpClient must know of (Check)
  calls     \* the call of each thread

vars == <<server, version, floor, calls>>

Objects == Clients \cup Buckets

\* Order of versions.
AtMost(v, w) == v[1] < w[1] \/ (v[1] = w[1] /\ v[2] <= w[2])

\* Mutant: the minor version has to be newer.
IsCompatibleMutant(min, v) == min[1] = v[1] /\ min[2] < v[2]

IsCompatible(min, v) == min[1] = v[1] /\ min[2] <= v[2]

V18 == <<1, 18>>
V19 == <<1, 19>>

-----------------------------------------------------------------------------
(* Calls.                                                                  *)

\* "plain": a request that does not depend on the version.  "info": the request
\* of a call that has to learn the version first.
Forms == {"none", "plain", "info", "v1", "v2", "index", "record", "full", "legacy", "fallback"}

Ops == {"Request", "GetBucket", "Query", "QueryMany", "CreateQueryLink", "CreateToken"}

\* A call without an answer.
Call(op, on, form, phase, record, alone) ==
  [op |-> op, on |-> on, form |-> form, phase |-> phase,
   record |-> record,   \* of a link: is the record named?
   header |-> Unknown,  \* of the answer
   code |-> 0,          \* of the answer; 500: any other error, -1 included
   alone |-> alone]     \* history: no other call on the object yet

NoCall == Call("Request", "none", "none", "none", FALSE, FALSE)

\* The call with its next request, with what came of the request, and after
\* another call on its object has begun.
WithRequest(c, form) == [c EXCEPT !.form = form, !.phase = IF form = "none" THEN "refused" ELSE "sent",
                                  !.header = Unknown, !.code = 0]
WithAnswer(c, phase, code, header) == [c EXCEPT !.phase = phase, !.code = code, !.header = header]
NotAlone(c) == [c EXCEPT !.alone = FALSE]

Unused(o) == \A t \in Threads : calls[t].on # o

\* A call on object o goes to phase "sent" or returns at once ("refused").
Begin(t, op, o, form, record) ==
  /\ calls[t] = NoCall
  /\ calls' = [u \in Threads |->
       IF u = t
       THEN Call(op, o, form, IF form = "none" THEN "refused" ELSE "sent", record, Unused(o))
       ELSE IF calls[u].on = o THEN NotAlone(calls[u])
       ELSE calls[u]]
  /\ UNCHANGED <<server, version, floor>>

Resend(t, form) ==
  /\ calls' = [calls EXCEPT ![t] = WithRequest(calls[t], form)]
  /\ UNCHANGED <<server, version, floor>>

SupportsBatchProtocolV2(o) == IsCompatible(V18, version[o])

\* Any operation that is one request whatever the version.
Request(t) == \E o \in Objects : Begin(t, "Request", o, "plain", FALSE)

GetBucket(t) == \E c \in Clients : Begin(t, "GetBucket", c, "plain", FALSE)

\* Query, RemoveQuery and the batches of one entry.
Query(t) ==
  \E b \in Buckets : Begin(t, "Query", b, IF SupportsBatchProtocolV2(b) THEN "v2" ELSE "v1", FALSE)

\* Query and RemoveQuery of several entries.
QueryMany(t) ==
  \E b \in Buckets : Begin(t, "QueryMany", b, IF SupportsBatchProtocolV2(b) THEN "v2" ELSE "none", FALSE)

-----------------------------------------------------------------------------
(* Query links.                                                            *)

\* With the version v of EnsureApiVersion.  A link that names its record has the
\* same form whatever the version.
LinkForm(v, record) == IF record THEN "record"
                       ELSE IF v = Unknown \/ IsCompatible(V19, v) THEN "none"
                       ELSE "index"

\* The options may name an entry or a time; the entry of a time is that of the
\* link if the link has one entry, in a list or not, and it is concrete.
Normalizes(entry, time, concrete) == (entry => time) /\ (time /\ ~entry => concrete)

CreateQueryLink(t) ==
  \E b \in Buckets, entry, time, concrete, many \in BOOLEAN :
    LET form == IF (many /\ ~SupportsBatchProtocolV2(b)) \/ ~Normalizes(entry, time, concrete)
                THEN "none"
                ELSE IF version[b] = Unknown THEN "info"
                ELSE LinkForm(version[b], time)
    IN  Begin(t, "CreateQueryLink", b, form, time)

-----------------------------------------------------------------------------
(* Tokens with a time to live, an expiry date or a list of addresses.      *)

TokenForm(v) == IF IsCompatible(V19, v) THEN "full" ELSE "legacy"

CreateToken(t) ==
  \E c \in Clients :
    Begin(t, "CreateToken", c, IF version[c] = Unknown THEN "info" ELSE TokenForm(version[c]), FALSE)

-----------------------------------------------------------------------------
(* The server.                                                             *)

Upgrade == /\ \E v \in Versions : AtMost(server, v) /\ server' = v
           /\ server' # server
           /\ UNCHANGED <<version, floor, calls>>

\* Forms of a later version than the server's (bucket.h: record_entry and
\* record_timestamp are for "API >= 1.19").
TooOld(form) == \/ form = "v2" /\ ~AtMost(V18, server)
                \/ form \in {"full", "record"} /\ ~AtMost(V19, server)

\* Only CreateToken tells 422 from other errors, and of the header of an error
\* nothing is read.  A server that does not know the fields of a record may refuse
\* them or make a link without them.
Serve(t) ==
  /\ calls[t].phase = "sent"
  /\ \E code \in {200, 422, 500}, header \in {server, Unknown, Malformed} :
       /\ TooOld(calls[t].form) /\ calls[t].form # "record" => code # 200
       /\ code = 422 => calls[t].op = "CreateToken"
       /\ code # 200 => header = Unknown
       /\ calls' = [calls EXCEPT ![t] = WithAnswer(calls[t], "answered", code, header)]
  /\ UNCHANGED <<server, version, floor>>

\* No answer: a transport error or a timeout.
Lose(t) == /\ calls[t].phase = "sent"
           /\ calls' = [calls EXCEPT ![t] = WithAnswer(calls[t], "checked", 500, Unknown)]
           /\ UNCHANGED <<server, version, floor>>

-----------------------------------------------------------------------------
(* Answers.                                                                *)

\* Mutant: the major version is not looked at.
LearnsAnyMutant(c) == c.code = 200 /\ c.header # Unknown

\* Mutant: the first version is kept.
LearnsMutant(c) == c.code = 200 /\ c.header[1] = Major /\ version[c.on] = Unknown

\* The answer is a success and its header names a version of this API.
Learns(c) == c.code = 200 /\ c.header[1] = Major

\* A header that is malformed or of another major version makes an error of any
\* answer, one without header does not.
CheckedCode(c) == IF c.code = 200 /\ c.header # Unknown /\ c.header[1] # Major THEN 500 ELSE c.code

\* History: if no other call has begun on the object since this one did, every
\* answer it gets from now on is given later than this one.
CheckRequest(t) ==
  LET c == calls[t]
  IN  /\ c.phase = "answered"
      /\ version' = IF Learns(c) THEN [version EXCEPT ![c.on] = c.header] ELSE version
      /\ floor' = IF c.alone /\ c.code = 200 /\ c.header[1] = Major
                  THEN [floor EXCEPT ![c.on] = c.header] ELSE floor
      /\ calls' = [calls EXCEPT ![t] = WithAnswer(calls[t], "checked", CheckedCode(c), Unknown)]
      /\ UNCHANGED server

Checked(t) == calls[t].phase = "checked"

Ok(t) == calls[t].code = 200

\* EnsureApiVersion and CreateToken ask for the version again: the answer may
\* not have had one.
InfoKnown(t) ==
  LET c == calls[t]
      v == version[c.on]
  IN  /\ Checked(t) /\ Ok(t) /\ c.form = "info"
      /\ Resend(t, IF c.op = "CreateToken" THEN TokenForm(v) ELSE LinkForm(v, c.record))

\* Mutant: as long as it is refused.
FallsBackMutant(c) == c.op = "CreateToken" /\ c.code = 422

\* A token the server does not understand is asked for in the old form, once.
FallsBack(c) == c.form = "full" /\ c.code = 422

FallBack(t) == Checked(t) /\ FallsBack(calls[t]) /\ Resend(t, "fallback")

\* Mutant: the version is not handed over.
InheritedMutant(c) == Unknown

\* The version the client knows by now.
Inherited(c) == version[c]

\* GetBucket and CreateBucket build a Bucket.
ReturnBucket(t) ==
  /\ Checked(t) /\ Ok(t) /\ calls[t].op = "GetBucket"
  /\ \E b \in Buckets :
       /\ Unused(b)
       /\ version' = [version EXCEPT ![b] = Inherited(calls[t].on)]
       /\ floor' = [floor EXCEPT ![b] = floor[calls[t].on]]
  /\ calls' = [calls EXCEPT ![t] = NoCall]
  /\ UNCHANGED server

\* IBucket::Build without a client.
Build(t) == /\ calls[t] = NoCall
            /\ \E b \in Buckets :
                 /\ Unused(b)
                 /\ version' = [version EXCEPT ![b] = Unknown]
                 /\ floor' = [floor EXCEPT ![b] = Unknown]
            /\ UNCHANGED <<server, calls>>

\* Bound: a Bucket for which there is no room is not looked at any further.
Return(t) ==
  /\ \/ calls[t].phase = "refused"
     \/ /\ Checked(t)
        /\ Ok(t) => calls[t].form # "info"
        /\ Ok(t) /\ calls[t].op = "GetBucket" => \A b \in Buckets : ~Unused(b)
        /\ ~FallsBack(calls[t])
  /\ calls' = [calls EXCEPT ![t] = NoCall]
  /\ UNCHANGED <<server, version, floor>>

-----------------------------------------------------------------------------

Init == /\ server \in Versions
        /\ version = [o \in Objects |-> Unknown]
        /\ floor = [o \in Objects |-> Unknown]
        /\ calls = [t \in Threads |-> NoCall]

Start(t) == \/ Request(t) \/ GetBucket(t) \/ Query(t) \/ QueryMany(t)
            \/ CreateQueryLink(t) \/ CreateToken(t) \/ Build(t)

\* The call of a thread goes on.
Step(t) == \/ Serve(t) \/ Lose(t) \/ CheckRequest(t) \/ InfoKnown(t)
           \/ FallBack(t) \/ ReturnBucket(t) \/ Return(t)

Next == Upgrade \/ \E t \in Threads : Start(t) \/ Step(t)

\* Threads run, and every wait for the server ends with an answer or a timeout.
Fairness == \A t \in Threads : WF_vars(Step(t))

Spec == Init /\ [][Next]_vars /\ Fairness

-----------------------------------------------------------------------------
(* Properties.                                                             *)

TypeOK ==
  /\ server \in Versions
  /\ version \in [Objects -> {v \in Versions : v[1] = Major} \cup {Unknown}]
  /\ floor \in [Objects -> {v \in Versions : v[1] = Major} \cup {Unknown}]
  /\ calls \in [Threads -> [op : Ops, on : Objects \cup {"none"}, form : Forms,
                            phase : {"none", "sent", "answered", "checked", "refused"},
                            record : BOOLEAN, header : Versions \cup {Unknown, Malformed},
                            code : {0, 200, 422, 500}, alone : BOOLEAN]]
  /\ \A t \in Threads : calls[t].on = "none" <=> calls[t].phase = "none"

\* What an object knows is neither newer than the server nor older than what the
\* last answer it got while nothing else was under way told it, or told the
\* Client it comes from: however threads, answers and upgrades interleave
\* (http_client.cc 234-242, 274-282, client.cc 129, bucket.cc 51-53).
VersionBracketed ==
  \A o \in Objects : AtMost(floor[o], version[o]) /\ AtMost(version[o], server)

\* A new form is never sent to a server that is too old for it, but for links
\* whose record the caller names, as nothing tests the version then (see
\* RecordLinksFit); and an old form, or a refusal for lack of support, only comes
\* from an object that may not know better (bucket.cc 351, 361, 464, 474, 585, 855,
\* 901, client.cc 229-250).
FormFits ==
  \A t \in Threads : LET c == calls[t] IN
    /\ TooOld(c.form) => c.form = "record" /\ c.record
    /\ c.phase = "sent" /\ c.form = "v1" => ~AtMost(V18, floor[c.on])
    /\ c.phase = "sent" /\ c.form \in {"index", "legacy"} => ~AtMost(V19, floor[c.on])
    /\ c.phase = "refused" /\ c.op = "QueryMany" => ~AtMost(V18, floor[c.on])

\* Every call returns: at most one look-up of the version goes before its request
\* and at most one fallback after it (bucket.cc 859-875, client.cc 217-261).
CallsReturn == \A t \in Threads : calls[t].phase # "none" ~> calls[t].phase = "none"

\* "Use CreateToken(name, TokenCreateRequest) to set ttl/expires_at/ip_allowlist":
\* a token is not made without what it was asked for with (client.cc 246-261).
TokensAsAsked == \A t \in Threads : Checked(t) /\ calls[t].form \in {"legacy", "fallback"} => ~Ok(t)

\* "explicit record entry (API >= 1.19)": a link that names its record is only
\* asked of a server that knows such links (bucket.h 567-569; bucket.cc 901 tests
\* the version only of links without a record).
RecordLinksFit ==
  \A t \in Threads : calls[t].phase = "sent" /\ calls[t].form = "record" => ~TooOld("record")
=============================================================================
