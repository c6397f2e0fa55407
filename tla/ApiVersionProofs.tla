-------------------------- MODULE ApiVersionProofs --------------------------
(* Theorems about ApiVersion, for any threads, objects and versions.       *)
EXTENDS ApiVersion, TLAPS

USE DEF Objects

-----------------------------------------------------------------------------
(* Versions.                                                               *)

\* What an object may know.
Known == {v \in Versions : v[1] = Major} \cup {Unknown}

LEMMA KnownType == Known \subseteq Nat \X Nat
  BY ApiVersionAssumption DEF Known, Unknown

LEMMA AtMostTransitive ==
  ASSUME NEW u \in Nat \X Nat, NEW v \in Nat \X Nat, NEW w \in Nat \X Nat,
         AtMost(u, v), AtMost(v, w)
  PROVE  AtMost(u, w)
  BY DEF AtMost

LEMMA AtMostReflexive == ASSUME NEW v \in Nat \X Nat PROVE AtMost(v, v)
  BY DEF AtMost

LEMMA UnknownLeast == ASSUME NEW v \in Nat \X Nat PROVE AtMost(Unknown, v)
  BY DEF AtMost, Unknown

\* A known version supports a feature exactly if it is at least that of the
\* feature.
LEMMA CompatibleKnown ==
  ASSUME NEW v \in Known, NEW n \in Nat
  PROVE  IsCompatible(<<1, n>>, v) <=> AtMost(<<1, n>>, v)
<1>1. v \in Nat \X Nat
  BY KnownType
<1>2. v[1] \in {0, 1}
  BY DEF Known, Unknown, Major
<1> QED BY <1>1, <1>2 DEF IsCompatible, AtMost

-----------------------------------------------------------------------------
(* Types.                                                                  *)

Phases == {"none", "sent", "answered", "checked", "refused"}
Headers == Versions \cup {Unknown, Malformed}
Codes == {0, 200, 422, 500}

Calls == [op : Ops, on : Objects \cup {"none"}, form : Forms, phase : Phases,
          record : BOOLEAN, header : Headers, code : Codes, alone : BOOLEAN]

LEMMA NoCallType == NoCall \in Calls /\ NoCall.on = "none" /\ NoCall.phase = "none"
  BY DEF NoCall, Ops, Forms, Phases, Headers, Codes, Call, Calls

\* A call of which one field is replaced.
LEMMA FormType == ASSUME NEW c \in Calls, NEW f \in Forms PROVE [c EXCEPT !.form = f] \in Calls
  BY DEF Calls

LEMMA PhaseType ==
  ASSUME NEW c \in Calls, NEW p \in Phases
  PROVE  [c EXCEPT !.phase = p] \in Calls
  BY DEF Calls

LEMMA HeaderType ==
  ASSUME NEW c \in Calls, NEW h \in Headers
  PROVE  [c EXCEPT !.header = h] \in Calls
  BY DEF Calls

LEMMA CodeType ==
  ASSUME NEW c \in Calls, NEW k \in Codes
  PROVE  [c EXCEPT !.code = k] \in Calls
  BY DEF Calls

LEMMA AloneType == ASSUME NEW c \in Calls, NEW b \in BOOLEAN PROVE [c EXCEPT !.alone = b] \in Calls
  BY DEF Calls

LEMMA NotAloneType ==
  ASSUME NEW c \in Calls
  PROVE  /\ NotAlone(c) \in Calls
         /\ NotAlone(c).op = c.op /\ NotAlone(c).on = c.on
         /\ NotAlone(c).form = c.form /\ NotAlone(c).phase = c.phase
         /\ NotAlone(c).header = c.header /\ NotAlone(c).code = c.code
         /\ NotAlone(c).record = c.record /\ ~NotAlone(c).alone
<1>1. NotAlone(c) \in Calls
  BY AloneType DEF NotAlone
<1>2. NotAlone(c).op = c.op /\ NotAlone(c).on = c.on /\ NotAlone(c).form = c.form /\ NotAlone(c).phase = c.phase
  BY DEF Calls, NotAlone
<1>3. NotAlone(c).header = c.header /\ NotAlone(c).code = c.code /\ NotAlone(c).record = c.record /\ ~NotAlone(c).alone
  BY DEF Calls, NotAlone
<1> QED BY <1>1, <1>2, <1>3

LEMMA WithRequestType ==
  ASSUME NEW c \in Calls, NEW form \in Forms, NEW d, d = WithRequest(c, form)
  PROVE  /\ d \in Calls
         /\ d.op = c.op /\ d.on = c.on /\ d.form = form
         /\ d.phase = IF form = "none" THEN "refused" ELSE "sent"
         /\ d.alone = c.alone /\ d.record = c.record
<1> DEFINE p == IF form = "none" THEN "refused" ELSE "sent"
           c1 == [c EXCEPT !.form = form]
           c2 == [c1 EXCEPT !.phase = p]
           c3 == [c2 EXCEPT !.header = Unknown]
<1>0. c1 \in Calls /\ c2 \in Calls /\ c3 \in Calls
  <2>1. c1 \in Calls
    BY FormType
  <2>2. p \in Phases
    BY DEF Phases
  <2>3. c2 \in Calls
    BY <2>1, <2>2, PhaseType
  <2> QED BY <2>1, <2>3, HeaderType DEF Headers
<1>1. d \in Calls
  BY <1>0, CodeType, ZenonT(60) DEF Codes, WithRequest
<1>2. d.op = c.op /\ d.on = c.on /\ d.form = form /\ d.alone = c.alone /\ d.record = c.record
  BY DEF Calls, WithRequest
<1>3. d.phase = p
  BY DEF Calls, WithRequest
<1> QED BY <1>1, <1>2, <1>3

LEMMA WithAnswerType ==
  ASSUME NEW c \in Calls, NEW p \in Phases, NEW code \in Codes, NEW header \in Headers, NEW d,
         d = WithAnswer(c, p, code, header)
  PROVE  /\ d \in Calls
         /\ d.op = c.op /\ d.on = c.on /\ d.form = c.form /\ d.phase = p
         /\ d.header = header /\ d.code = code /\ d.alone = c.alone /\ d.record = c.record
<1> DEFINE c1 == [c EXCEPT !.phase = p]
           c2 == [c1 EXCEPT !.code = code]
<1>0. c1 \in Calls /\ c2 \in Calls
  <2>1. c1 \in Calls
    BY PhaseType
  <2> QED BY <2>1, CodeType
<1>1. d \in Calls
  BY <1>0, HeaderType DEF WithAnswer
<1>2. d.op = c.op /\ d.on = c.on /\ d.form = c.form /\ d.phase = p
  BY DEF Calls, WithAnswer
<1>3. d.header = header /\ d.code = code /\ d.alone = c.alone /\ d.record = c.record
  BY DEF Calls, WithAnswer
<1> QED BY <1>1, <1>2, <1>3

LEMMA TypeInit == Init => TypeOK
  BY NoCallType DEF Init, TypeOK, Calls, Phases, Headers, Codes

\* A call that begins, on its object; nothing else changes but who is alone.
LEMMA BeginType ==
  ASSUME TypeOK, NEW t \in Threads, NEW op \in Ops, NEW o \in Objects, NEW form \in Forms,
         NEW record \in BOOLEAN, Begin(t, op, o, form, record)
  PROVE  TypeOK'
<1>0. calls \in [Threads -> Calls]
  BY DEF TypeOK, Calls, Phases, Headers, Codes
<1>1. ASSUME NEW u \in Threads
      PROVE  calls'[u] \in Calls /\ (calls'[u].on = "none" <=> calls'[u].phase = "none")
  <2>1. CASE u = t
    <3> DEFINE p == IF form = "none" THEN "refused" ELSE "sent"
    <3>1. calls'[u] = Call(op, o, form, p, record, Unused(o))
      BY <2>1 DEF Begin
    <3>2. Unused(o) \in BOOLEAN
      BY DEF Unused
    <3>3. p \in {"refused", "sent"}
      OBVIOUS
    <3> HIDE DEF p
    <3>4. o # "none"
      BY ApiVersionAssumption
    <3> QED BY <3>1, <3>2, <3>3, <3>4 DEF Call, Calls, Phases, Headers, Codes
  <2>2. CASE u # t /\ calls[u].on = o
    <3>1. calls'[u] = NotAlone(calls[u])
      BY <2>2 DEF Begin
    <3>2. calls[u] \in Calls /\ (calls[u].on = "none" <=> calls[u].phase = "none")
      BY <1>0 DEF TypeOK
    <3> QED BY <3>1, <3>2, NotAloneType
  <2>3. CASE u # t /\ calls[u].on # o
    <3>1. calls'[u] = calls[u]
      BY <2>3 DEF Begin
    <3> QED BY <1>0, <3>1 DEF TypeOK
  <2> QED BY <2>1, <2>2, <2>3
<1>2. calls' \in [Threads -> Calls]
  BY <1>1 DEF Begin
<1>3. UNCHANGED <<server, version, floor>>
  BY DEF Begin
<1> QED BY <1>1, <1>2, <1>3 DEF TypeOK, Calls, Phases, Headers, Codes

\* Steps that replace the call of one thread: by d, which is nothing or a call on
\* an object.
LEMMA OneCallType ==
  ASSUME TypeOK, NEW t \in Threads, NEW d \in Calls, calls' = [calls EXCEPT ![t] = d],
         d.on = "none" <=> d.phase = "none",
         server' \in Versions, version' \in [Objects -> Known], floor' \in [Objects -> Known]
  PROVE  TypeOK'
<1>1. calls \in [Threads -> Calls]
  BY DEF TypeOK, Calls, Phases, Headers, Codes
<1>2. calls' \in [Threads -> Calls]
  BY <1>1
<1>3. \A u \in Threads : calls'[u].on = "none" <=> calls'[u].phase = "none"
  BY <1>1 DEF TypeOK
<1> QED BY <1>2, <1>3 DEF TypeOK, Calls, Phases, Headers, Codes, Known

LEMMA CallsType ==
  ASSUME TypeOK, NEW t \in Threads
  PROVE  /\ calls \in [Threads -> Calls]
         /\ calls[t] \in Calls
         /\ server \in Versions
         /\ version \in [Objects -> Known]
         /\ floor \in [Objects -> Known]
         /\ calls[t].on \in Objects \cup {"none"}
         /\ calls[t].on = "none" <=> calls[t].phase = "none"
  BY DEF TypeOK, Calls, Phases, Headers, Codes, Known

\* The steps of a call, each as one change of the thread's call.
LEMMA ServeEffect ==
  ASSUME TypeOK, NEW t \in Threads, Serve(t)
  PROVE  \E d \in Calls :
           /\ calls' = [calls EXCEPT ![t] = d]
           /\ d.op = calls[t].op /\ d.on = calls[t].on /\ d.form = calls[t].form
           /\ calls[t].phase = "sent" /\ d.phase = "answered"
           /\ d.header \in {server, Unknown, Malformed}
           /\ d.alone = calls[t].alone /\ d.record = calls[t].record
<1>1. PICK code \in {200, 422, 500}, header \in {server, Unknown, Malformed} :
        /\ TooOld(calls[t].form) /\ calls[t].form # "record" => code # 200
        /\ code = 422 => calls[t].op = "CreateToken"
        /\ code # 200 => header = Unknown
        /\ calls' = [calls EXCEPT ![t] = WithAnswer(calls[t], "answered", code, header)]
  BY Zenon DEF Serve
<1> DEFINE d == WithAnswer(calls[t], "answered", code, header)
<1>2. calls[t] \in Calls /\ server \in Versions
  BY CallsType
<1>3. header \in Headers /\ code \in Codes /\ "answered" \in Phases
  BY <1>2 DEF Headers, Codes, Phases
<1>4. calls[t].phase = "sent"
  BY DEF Serve
<1> HIDE DEF d
<1>5. /\ d \in Calls
      /\ d.op = calls[t].op /\ d.on = calls[t].on /\ d.form = calls[t].form
      /\ d.phase = "answered" /\ d.header = header /\ d.alone = calls[t].alone /\ d.record = calls[t].record
  BY <1>2, <1>3, WithAnswerType DEF d
<1>6. calls' = [calls EXCEPT ![t] = d]
  BY <1>1 DEF d
<1> QED BY <1>4, <1>5, <1>6

LEMMA LoseEffect ==
  ASSUME TypeOK, NEW t \in Threads, Lose(t)
  PROVE  \E d \in Calls :
           /\ calls' = [calls EXCEPT ![t] = d]
           /\ d.op = calls[t].op /\ d.on = calls[t].on /\ d.form = calls[t].form
           /\ calls[t].phase = "sent" /\ d.phase = "checked"
           /\ d.alone = calls[t].alone /\ d.record = calls[t].record
<1> DEFINE d == WithAnswer(calls[t], "checked", 500, Unknown)
<1>1. calls' = [calls EXCEPT ![t] = d] /\ calls[t].phase = "sent"
  BY DEF Lose
<1>2. calls[t] \in Calls
  BY CallsType
<1>3. Unknown \in Headers /\ 500 \in Codes /\ "checked" \in Phases
  BY DEF Headers, Codes, Phases
<1> HIDE DEF d
<1>4. /\ d \in Calls
      /\ d.op = calls[t].op /\ d.on = calls[t].on /\ d.form = calls[t].form
      /\ d.phase = "checked" /\ d.alone = calls[t].alone /\ d.record = calls[t].record
  BY <1>2, <1>3, WithAnswerType DEF d
<1> QED BY <1>1, <1>4

LEMMA CheckEffect ==
  ASSUME TypeOK, NEW t \in Threads, CheckRequest(t)
  PROVE  \E d \in Calls :
           /\ calls' = [calls EXCEPT ![t] = d]
           /\ d.op = calls[t].op /\ d.on = calls[t].on /\ d.form = calls[t].form
           /\ calls[t].phase = "answered" /\ d.phase = "checked"
           /\ d.alone = calls[t].alone /\ d.record = calls[t].record
<1> DEFINE d == WithAnswer(calls[t], "checked", CheckedCode(calls[t]), Unknown)
<1>1. calls' = [calls EXCEPT ![t] = d] /\ calls[t].phase = "answered"
  BY DEF CheckRequest
<1>2. calls[t] \in Calls
  BY CallsType
<1>3. calls[t].code \in Codes
  BY <1>2 DEF Calls
<1>4. CheckedCode(calls[t]) \in Codes
  BY <1>3 DEF CheckedCode, Codes
<1>5. Unknown \in Headers /\ "checked" \in Phases
  BY DEF Headers, Phases
<1> HIDE DEF d
<1>6. /\ d \in Calls
      /\ d.op = calls[t].op /\ d.on = calls[t].on /\ d.form = calls[t].form
      /\ d.phase = "checked" /\ d.alone = calls[t].alone /\ d.record = calls[t].record
  BY <1>2, <1>4, <1>5, WithAnswerType DEF d
<1> QED BY <1>1, <1>6

\* The form of a request follows from the version known to its object and, of a
\* link, from whether its record is named.
Justified(op, o, form, record) ==
  /\ form = "v2" => IsCompatible(V18, version[o])
  /\ form = "full" => IsCompatible(V19, version[o])
  /\ form = "v1" => ~IsCompatible(V18, version[o])
  /\ form \in {"index", "legacy"} => ~IsCompatible(V19, version[o])
  /\ form = "none" /\ op = "QueryMany" => ~IsCompatible(V18, version[o])
  /\ form = "info" => op \in {"CreateToken", "CreateQueryLink"}
  /\ form = "record" => record

LEMMA LinkFormJustified ==
  ASSUME NEW o, NEW record \in BOOLEAN
  PROVE  /\ LinkForm(version[o], record) \in Forms
         /\ Justified("CreateQueryLink", o, LinkForm(version[o], record), record)
  BY DEF LinkForm, Forms, Justified

LEMMA TokenFormJustified ==
  ASSUME NEW o, NEW record \in BOOLEAN
  PROVE  /\ TokenForm(version[o]) \in Forms
         /\ Justified("CreateToken", o, TokenForm(version[o]), record)
  BY DEF TokenForm, Forms, Justified

LEMMA StartEffect ==
  ASSUME NEW t \in Threads, Start(t), ~Build(t)
  PROVE  \E op \in Ops, o \in Objects, form \in Forms, record \in BOOLEAN :
           Justified(op, o, form, record) /\ Begin(t, op, o, form, record)
<1>1. CASE Request(t)
  <2>1. PICK o \in Objects : Begin(t, "Request", o, "plain", FALSE)
    BY <1>1 DEF Request
  <2>2. Justified("Request", o, "plain", FALSE) /\ "Request" \in Ops /\ "plain" \in Forms
    BY DEF Justified, Ops, Forms
  <2> QED BY <2>1, <2>2, Zenon
<1>2. CASE GetBucket(t)
  <2>1. PICK o \in Objects : Begin(t, "GetBucket", o, "plain", FALSE)
    BY <1>2 DEF GetBucket
  <2>2. Justified("GetBucket", o, "plain", FALSE) /\ "GetBucket" \in Ops /\ "plain" \in Forms
    BY DEF Justified, Ops, Forms
  <2> QED BY <2>1, <2>2, Zenon
<1>3. CASE Query(t)
  <2> DEFINE f(b) == IF SupportsBatchProtocolV2(b) THEN "v2" ELSE "v1"
  <2>1. PICK o \in Objects : Begin(t, "Query", o, f(o), FALSE)
    BY <1>3 DEF Query
  <2>2. Justified("Query", o, f(o), FALSE) /\ "Query" \in Ops /\ f(o) \in Forms
    BY DEF Justified, Ops, Forms, SupportsBatchProtocolV2
  <2> HIDE DEF f
  <2> QED BY <2>1, <2>2, Zenon
<1>4. CASE QueryMany(t)
  <2> DEFINE f(b) == IF SupportsBatchProtocolV2(b) THEN "v2" ELSE "none"
  <2>1. PICK o \in Objects : Begin(t, "QueryMany", o, f(o), FALSE)
    BY <1>4 DEF QueryMany
  <2>2. Justified("QueryMany", o, f(o), FALSE) /\ "QueryMany" \in Ops /\ f(o) \in Forms
    BY DEF Justified, Ops, Forms, SupportsBatchProtocolV2
  <2> HIDE DEF f
  <2> QED BY <2>1, <2>2, Zenon
<1>5. CASE CreateQueryLink(t)
  <2> DEFINE f(b, e, time, c, m) ==
               IF (m /\ ~SupportsBatchProtocolV2(b)) \/ ~Normalizes(e, time, c) THEN "none"
               ELSE IF version[b] = Unknown THEN "info"
               ELSE LinkForm(version[b], time)
  <2>1. PICK o \in Buckets, e \in BOOLEAN, time \in BOOLEAN, c \in BOOLEAN, m \in BOOLEAN :
          Begin(t, "CreateQueryLink", o, f(o, e, time, c, m), time)
    BY <1>5, Zenon DEF CreateQueryLink
  <2>2. Justified("CreateQueryLink", o, f(o, e, time, c, m), time) /\ f(o, e, time, c, m) \in Forms
    <3>1. f(o, e, time, c, m) \in {"none", "info", LinkForm(version[o], time)}
      OBVIOUS
    <3>2. Justified("CreateQueryLink", o, "none", time) /\ Justified("CreateQueryLink", o, "info", time)
      BY DEF Justified
    <3>3. "none" \in Forms /\ "info" \in Forms
      BY DEF Forms
    <3> HIDE DEF f
    <3> QED BY <3>1, <3>2, <3>3, LinkFormJustified
  <2>3. "CreateQueryLink" \in Ops /\ o \in Objects
    BY DEF Ops
  <2> HIDE DEF f
  <2> QED BY <2>1, <2>2, <2>3, Zenon
<1>6. CASE CreateToken(t)
  <2> DEFINE f(c) == IF version[c] = Unknown THEN "info" ELSE TokenForm(version[c])
  <2>1. PICK o \in Objects : Begin(t, "CreateToken", o, f(o), FALSE)
    BY <1>6 DEF CreateToken
  <2>2. Justified("CreateToken", o, f(o), FALSE) /\ f(o) \in Forms
    <3>1. Justified("CreateToken", o, "info", FALSE) /\ "info" \in Forms
      BY DEF Justified, Forms
    <3> QED BY <3>1, TokenFormJustified
  <2>3. "CreateToken" \in Ops
    BY DEF Ops
  <2> HIDE DEF f
  <2> QED BY <2>1, <2>2, <2>3, Zenon
<1> QED BY <1>1, <1>2, <1>3, <1>4, <1>5, <1>6 DEF Start

\* Only links and tokens look the version up.
InfoOps == \A t \in Threads : calls[t].form = "info" => calls[t].op \in {"CreateToken", "CreateQueryLink"}

\* The next request of a call, with its version or in the old form.
LEMMA ResendEffect ==
  ASSUME TypeOK, InfoOps, NEW t \in Threads, InfoKnown(t) \/ FallBack(t)
  PROVE  \E d \in Calls :
           /\ calls' = [calls EXCEPT ![t] = d]
           /\ d.op = calls[t].op /\ d.on = calls[t].on /\ d.alone = calls[t].alone /\ d.record = calls[t].record
           /\ calls[t].phase = "checked" /\ d.phase \in {"sent", "refused"}
           /\ Justified(d.op, d.on, d.form, d.record)
           /\ d.phase = "refused" => d.form = "none"
<1>1. calls[t] \in Calls
  BY CallsType
<1>2. ASSUME NEW form \in Forms, calls' = [calls EXCEPT ![t] = WithRequest(calls[t], form)],
             calls[t].phase = "checked", Justified(calls[t].op, calls[t].on, form, calls[t].record)
      PROVE  \E d \in Calls :
               /\ calls' = [calls EXCEPT ![t] = d]
               /\ d.op = calls[t].op /\ d.on = calls[t].on /\ d.alone = calls[t].alone /\ d.record = calls[t].record
               /\ calls[t].phase = "checked" /\ d.phase \in {"sent", "refused"}
               /\ Justified(d.op, d.on, d.form, d.record)
               /\ d.phase = "refused" => d.form = "none"
  <2> DEFINE d == WithRequest(calls[t], form)
  <2> HIDE DEF d
  <2>1. /\ d \in Calls
        /\ d.op = calls[t].op /\ d.on = calls[t].on /\ d.form = form
        /\ d.phase = IF form = "none" THEN "refused" ELSE "sent"
        /\ d.alone = calls[t].alone /\ d.record = calls[t].record
    BY <1>1, WithRequestType DEF d
  <2>2. calls' = [calls EXCEPT ![t] = d]
    BY <1>2 DEF d
  <2>3. Justified(d.op, d.on, d.form, d.record)
    BY <1>2, <2>1
  <2> QED BY <1>2, <2>1, <2>2, <2>3
<1>3. CASE InfoKnown(t)
  <2> DEFINE c == calls[t]
             f == IF c.op = "CreateToken" THEN TokenForm(version[c.on]) ELSE LinkForm(version[c.on], c.record)
  <2>1. calls[t].phase = "checked" /\ calls[t].form = "info"
    BY <1>3 DEF InfoKnown, Checked
  <2>2. calls' = [calls EXCEPT ![t] = WithRequest(calls[t], f)]
    BY <1>3 DEF InfoKnown, Resend
  <2>3. c.record \in BOOLEAN
    BY <1>1 DEF Calls
  <2>4. f \in Forms /\ Justified(c.op, c.on, f, c.record)
    <3>1. CASE c.op = "CreateToken"
      BY <3>1, <2>3, TokenFormJustified
    <3>2. CASE c.op = "CreateQueryLink"
      BY <3>2, <2>3, LinkFormJustified
    <3> QED BY <2>1, <3>1, <3>2 DEF InfoOps
  <2> HIDE DEF f
  <2> QED BY <1>2, <2>1, <2>2, <2>4
<1>4. CASE FallBack(t)
  <2>1. calls[t].phase = "checked" /\ calls' = [calls EXCEPT ![t] = WithRequest(calls[t], "fallback")]
    BY <1>4 DEF FallBack, Checked, Resend
  <2>2. "fallback" \in Forms /\ Justified(calls[t].op, calls[t].on, "fallback", calls[t].record)
    BY DEF Forms, Justified
  <2> QED BY <1>2, <2>1, <2>2
<1> QED BY <1>3, <1>4

\* Steps of one call that change neither the server nor what is known of it.
OneCall(t, d) == /\ calls' = [calls EXCEPT ![t] = d]
                 /\ UNCHANGED <<server, version, floor>>

Quiet(t) == Serve(t) \/ Lose(t) \/ InfoKnown(t) \/ FallBack(t) \/ Return(t)

\* Such a step ends the call, or goes on with it: then the answer it got, if any,
\* is one the server gave just now, and its request, if new, is justified.
GoesOn(c, d) ==
  /\ c.on # "none" /\ c.phase # "none"
  /\ d.op = c.op /\ d.on = c.on /\ d.alone = c.alone /\ d.record = c.record
  /\ \/ d.phase \in {"answered", "checked"} /\ d.form = c.form
     \/ d.phase \in {"sent", "refused"} /\ Justified(d.op, d.on, d.form, d.record)
  /\ d.phase = "answered" => d.header \in {server, Unknown, Malformed}
  /\ d.phase = "refused" => d.form = "none"

LEMMA QuietEffect ==
  ASSUME TypeOK, InfoOps, NEW t \in Threads, Quiet(t)
  PROVE  \E d \in Calls : OneCall(t, d) /\ (d = NoCall \/ GoesOn(calls[t], d))
<1>0. calls[t].on = "none" <=> calls[t].phase = "none"
  BY CallsType
<1>1. CASE Serve(t)
  <2>1. UNCHANGED <<server, version, floor>>
    BY <1>1 DEF Serve
  <2> QED BY <1>0, <1>1, <2>1, ServeEffect DEF OneCall, GoesOn
<1>2. CASE Lose(t)
  <2>1. UNCHANGED <<server, version, floor>>
    BY <1>2 DEF Lose
  <2> QED BY <1>0, <1>2, <2>1, LoseEffect DEF OneCall, GoesOn
<1>3. CASE InfoKnown(t) \/ FallBack(t)
  <2>1. UNCHANGED <<server, version, floor>>
    BY <1>3 DEF InfoKnown, FallBack, Resend
  <2> QED BY <1>0, <1>3, <2>1, ResendEffect DEF OneCall, GoesOn
<1>4. CASE Return(t)
  BY <1>4, NoCallType DEF Return, OneCall
<1> QED BY <1>1, <1>2, <1>3, <1>4 DEF Quiet

LEMMA TypeNext == TypeOK /\ InfoOps /\ [Next]_vars => TypeOK'
<1> SUFFICES ASSUME TypeOK, InfoOps, [Next]_vars PROVE TypeOK'
  OBVIOUS
<1>1. CASE Upgrade
  BY <1>1 DEF Upgrade, TypeOK
<1>2. ASSUME NEW t \in Threads, Start(t) PROVE TypeOK'
  <2>1. CASE Build(t)
    <3>1. version' \in [Objects -> Known] /\ floor' \in [Objects -> Known]
      BY <2>1, CallsType DEF Build, Known
    <3> QED BY <2>1, <3>1 DEF Build, TypeOK, Known
  <2>2. CASE ~Build(t)
    BY <1>2, <2>2, StartEffect, BeginType
  <2> QED BY <2>1, <2>2
<1>3. ASSUME NEW t \in Threads, Quiet(t) PROVE TypeOK'
  <2>1. PICK d \in Calls : OneCall(t, d) /\ (d = NoCall \/ GoesOn(calls[t], d))
    BY <1>3, QuietEffect
  <2>2. d.on = "none" <=> d.phase = "none"
    BY <2>1, NoCallType DEF GoesOn
  <2>3. server' \in Versions /\ version' \in [Objects -> Known] /\ floor' \in [Objects -> Known]
    BY <2>1, CallsType DEF OneCall
  <2> QED BY <2>1, <2>2, <2>3, OneCallType DEF OneCall
<1>4. ASSUME NEW t \in Threads, CheckRequest(t) PROVE TypeOK'
  <2>1. PICK d \in Calls :
           /\ calls' = [calls EXCEPT ![t] = d]
           /\ d.op = calls[t].op /\ d.on = calls[t].on /\ d.form = calls[t].form
           /\ calls[t].phase = "answered" /\ d.phase = "checked"
           /\ d.alone = calls[t].alone /\ d.record = calls[t].record
    BY <1>4, CheckEffect
  <2>2. d.on # "none"
    BY <2>1, CallsType
  <2>3. server' \in Versions
    BY <1>4, CallsType DEF CheckRequest
  <2>4. calls[t].header[1] = Major => calls[t].header \in Known
    BY CallsType DEF Calls, Headers, Known, Unknown, Malformed, Major
  <2>5. version' \in [Objects -> Known] /\ floor' \in [Objects -> Known]
    BY <1>4, <2>4, CallsType DEF CheckRequest, Learns
  <2> QED BY <2>1, <2>2, <2>3, <2>5, OneCallType
<1>5. ASSUME NEW t \in Threads, ReturnBucket(t) PROVE TypeOK'
  <2>1. calls' = [calls EXCEPT ![t] = NoCall] /\ server' \in Versions
    BY <1>5, CallsType DEF ReturnBucket
  <2>2. calls[t].on \in Objects
    BY <1>5, CallsType DEF ReturnBucket, Checked
  <2>3. PICK b \in Buckets : /\ version' = [version EXCEPT ![b] = version[calls[t].on]]
                             /\ floor' = [floor EXCEPT ![b] = floor[calls[t].on]]
    BY <1>5 DEF ReturnBucket, Inherited
  <2>4. version' \in [Objects -> Known] /\ floor' \in [Objects -> Known]
    BY <2>2, <2>3, CallsType
  <2> QED BY <2>1, <2>4, NoCallType, OneCallType
<1>6. CASE UNCHANGED vars
  BY <1>6 DEF vars, TypeOK
<1> QED BY <1>1, <1>2, <1>3, <1>4, <1>5, <1>6 DEF Next, Step, Quiet

-----------------------------------------------------------------------------
(* What the versions known depend on.                                      *)

LEMMA BeginEffect ==
  ASSUME TypeOK, NEW t \in Threads, NEW op, NEW o, NEW form, NEW record, Begin(t, op, o, form, record)
  PROVE  /\ calls[t] = NoCall
         /\ calls'[t].op = op /\ calls'[t].on = o /\ calls'[t].form = form /\ calls'[t].record = record
         /\ calls'[t].phase \in {"sent", "refused"}
         /\ calls'[t].phase = "refused" <=> form = "none"
         /\ calls'[t].alone <=> Unused(o)
         /\ \A u \in Threads \ {t} :
              /\ calls'[u].op = calls[u].op /\ calls'[u].on = calls[u].on
              /\ calls'[u].form = calls[u].form /\ calls'[u].phase = calls[u].phase
              /\ calls'[u].header = calls[u].header /\ calls'[u].code = calls[u].code
              /\ calls'[u].record = calls[u].record
              /\ calls'[u].alone => calls[u].alone /\ calls[u].on # o
         /\ UNCHANGED <<server, version, floor>>
<1> DEFINE p == IF form = "none" THEN "refused" ELSE "sent"
<1>1. calls'[t] = Call(op, o, form, p, record, Unused(o))
  BY DEF Begin
<1>2. ASSUME NEW u \in Threads \ {t}
      PROVE  /\ calls'[u].op = calls[u].op /\ calls'[u].on = calls[u].on
             /\ calls'[u].form = calls[u].form /\ calls'[u].phase = calls[u].phase
             /\ calls'[u].header = calls[u].header /\ calls'[u].code = calls[u].code
             /\ calls'[u].record = calls[u].record
             /\ calls'[u].alone => calls[u].alone /\ calls[u].on # o
  <2>1. calls'[u] = IF calls[u].on = o THEN NotAlone(calls[u]) ELSE calls[u]
    BY DEF Begin
  <2>2. calls[u] \in Calls
    BY CallsType
  <2> QED BY <2>1, <2>2, NotAloneType
<1>3. calls'[t].op = op /\ calls'[t].on = o /\ calls'[t].form = form /\ calls'[t].phase = p /\ calls'[t].record = record
  BY <1>1 DEF Call
<1>4. calls'[t].alone <=> Unused(o)
  BY <1>1 DEF Call
<1>5. calls[t] = NoCall /\ UNCHANGED <<server, version, floor>>
  BY DEF Begin
<1> QED BY <1>2, <1>3, <1>4, <1>5

LEMMA InfoOpsNext == TypeOK /\ InfoOps /\ [Next]_vars => InfoOps'
<1> SUFFICES ASSUME TypeOK, InfoOps, [Next]_vars PROVE InfoOps'
  OBVIOUS
<1>1. ASSUME NEW t \in Threads, Start(t), ~Build(t) PROVE InfoOps'
  <2>1. PICK op \in Ops, o \in Objects, form \in Forms, record \in BOOLEAN :
           Justified(op, o, form, record) /\ Begin(t, op, o, form, record)
    BY <1>1, StartEffect
  <2> QED BY <2>1, BeginEffect DEF InfoOps, Justified
<1>2. ASSUME NEW t \in Threads, Quiet(t) PROVE InfoOps'
  <2>1. PICK d \in Calls : OneCall(t, d) /\ (d = NoCall \/ GoesOn(calls[t], d))
    BY <1>2, QuietEffect
  <2>2. d.form = "info" => d.op \in {"CreateToken", "CreateQueryLink"}
    BY <2>1 DEF GoesOn, NoCall, Call, Justified, InfoOps
  <2> QED BY <2>1, <2>2, CallsType DEF InfoOps, OneCall
<1>3. ASSUME NEW t \in Threads, CheckRequest(t) PROVE InfoOps'
  BY <1>3, CheckEffect, CallsType DEF InfoOps
<1>4. ASSUME NEW t \in Threads, ReturnBucket(t) PROVE InfoOps'
  BY <1>4, CallsType DEF InfoOps, ReturnBucket, NoCall, Call
<1>5. CASE UNCHANGED calls
  BY <1>5 DEF InfoOps
<1> QED BY <1>1, <1>2, <1>3, <1>4, <1>5 DEF Next, Step, Quiet, Start, Build, Upgrade, vars

\* A call that is alone shares its object with no other.
AloneIsAlone ==
  \A t, u \in Threads :
    calls[t].alone => calls[t].on # "none" /\ (u # t => calls[u].on # calls[t].on)

\* A version under way is not older than what its object must know by now, nor
\* newer than the server.
HeadersBracketed ==
  \A t \in Threads : LET c == calls[t] IN
    c.phase = "answered" /\ c.code = 200 /\ c.header[1] = Major =>
      AtMost(floor[c.on], c.header) /\ AtMost(c.header, server)

LEMMA AloneNext == TypeOK /\ InfoOps /\ AloneIsAlone /\ [Next]_vars => AloneIsAlone'
<1> SUFFICES ASSUME TypeOK, InfoOps, AloneIsAlone, [Next]_vars PROVE AloneIsAlone'
  OBVIOUS
<1>1. ASSUME NEW t \in Threads, Start(t), ~Build(t) PROVE AloneIsAlone'
  <2>1. PICK op \in Ops, o \in Objects, form \in Forms, record \in BOOLEAN :
           Justified(op, o, form, record) /\ Begin(t, op, o, form, record)
    BY <1>1, StartEffect
  <2>2. o # "none"
    BY ApiVersionAssumption
  <2> QED BY <2>1, <2>2, BeginEffect DEF AloneIsAlone, Unused
<1>2. ASSUME NEW t \in Threads, NEW d \in Calls, calls' = [calls EXCEPT ![t] = d],
             d = NoCall \/ (d.on = calls[t].on /\ d.alone = calls[t].alone /\ d.record = calls[t].record)
      PROVE  AloneIsAlone'
  <2>1. NoCall.on = "none" /\ ~NoCall.alone
    BY DEF NoCall, Call
  <2> QED BY <1>2, <2>1, CallsType DEF AloneIsAlone
<1>3. ASSUME NEW t \in Threads, Quiet(t) PROVE AloneIsAlone'
  BY <1>2, <1>3, QuietEffect DEF OneCall, GoesOn
<1>4. ASSUME NEW t \in Threads, CheckRequest(t) PROVE AloneIsAlone'
  BY <1>2, <1>4, CheckEffect
<1>5. ASSUME NEW t \in Threads, ReturnBucket(t) PROVE AloneIsAlone'
  BY <1>2, <1>5, NoCallType DEF ReturnBucket
<1>6. CASE UNCHANGED calls
  BY <1>6 DEF AloneIsAlone
<1> QED BY <1>1, <1>3, <1>4, <1>5, <1>6 DEF Next, Step, Quiet, Start, Build, Upgrade, vars

\* The server's version, and those known of it, are pairs of numbers.
LEMMA PairType ==
  ASSUME TypeOK
  PROVE  /\ server \in Nat \X Nat
         /\ \A o \in Objects : version[o] \in Nat \X Nat /\ floor[o] \in Nat \X Nat
         /\ \A t \in Threads : calls[t].header \in Nat \X Nat
<1>1. server \in Nat \X Nat
  BY ApiVersionAssumption DEF TypeOK
<1>2. \A o \in Objects : version[o] \in Nat \X Nat /\ floor[o] \in Nat \X Nat
  BY KnownType DEF TypeOK, Known
<1>3. ASSUME NEW t \in Threads PROVE calls[t].header \in Nat \X Nat
  <2>1. calls[t].header \in Headers
    BY CallsType DEF Calls
  <2>2. Headers \subseteq Nat \X Nat
    BY ApiVersionAssumption DEF Headers, Unknown, Malformed
  <2> QED BY <2>1, <2>2
<1> QED BY <1>1, <1>2, <1>3

LEMMA UpgradeGrows == ASSUME TypeOK, Upgrade PROVE server' \in Nat \X Nat /\ AtMost(server, server')
  BY ApiVersionAssumption DEF Upgrade

LEMMA HeadersNext ==
  TypeOK /\ InfoOps /\ AloneIsAlone /\ HeadersBracketed /\ VersionBracketed /\ [Next]_vars => HeadersBracketed'
<1> SUFFICES ASSUME TypeOK, InfoOps, AloneIsAlone, HeadersBracketed, VersionBracketed, [Next]_vars,
                    NEW u \in Threads, calls'[u].phase = "answered", calls'[u].code = 200,
                    calls'[u].header[1] = Major
             PROVE  AtMost(floor'[calls'[u].on], calls'[u].header) /\ AtMost(calls'[u].header, server')
  BY DEF HeadersBracketed
<1> DEFINE c == calls[u]
           Before == calls'[u].on = c.on /\ calls'[u].header = c.header
                     /\ c.phase = "answered" /\ c.code = 200
<1>0. c.on = "none" => c.phase = "none"
  BY CallsType
<1>1. CASE Upgrade
  <2>1. AtMost(floor[c.on], c.header) /\ AtMost(c.header, server) /\ UNCHANGED <<floor, calls>>
    BY <1>1 DEF Upgrade, HeadersBracketed
  <2> QED BY <2>1, <1>1, UpgradeGrows, PairType, AtMostTransitive
<1>2. ASSUME NEW t \in Threads, Start(t) PROVE AtMost(floor'[calls'[u].on], calls'[u].header) /\ AtMost(calls'[u].header, server')
  <2>1. CASE Build(t)
    <3>1. PICK b \in Buckets : Unused(b) /\ floor' = [floor EXCEPT ![b] = Unknown]
      BY <2>1 DEF Build
    <3>2. UNCHANGED <<server, calls>>
      BY <2>1 DEF Build
    <3>3. c.on # b
      BY <3>1 DEF Unused
    <3>4. floor'[c.on] = floor[c.on]
      BY <3>1, <3>3, CallsType, <3>2, <1>0
    <3> QED BY <3>2, <3>4 DEF HeadersBracketed
  <2>2. CASE ~Build(t)
    <3>1. PICK op \in Ops, o \in Objects, form \in Forms, record \in BOOLEAN :
             Justified(op, o, form, record) /\ Begin(t, op, o, form, record)
      BY <1>2, <2>2, StartEffect
    <3>2. u # t
      BY <3>1, BeginEffect
    <3>3. Before /\ UNCHANGED <<server, floor>>
      BY <3>1, <3>2, BeginEffect
    <3> QED BY <3>3 DEF HeadersBracketed
  <2> QED BY <2>1, <2>2
<1>3. ASSUME NEW t \in Threads, Quiet(t) PROVE AtMost(floor'[calls'[u].on], calls'[u].header) /\ AtMost(calls'[u].header, server')
  <2>1. PICK d \in Calls : OneCall(t, d) /\ (d = NoCall \/ GoesOn(calls[t], d))
    BY <1>3, QuietEffect
  <2>2. CASE u = t
    <3>1. calls'[u] = d
      BY <2>1, <2>2, CallsType DEF OneCall
    <3>2. d # NoCall
      BY <3>1, NoCallType
    <3>3. d.header \in {server, Unknown, Malformed} /\ d.on = c.on /\ c.on # "none"
      BY <2>1, <2>2, <3>1, <3>2 DEF GoesOn
    <3>4. d.header = server
      BY <3>1, <3>3 DEF Unknown, Malformed, Major
    <3>5. d.on \in Objects
      BY <3>3, CallsType
    <3>6. UNCHANGED <<server, floor>>
      BY <2>1 DEF OneCall
    <3>7. AtMost(floor[d.on], server)
      BY <3>5, PairType, AtMostTransitive DEF VersionBracketed
    <3> QED BY <3>1, <3>4, <3>6, <3>7, PairType, AtMostReflexive
  <2>3. CASE u # t
    <3>1. Before /\ UNCHANGED <<server, floor>>
      BY <2>1, <2>3, CallsType DEF OneCall
    <3> QED BY <3>1 DEF HeadersBracketed
  <2> QED BY <2>2, <2>3
<1>4. ASSUME NEW t \in Threads, CheckRequest(t) PROVE AtMost(floor'[calls'[u].on], calls'[u].header) /\ AtMost(calls'[u].header, server')
  <2>1. PICK d \in Calls : calls' = [calls EXCEPT ![t] = d] /\ d.phase = "checked"
    BY <1>4, CheckEffect
  <2>2. u # t
    BY <2>1, CallsType
  <2>3. Before /\ UNCHANGED server
    BY <1>4, <2>1, <2>2, CallsType DEF CheckRequest
  <2>4. floor' = floor \/ (calls[t].alone /\ floor' = [floor EXCEPT ![calls[t].on] = calls[t].header])
    BY <1>4 DEF CheckRequest
  <2>5. floor'[c.on] = floor[c.on]
    <3>1. c.on \in Objects
      BY <2>3, <1>0, CallsType
    <3> QED BY <2>2, <2>4, <3>1, CallsType DEF AloneIsAlone
  <2> QED BY <2>3, <2>5 DEF HeadersBracketed
<1>5. ASSUME NEW t \in Threads, ReturnBucket(t) PROVE AtMost(floor'[calls'[u].on], calls'[u].header) /\ AtMost(calls'[u].header, server')
  <2>1. PICK b \in Buckets : Unused(b) /\ floor' = [floor EXCEPT ![b] = floor[calls[t].on]]
    BY <1>5 DEF ReturnBucket
  <2>2. calls' = [calls EXCEPT ![t] = NoCall] /\ UNCHANGED server
    BY <1>5 DEF ReturnBucket
  <2>3. u # t
    BY <2>2, NoCallType, CallsType
  <2>4. Before
    BY <2>2, <2>3, CallsType
  <2>5. floor'[c.on] = floor[c.on]
    BY <2>1, <2>4, <1>0, CallsType DEF Unused
  <2> QED BY <2>2, <2>4, <2>5 DEF HeadersBracketed
<1>6. CASE UNCHANGED vars
  BY <1>6 DEF vars, HeadersBracketed
<1> QED BY <1>1, <1>2, <1>3, <1>4, <1>5, <1>6 DEF Next, Step, Quiet

LEMMA BracketNext ==
  TypeOK /\ InfoOps /\ AloneIsAlone /\ HeadersBracketed /\ VersionBracketed /\ [Next]_vars => VersionBracketed'
<1> SUFFICES ASSUME TypeOK, InfoOps, AloneIsAlone, HeadersBracketed, VersionBracketed, [Next]_vars,
                    NEW o \in Objects
             PROVE  AtMost(floor'[o], version'[o]) /\ AtMost(version'[o], server')
  BY DEF VersionBracketed
<1> DEFINE Goal == AtMost(floor'[o], version'[o]) /\ AtMost(version'[o], server')
<1>0. AtMost(floor[o], version[o]) /\ AtMost(version[o], server)
  BY DEF VersionBracketed
<1>1. CASE Upgrade
  BY <1>0, <1>1, UpgradeGrows, PairType, AtMostTransitive DEF Upgrade
<1>2. ASSUME NEW t \in Threads, Build(t) PROVE Goal
  <2>1. PICK b \in Buckets : version' = [version EXCEPT ![b] = Unknown] /\ floor' = [floor EXCEPT ![b] = Unknown]
    BY <1>2 DEF Build
  <2>2. UNCHANGED server
    BY <1>2 DEF Build
  <2>3. CASE o = b
    <3>1. version'[o] = Unknown /\ floor'[o] = Unknown
      BY <2>1, <2>3 DEF TypeOK
    <3>2. Unknown \in Nat \X Nat
      BY DEF Unknown
    <3> QED BY <2>2, <3>1, <3>2, UnknownLeast, PairType
  <2>4. CASE o # b
    BY <1>0, <2>1, <2>2, <2>4 DEF TypeOK
  <2> QED BY <2>3, <2>4
<1>3. ASSUME UNCHANGED <<server, version, floor>> PROVE Goal
  BY <1>0, <1>3
<1>4. ASSUME NEW t \in Threads, CheckRequest(t) PROVE Goal
  <2> DEFINE c == calls[t]
  <2>1. c.phase = "answered" /\ UNCHANGED server
    BY <1>4 DEF CheckRequest
  <2>2. c.on \in Objects
    BY <2>1, CallsType
  <2>3. CASE Learns(c) /\ c.on = o
    <3>1. version'[o] = c.header
      BY <1>4, <2>3 DEF CheckRequest, TypeOK
    <3>2. floor'[o] \in {floor[o], c.header}
      BY <1>4, <2>3 DEF CheckRequest, TypeOK
    <3>3. AtMost(floor[o], c.header) /\ AtMost(c.header, server)
      BY <2>1, <2>3 DEF HeadersBracketed, Learns
    <3> QED BY <2>1, <3>1, <3>2, <3>3, PairType, AtMostReflexive
  <2>4. CASE ~(Learns(c) /\ c.on = o)
    <3>1. version'[o] = version[o] /\ floor'[o] = floor[o]
      BY <1>4, <2>2, <2>4 DEF CheckRequest, TypeOK, Learns
    <3> QED BY <1>0, <2>1, <3>1
  <2> QED BY <2>3, <2>4
<1>5. ASSUME NEW t \in Threads, ReturnBucket(t) PROVE Goal
  <2>1. PICK b \in Buckets : /\ version' = [version EXCEPT ![b] = version[calls[t].on]]
                             /\ floor' = [floor EXCEPT ![b] = floor[calls[t].on]]
    BY <1>5 DEF ReturnBucket, Inherited
  <2>2. calls[t].on \in Objects /\ UNCHANGED server
    BY <1>5, CallsType DEF ReturnBucket, Checked
  <2> QED BY <1>0, <2>1, <2>2 DEF TypeOK, VersionBracketed
<1>6. ASSUME NEW t \in Threads, Start(t), ~Build(t) PROVE UNCHANGED <<server, version, floor>>
  BY <1>6, StartEffect, BeginEffect
<1>7. ASSUME NEW t \in Threads, Quiet(t) PROVE UNCHANGED <<server, version, floor>>
  BY <1>7, QuietEffect DEF OneCall
<1> QED BY <1>1, <1>2, <1>3, <1>4, <1>5, <1>6, <1>7 DEF Next, Step, Quiet, vars

-----------------------------------------------------------------------------
(* What the forms of requests depend on.                                   *)

\* A form that follows from what an object knows is one the server understands,
\* unless it is that of a link whose record is named; and an old one only if the object may not know better.
LEMMA JustifiedFits ==
  ASSUME TypeOK, VersionBracketed, NEW op, NEW o \in Objects, NEW form, NEW record,
         Justified(op, o, form, record)
  PROVE  /\ TooOld(form) => form = "record" /\ record
         /\ form = "v1" => ~AtMost(V18, floor[o])
         /\ form \in {"index", "legacy"} => ~AtMost(V19, floor[o])
         /\ form = "none" /\ op = "QueryMany" => ~AtMost(V18, floor[o])
<1>1. V18 \in Nat \X Nat /\ V19 \in Nat \X Nat
  BY DEF V18, V19
<1>2. server \in Nat \X Nat /\ version[o] \in Nat \X Nat /\ floor[o] \in Nat \X Nat
  BY PairType
<1>3. version[o] \in Known
  BY DEF TypeOK, Known
<1>4. /\ IsCompatible(V18, version[o]) <=> AtMost(V18, version[o])
      /\ IsCompatible(V19, version[o]) <=> AtMost(V19, version[o])
  BY <1>3, CompatibleKnown DEF V18, V19
<1>5. AtMost(floor[o], version[o]) /\ AtMost(version[o], server)
  BY DEF VersionBracketed
<1>6. /\ AtMost(V18, version[o]) => AtMost(V18, server)
      /\ AtMost(V19, version[o]) => AtMost(V19, server)
      /\ AtMost(V18, floor[o]) => AtMost(V18, version[o])
      /\ AtMost(V19, floor[o]) => AtMost(V19, version[o])
  BY <1>1, <1>2, <1>5, AtMostTransitive
<1> QED BY <1>4, <1>6 DEF Justified, TooOld

\* FormFits of one call, in a state with the given versions.
Fits(c, s, f) ==
  /\ c.form = "v2" => AtMost(V18, s)
  /\ c.form = "full" => AtMost(V19, s)
  /\ c.form = "record" => AtMost(V19, s) \/ c.record
  /\ c.phase = "sent" /\ c.form = "v1" => ~AtMost(V18, f)
  /\ c.phase = "sent" /\ c.form \in {"index", "legacy"} => ~AtMost(V19, f)
  /\ c.phase = "refused" /\ c.op = "QueryMany" => ~AtMost(V18, f)

LEMMA FitsMeans == FormFits <=> \A t \in Threads : Fits(calls[t], server, floor[calls[t].on])
  BY DEF FormFits, Fits, TooOld

LEMMA FitsMeansNext == FormFits' <=> \A t \in Threads : Fits(calls'[t], server', floor'[calls'[t].on])
  BY DEF FormFits, Fits, TooOld

LEMMA FormFitsNext ==
  TypeOK /\ InfoOps /\ AloneIsAlone /\ VersionBracketed /\ FormFits /\ [Next]_vars => FormFits'
<1> SUFFICES ASSUME TypeOK, InfoOps, AloneIsAlone, VersionBracketed, FormFits, [Next]_vars, NEW u \in Threads
             PROVE  Fits(calls'[u], server', floor'[calls'[u].on])
  BY FitsMeansNext
<1> DEFINE c == calls[u]
           Goal == Fits(calls'[u], server', floor'[calls'[u].on])
<1>0. Fits(c, server, floor[c.on]) /\ (c.on = "none" <=> c.phase = "none")
  BY FitsMeans, CallsType
<1>a. Fits(NoCall, server', floor'[NoCall.on])
  BY DEF Fits, NoCall, Call
<1>1. CASE Upgrade
  <2>1. UNCHANGED <<floor, calls>> /\ AtMost(server, server') /\ server' \in Nat \X Nat
    BY <1>1, UpgradeGrows DEF Upgrade
  <2>2. V18 \in Nat \X Nat /\ V19 \in Nat \X Nat
    BY DEF V18, V19
  <2>3. /\ AtMost(V18, server) => AtMost(V18, server')
        /\ AtMost(V19, server) => AtMost(V19, server')
    BY <2>1, <2>2, PairType, AtMostTransitive
  <2> QED BY <1>0, <2>1, <2>3 DEF Fits
<1>2. ASSUME NEW t \in Threads, Build(t) PROVE Goal
  <2>1. PICK b \in Buckets : Unused(b) /\ floor' = [floor EXCEPT ![b] = Unknown]
    BY <1>2 DEF Build
  <2>2. floor'[c.on] = floor[c.on] \/ c.on = "none"
    BY <2>1, CallsType DEF Unused
  <2>3. UNCHANGED <<server, calls>>
    BY <1>2 DEF Build
  <2> QED BY <1>0, <2>2, <2>3 DEF Fits
<1>3. ASSUME NEW t \in Threads, Start(t), ~Build(t) PROVE Goal
  <2>1. PICK op \in Ops, o \in Objects, form \in Forms, record \in BOOLEAN :
           Justified(op, o, form, record) /\ Begin(t, op, o, form, record)
    BY <1>3, StartEffect
  <2>2. CASE u = t
    <3>1. /\ calls'[u].op = op /\ calls'[u].on = o /\ calls'[u].form = form /\ calls'[u].record = record
          /\ calls'[u].phase = "refused" <=> form = "none"
          /\ UNCHANGED <<server, floor>>
      BY <2>1, <2>2, BeginEffect
    <3> QED BY <2>1, <3>1, JustifiedFits DEF Fits, TooOld
  <2>3. CASE u # t
    <3>1. /\ calls'[u].op = c.op /\ calls'[u].on = c.on /\ calls'[u].form = c.form
          /\ calls'[u].phase = c.phase /\ calls'[u].record = c.record /\ UNCHANGED <<server, floor>>
      BY <2>1, <2>3, BeginEffect
    <3> QED BY <1>0, <3>1 DEF Fits
  <2> QED BY <2>2, <2>3
<1>4. ASSUME NEW t \in Threads, Quiet(t) PROVE Goal
  <2>1. PICK d \in Calls : OneCall(t, d) /\ (d = NoCall \/ GoesOn(calls[t], d))
    BY <1>4, QuietEffect
  <2>2. UNCHANGED <<server, floor>>
    BY <2>1 DEF OneCall
  <2>3. CASE u = t /\ GoesOn(c, d)
    <3>1. calls'[u] = d
      BY <2>1, <2>3, CallsType DEF OneCall
    <3>2. CASE d.phase \in {"answered", "checked"} /\ d.form = c.form
      <4>1. d.on = c.on /\ d.record = c.record
        BY <2>3 DEF GoesOn
      <4> QED BY <1>0, <2>2, <3>1, <3>2, <4>1 DEF Fits
    <3>3. CASE d.phase \in {"sent", "refused"} /\ Justified(d.op, d.on, d.form, d.record)
      <4>1. d.on \in Objects
        BY <2>3, CallsType DEF GoesOn
      <4>2. d.phase = "refused" => d.form = "none"
        BY <2>3 DEF GoesOn
      <4> QED BY <2>2, <3>1, <3>3, <4>1, <4>2, JustifiedFits DEF Fits, TooOld
    <3> QED BY <2>3, <3>2, <3>3 DEF GoesOn
  <2>4. CASE u = t /\ d = NoCall
    <3>1. calls'[u] = NoCall
      BY <2>1, <2>4, CallsType DEF OneCall
    <3> QED BY <1>a, <3>1
  <2>5. CASE u # t
    <3>1. calls'[u] = c
      BY <2>1, <2>5, CallsType DEF OneCall
    <3> QED BY <1>0, <2>2, <3>1
  <2> QED BY <2>1, <2>3, <2>4, <2>5
<1>5. ASSUME NEW t \in Threads, CheckRequest(t) PROVE Goal
  <2>1. PICK d \in Calls :
           /\ calls' = [calls EXCEPT ![t] = d]
           /\ d.op = calls[t].op /\ d.on = calls[t].on /\ d.form = calls[t].form
           /\ calls[t].phase = "answered" /\ d.phase = "checked"
           /\ d.alone = calls[t].alone /\ d.record = calls[t].record
    BY <1>5, CheckEffect
  <2>2. UNCHANGED server
    BY <1>5 DEF CheckRequest
  <2>3. CASE u = t
    <3>1. calls'[u] = d
      BY <2>1, <2>3, CallsType
    <3> QED BY <1>0, <2>1, <2>2, <2>3, <3>1 DEF Fits
  <2>4. CASE u # t
    <3>1. calls'[u] = c
      BY <2>1, <2>4, CallsType
    <3>2. floor' = floor \/ (calls[t].alone /\ floor' = [floor EXCEPT ![calls[t].on] = calls[t].header])
      BY <1>5 DEF CheckRequest
    <3>3. floor'[c.on] = floor[c.on] \/ c.on = "none"
      BY <2>4, <3>2, CallsType DEF AloneIsAlone
    <3> QED BY <1>0, <2>2, <3>1, <3>3 DEF Fits
  <2> QED BY <2>3, <2>4
<1>6. ASSUME NEW t \in Threads, ReturnBucket(t) PROVE Goal
  <2>1. PICK b \in Buckets : Unused(b) /\ floor' = [floor EXCEPT ![b] = floor[calls[t].on]]
    BY <1>6 DEF ReturnBucket
  <2>2. calls' = [calls EXCEPT ![t] = NoCall] /\ UNCHANGED server
    BY <1>6 DEF ReturnBucket
  <2>3. CASE u = t
    <3>1. calls'[u] = NoCall
      BY <2>2, <2>3, CallsType
    <3> QED BY <1>a, <3>1
  <2>4. CASE u # t
    <3>1. calls'[u] = c
      BY <2>2, <2>4, CallsType
    <3>2. floor'[c.on] = floor[c.on] \/ c.on = "none"
      BY <2>1, CallsType DEF Unused
    <3> QED BY <1>0, <2>2, <3>1, <3>2 DEF Fits
  <2> QED BY <2>3, <2>4
<1>7. CASE UNCHANGED vars
  BY <1>0, <1>7 DEF vars
<1> QED BY <1>1, <1>2, <1>3, <1>4, <1>5, <1>6, <1>7 DEF Next, Step, Quiet

-----------------------------------------------------------------------------

\* Everything the versions and the forms depend on.
IInv == TypeOK /\ InfoOps /\ AloneIsAlone /\ HeadersBracketed /\ VersionBracketed /\ FormFits

LEMMA InvInit == Init => IInv
<1> SUFFICES ASSUME Init PROVE IInv
  OBVIOUS
<1>1. TypeOK
  BY TypeInit
<1>2. \A t \in Threads : calls[t] = NoCall
  BY DEF Init
<1>3. InfoOps /\ AloneIsAlone /\ HeadersBracketed
  BY <1>2 DEF NoCall, Call, InfoOps, AloneIsAlone, HeadersBracketed
<1>4. VersionBracketed
  <2>1. \A o \in Objects : version[o] = Unknown /\ floor[o] = Unknown
    BY DEF Init
  <2>2. Unknown \in Nat \X Nat
    BY DEF Unknown
  <2> QED BY <1>1, <2>1, <2>2, UnknownLeast, PairType DEF VersionBracketed
<1>5. FormFits
  <2>1. Fits(NoCall, server, floor[NoCall.on])
    BY DEF Fits, NoCall, Call
  <2> QED BY <1>2, <2>1, FitsMeans
<1> QED BY <1>1, <1>3, <1>4, <1>5 DEF IInv

LEMMA InvHolds == Spec => []IInv
<1>1. IInv /\ [Next]_vars => IInv'
  BY TypeNext, InfoOpsNext, AloneNext, HeadersNext, BracketNext, FormFitsNext DEF IInv
<1> QED BY InvInit, <1>1, PTL DEF Spec

\* Every state has its type: a call on an object is under way exactly if the
\* thread is in one, and an object knows nothing or a version of this API
\* (http_client.cc 234-286).
THEOREM TypeCorrect == Spec => []TypeOK
  BY InvHolds, PTL DEF IInv

\* What an object knows is bracketed by what it must know and the server's version,
\* whatever the threads, objects, upgrades and answers (http_client.cc 234-242,
\* 274-282, client.cc 129, bucket.cc 51-53).
THEOREM VersionBracketedCorrect == Spec => []VersionBracketed
  BY InvHolds, PTL DEF IInv

\* No request has a form the server is too old for, but for links whose record the
\* caller names, and none an old form, or is refused, if the object must know better
\* (bucket.cc 351, 361, 464, 474, 585, 855, 901, client.cc 229-250).
THEOREM FormFitsCorrect == Spec => []FormFits
  BY InvHolds, PTL DEF IInv
=============================================================================
