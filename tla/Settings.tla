------------------------------ MODULE Settings ------------------------------
(***************************************************************************)
(* Settings of a bucket, a replication or a lifecycle, written or edited   *)
(* by a client while others change them: the operations (client.cc 307-427,*)
(* bucket.cc 74-90) and the conversions between the structs and JSON       *)
(* (serialisation.cc).                                                     *)
(*                                                                         *)
(* A field stands for all fields treated alike.  The server is external:   *)
(* it keeps a JSON value for every field it knows, replaces all settings   *)
(* of a replication or lifecycle and merges those of a bucket (bucket.h:   *)
(* "Update settings which has values"), may leave null fields out of an    *)
(* answer, may be too old to know a mode or a compression, and may be new  *)
(* enough to hold a word or a field that this client does not know.        *)
(***************************************************************************)
EXTENDS FiniteSets, Functions

VARIABLES
  kind,    \* "bucket", "replication" or "lifecycle"
  known,   \* fields that the server knows
  stored,  \* settings on the server: from field to JSON value
  call     \* what the client is doing

vars == <<kind, known, stored, call>>

Unset == "nullopt"
Empty == ""
Null == "null"

\* quota_size: any number; src_bucket, bucket: any field that is required.
Fields == [bucket      |-> {"quota_type", "quota_size"},
           replication |-> {"src_bucket", "dst_token", "dst_prefix", "mode", "compression", "when"},
           lifecycle   |-> {"type", "bucket", "mode", "interval", "when"}]

NewField == "new_field"  \* a field of a newer server

-----------------------------------------------------------------------------
(* Enumerations and their words.                                           *)

QuotaType == [kNone |-> "NONE", kFifo |-> "FIFO", kHard |-> "HARD"]

ReplicationMode == [kEnabled |-> "enabled", kPaused |-> "paused", kDisabled |-> "disabled"]

ReplicationCompression == [kNone |-> "none", kZstd |-> "zstd", kGzip |-> "gzip"]

LifecycleMode == [kEnabled |-> "enabled", kDisabled |-> "disabled", kDryRun |-> "dry_run"]

LifecycleType == [kDelete |-> "delete", kCompress |-> "compress"]

Words(f) == CASE f = "quota_type" -> QuotaType
              [] f = "compression" -> ReplicationCompression
              [] f = "type" -> LifecycleType
              [] f = "mode" /\ kind = "replication" -> ReplicationMode
              [] f = "mode" /\ kind = "lifecycle" -> LifecycleMode

Enums == {"quota_type", "compression", "type", "mode"}

NewWord == "new"  \* a word of a newer server

\* The condition: texts, of which two mean the same, and what they mean.
Texts == {"{ }", "{}", "not json"}
Condition == "object"

-----------------------------------------------------------------------------
(* To JSON.                                                                *)

\* Mutant: the compression that is left out is not the default one.
LeftOutMutant(f, v) == v \in {Unset, Empty} \/ (f = "compression" /\ v # "kZstd")

\* Of an enumeration only the default compression is left out.
LeftOut(f, v) == v \in {Unset, Empty} \/ (f = "compression" /\ v = "kNone")

ToWord(f, v) == IF f \in Enums THEN Words(f)[v]
                ELSE IF f = "when" THEN Condition
                ELSE v

\* ...ToJsonString fails if the condition does not parse.
Convertible(s) == "when" \in DOMAIN s => s["when"] # "not json"

ToJson(s) == [f \in {g \in DOMAIN s : ~LeftOut(g, s[g])} |-> ToWord(f, s[f])]

-----------------------------------------------------------------------------
(* From JSON.                                                              *)

\* A field that is missing, or null.
Default(f) == CASE f = "mode"        -> "kEnabled"
                [] f = "compression" -> "kNone"
                [] f = "type"        -> "kDelete"
                [] f = "dst_prefix"  -> Empty
                [] OTHER             -> Unset

Absent(json, f) == f \notin DOMAIN json \/ json[f] = Null

\* A required field is missing, or a word is not known.
Unparsable(json) ==
  \/ \E f \in {"src_bucket", "bucket"} \cap Fields[kind] : Absent(json, f)
  \/ \E f \in (Enums \ {"quota_type"}) \cap Fields[kind] :
       ~Absent(json, f) /\ json[f] \notin Range(Words(f))

\* An unknown type of quota is left unset.
FromEnum(f, w) == IF w \in Range(Words(f)) THEN CHOOSE v \in DOMAIN Words(f) : Words(f)[v] = w ELSE Unset

\* Mutant: conditions are not read.
FromWordMutant(f, w) == IF f \in Enums THEN FromEnum(f, w) ELSE IF f = "when" THEN Unset ELSE w

\* A condition comes back as its shortest text.
FromWord(f, w) == IF f \in Enums THEN FromEnum(f, w) ELSE IF f = "when" THEN "{}" ELSE w

Parse(json) == [f \in Fields[kind] |-> IF Absent(json, f) THEN Default(f) ELSE FromWord(f, json[f])]

-----------------------------------------------------------------------------
(* The server.                                                             *)

\* Values that the server may hold.
Held(f) == CASE f \in Enums                    -> Range(Words(f)) \cup {NewWord}
             [] f = "when"                     -> {Null, Condition}
             [] f \in {"src_bucket", "bucket", "quota_size"} -> {"x", "y"}
             [] OTHER                          -> {Null, "x"}

\* What it takes a missing field for.
Completed(json) ==
  [f \in known |-> IF f \in DOMAIN json THEN json[f]
                   ELSE IF kind = "bucket" THEN stored[f]
                   ELSE IF f = "mode" THEN "enabled"
                   ELSE IF f = "compression" THEN "none"
                   ELSE Null]

\* Answers to a GET.
Replies == {Restrict(stored, D) : D \in {D \in SUBSET known : \A f \in known \ D : stored[f] = Null}}

-----------------------------------------------------------------------------
(* Operations.                                                             *)

\* Values a caller may ask for.
Values(f) == CASE f = "quota_type"  -> DOMAIN QuotaType \cup {Unset}
               [] f \in Enums       -> DOMAIN Words(f)
               [] f = "when"        -> Texts \cup {Unset}
               [] f = "quota_size"  -> {Unset, "x", "y"}
               [] f \in {"src_bucket", "bucket"} -> {"x", "y"}
               [] f = "dst_prefix"  -> {Empty, "x"}
               [] OTHER             -> {Unset, "x"}

\* One of the choices for every field.
Product(S) ==
  CASE kind = "bucket"      -> [quota_type : S["quota_type"], quota_size : S["quota_size"]]
    [] kind = "replication" -> [src_bucket : S["src_bucket"], dst_token : S["dst_token"], dst_prefix : S["dst_prefix"],
                                mode : S["mode"], compression : S["compression"], when : S["when"]]
    [] kind = "lifecycle"   -> [type : S["type"], bucket : S["bucket"], mode : S["mode"],
                                interval : S["interval"], when : S["when"]]

NoCall == [phase |-> "none", settings |-> <<>>, field |-> "", fresh |-> FALSE]

Init ==
  /\ kind \in DOMAIN Fields
  /\ known \in {Fields[kind], Fields[kind] \ {"mode", "compression"}, Fields[kind] \cup {NewField}}
  /\ stored \in {[f \in known |-> IF f = NewField THEN w ELSE j[f]] :
                  j \in Product([f \in Fields[kind] |-> Held(f)]), w \in Held(NewField)}
  /\ call = NoCall

\* Create or Update with settings of the caller.
Write ==
  /\ call.phase = "none"
  /\ \E s \in Product([f \in Fields[kind] |-> Values(f)]) :
       /\ Convertible(s)
       /\ call' = [NoCall EXCEPT !.phase = "put", !.settings = s]
  /\ UNCHANGED <<kind, known, stored>>

\* Get, which begins an edit.  fresh and field are history: nobody has changed the
\* settings since, and the field edited then.  If the answer does not parse, there is nothing to edit.
Get ==
  /\ call.phase = "none"
  /\ \E reply \in Replies :
       /\ ~Unparsable(reply)
       /\ call' = [NoCall EXCEPT !.phase = "got", !.settings = Parse(reply), !.fresh = TRUE]
  /\ UNCHANGED <<kind, known, stored>>

\* Update with one field set anew.
Edit ==
  /\ call.phase = "got"
  /\ \E f \in Fields[kind] : \E v \in Values(f) :
       LET s == [call.settings EXCEPT ![f] = v]
       IN  /\ Convertible(s)
           /\ call' = [call EXCEPT !.phase = "put", !.settings = s, !.field = IF call.fresh THEN f ELSE ""]
  /\ UNCHANGED <<kind, known, stored>>

\* The server takes the request.
Put ==
  /\ call.phase = "put"
  /\ stored' = Completed(ToJson(call.settings))
  /\ call' = NoCall
  /\ UNCHANGED <<kind, known>>

\* The request fails.
Fail == /\ call.phase # "none"
        /\ call' = NoCall
        /\ UNCHANGED <<kind, known, stored>>

\* A call of which the settings are no longer those on the server.
Overtaken(c) == [c EXCEPT !.fresh = FALSE, !.field = ""]

\* SetReplicationMode or SetLifecycleMode.
SetMode == /\ "mode" \in known
           /\ \E v \in Values("mode") : stored' = [stored EXCEPT !["mode"] = ToWord("mode", v)]
           /\ call' = Overtaken(call)
           /\ UNCHANGED <<kind, known>>

\* Somebody else changes a field.
OtherChange == /\ \E f \in known : \E w \in Held(f) : stored' = [stored EXCEPT ![f] = w]
               /\ call' = Overtaken(call)
               /\ UNCHANGED <<kind, known>>

Next == Write \/ Get \/ Edit \/ Put \/ Fail \/ SetMode \/ OtherChange

Spec == Init /\ [][Next]_vars

-----------------------------------------------------------------------------
(* Properties.                                                             *)

\* An edit changes the field it is about and no other that the client knows, nor
\* any other of a bucket, unless somebody else has changed the settings since they
\* were read: words of a newer server, null and missing fields and defaults that
\* are left out included (serialisation.cc 144-208, 265-350, 380-450).
EditsAreLocal ==
  [][Put /\ call.fresh =>
       \A f \in known : f # call.field /\ (kind = "bucket" \/ f \in Fields[kind]) => stored'[f] = stored[f]]_vars

\* A field that only a newer server knows outlives an edit as well: the structs
\* have no place for it, and an update of a replication or lifecycle replaces all
\* (client.cc 344, 405, serialisation.cc 265-350, 380-450).
NewFieldsStay ==
  [][Put /\ call.fresh /\ NewField \in known => stored'[NewField] = stored[NewField]]_vars

\* A setting as it reads back.
Canonical(f, v) == IF f = "when" /\ v # Unset THEN "{}" ELSE v

\* Settings that the server has taken read back as they were written, but for
\* the layout of a condition; those a bucket was not given keep their values
\* (the tests: `replication.settings == settings`; serialisation.cc).
WritesReadBack ==
  [][Put => \A reply \in Replies' :
       /\ \A f \in known \cap Fields[kind] : call.settings[f] # Unset => Parse(reply)[f] = Canonical(f, call.settings[f])
       /\ \A f \in known \cap Fields[kind] :
            call.settings[f] = Unset /\ kind # "bucket" => Parse(reply)[f] = Unset]_vars
=============================================================================
