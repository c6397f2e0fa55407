# reduct-cpp: models, checks and proofs

reduct-cpp is the C++ client of ReductStore, a store of timestamped records.
An application makes a `Client`, gets a `Bucket` from it, and reads, writes,
queries and removes records over HTTP. Paths below are under `src/reduct/` of
the repository.

## 1. Inventory

| Component | State it keeps | Operations | Works with |
|---|---|---|---|
| **Callback worker** (`bucket.cc` 46-72) | `worker_`, `task_queue_`, `stop_` | constructor, worker loop, destructor | read calls enqueue its tasks |
| **Read calls** (`ReadRecord`, `ReadRecordV2`, 629-780, 831-844) | in the caller's frame: `data`, `data_mutex`, `future`, `stopped`, `response_headers` | request, header callback, content receiver, wait, inline callbacks | worker (tasks capture the frame by reference), HTTP client (callbacks), record reader |
| **Record reader** (`Read` lambdas: `bucket.cc` 797-827, `batch_v1.cc` 142-184, `batch_v2.cc` 302-344) | `total`, `chunk`; shares `data` with the receiver and the other records | Read | user callback |
| **Query loop** (`bucket.cc` 349-460) | query id, the flags of the last read call | Query over V1 or V2 | read calls, the server's cursor |
| **Batch responses** (`batch_v1.cc` 78-140, 186-191; `batch_v2.cc` 60-296, 346-354) | the previous header of each entry | parse record headers into records | read calls |
| **Batch requests** (`bucket.h` 172-289, `batch_v1.cc` 34-76 and 193-271, `batch_v2.cc` 356-555, `bucket.cc` 922-966) | `records_`, `body_`, `size_`; `ordered`, entry indices, start time | add, sort, build headers, slice the body, map errors back, choose V1 or V2 | HTTP client |
| **Record writer** (`bucket.cc` 155-172, `bucket.h` 135-165, `http_client.cc` 171-197) | offset (in httplib), `content_length_`, `callback_` | Write, content provider | user callback |
| **HTTP client** (`http_client.cc`) | connection, `api_version_` | Get, Head, Post, Put, Patch, Delete, CheckRequest, version cache | everything above |
| **Attachments** (`bucket.cc` 190-309) | none | write, read, remove attachments | query loop, batch requests |
| **Links and rename** (`bucket.cc` 537-621, 854-910) | `name_`, `path_`, `io_path_` | Rename, CreateQueryLink, EnsureApiVersion | HTTP client |
| **Client** (`client.cc`) | url, options | get, create, rename and remove buckets; tokens; replications; lifecycles | HTTP client |
| **Settings** (`client.cc` 307-427, `bucket.cc` 74-90, `serialisation.cc`) | none | struct to JSON and back, create, update, set mode | Client, server |
| **Time parsing, errors, value types** | none | ISO 8601, status codes | |

How they interact. The response callback and the content receiver of a GET run
on the calling thread, inside `client_->Get`. The response callback parses the
headers into records and enqueues one packaged task per record; the worker runs
the tasks, each of which calls the user's callback, which may call `Read` on the
record, which polls `data` while the receiver still appends to it. The caller
then appends an end marker and waits for the future of its *last* task. All
tasks of a bucket share one worker, whichever thread made the call. A callback
that reads from the same bucket is already on the worker; that call keeps its
response headers and, once the request is over, calls its callbacks inline.

What is hard here:

* frames: tasks point into the stack of a call, and several returns of that
  call do not wait for them;
* queueing: one worker, several producers, calls nested in callbacks;
* shutdown: `stop_`, a blocking dequeue and a wake-up task;
* the shared deque: records take their bytes off the same front, so what one
  callback leaves behind the next one reads;
* loops over many requests, where one flag (`stopped`) or one error code (204)
  decides about everything that follows, and replies can be lost;
* two protocol versions, chosen by a version that is learned along the way, by
  several threads, and inherited by the buckets a client opens;
* objects that keep a name while others rename, remove and make buckets;
* settings that are read, changed and written back whole, by clients older and
  newer than the server, which may not know all of each other's fields.

What makes each component correct: a read call gives its callback the records
of the response one at a time, in order, never after the callback refused one
and never outside the call (`ReadContract`); no task outlives the frame it
points into; every call and the destructor return; each record gets exactly its
own bytes and every `Read` returns; a query gives each record once and in order,
reports success only if it is complete or was stopped, and ends; the records of
a batch response come back as the server sent them and in the order of their
data; the records of a batch are stored under their own entry and time with
their own bytes, and each error is reported for the record it is about;
attachments behave as a map, also when calls overlap, fail or arrive late; a
`Bucket` that knows of all renames asks the bucket it was opened on; the
library never chooses a form that the server is too old for, and no thread falls
back behind a version it was told of; an edit of settings changes no other field
that the client knows; a written record is the data the caller gave, however they
were cut.

## 2. Modules

| Module | Models |
|---|---|
| `ReadContract` | what one read call promises its thread: the abstract specification |
| `CallbackQueue` | worker, task queue, read calls (queued and inline), destructor |
| `MCCallbackQueue` | `CallbackQueue` for TLC: symmetry of the application threads |
| `CallbackQueueProofs` | theorems about `CallbackQueue`, and that it implements `ReadContract` |
| `RecordReader` | the deque of a response body, its receiver, and `Read` |
| `RecordReaderProofs` | theorems about `RecordReader` |
| `QueryLoop` | the loop of `Query`, composed with `ReadContract` for its read calls |
| `QueryLoopProofs` | theorems about `QueryLoop` |
| `BatchWrite` | the batch builder and one batch operation, from the callback to the error map |
| `BatchWriteProofs` | theorems about `BatchWrite` |
| `BatchResponse` | the headers of a batch response and the records they are parsed into |
| `Attachments` | attachments of an entry, over queries and batches |
| `AttachmentsProofs` | theorems about `Attachments` |
| `BucketNames` | `Client` and `Bucket` objects that open, rename, remove and use buckets by name |
| `MCBucketNames` | `BucketNames` for TLC: symmetry of threads and names |
| `BucketNamesProofs` | theorems about `BucketNames` |
| `ApiVersion` | the version an HTTP client learns, and the forms of requests chosen by it |
| `MCApiVersion` | `ApiVersion` for TLC: servers before, between and after the changes of protocol |
| `ApiVersionProofs` | theorems about `ApiVersion` |
| `Settings` | settings of buckets, replications and lifecycles, as structs and as JSON |
| `WriteStream` | one record written chunk by chunk |
| `WireProofs` | theorems about `WriteStream` and `BatchResponse` |

`CallbackQueue` is shown to implement `ReadContract`; `QueryLoop` relies on
`ReadContract` for its read calls; `RecordReader` is what happens in the states
`reading` and `body` of `CallbackQueue`, and its order of records is the one
`BatchResponse` establishes; `Attachments` relies on what `QueryLoop` and
`BatchWrite` establish about queries and batches. Which protocol these use is
decided in `ApiVersion`; which bucket their requests reach, in `BucketNames`.
`WriteStream` has the same content provider as `BatchWrite`, with a callback that
need not return as much as it is asked for.

### CallbackQueue

One thread id per application thread (`Caller`) plus the `Worker`. Each thread
has at most one frame; `call[t]` counts the calls of `t`, so a task, which is
`[from, call, rec, last]`, names the frame it captured, and `Live(k)` says that
frame still exists. The states of `pc` follow `ReadRecord` top to bottom:

    request -> response -> enqueue -> body -> finish -> wait      application thread
    request -> response -> body -> finish -> inline <-> incallback       the worker

(`enqueue` and then `finish` in head mode). `Refuse` is an error that comes
before the response callback, `FailLate` one that comes after it. The queue is
one FIFO per producer with no order between producers, which is what
`moodycamel::BlockingConcurrentQueue` gives and no more. The worker's states are
`loop` (test of `stop_`), `dequeue` (blocking), `taken`, `callback`, `reading`,
`decide`, `exit`. A task whose frame is gone reads and writes a dead stack: the
`Stale...` actions choose among everything that may come of it. The bytes of the
body are abstracted to the number of whole records received; `RecordReader`
refines that side. Nesting is one level deep: the worker runs a nested call from
a queued task's callback; a callback of that nested call that reads again takes
the same inline path, one frame further down.

### RecordReader

A byte is its position in the body, so a delivered byte shows where it came
from. `ReceiveChunk` and `CloseStream` are the receiver; the other actions are
the worker between the records, and inside `Read` one lock-protected step
(`TakeChunk`, `ReadToEnd`, `Poll`) and one delivery (`Deliver`) at a time. The
records are handled in the order of the body. `Habits` says what callbacks may
do besides reading their record once and to the end. The V1 reader evaluates
`chunk->size()` on the end marker (`batch_v1.cc` 156), which is undefined;
`ReadToEndUnchecked` is the outcome of a build that checks it.

### QueryLoop

The query is posted, then one read call after another is made until the loop
ends. Each call makes the steps of `ReadContract` for a single thread, so the
loop relies on that contract and on nothing else; `CallbackQueue` is shown to
implement it as long as no GET fails late. The server's cursor is external: it
advances when a batch is sent, so a lost answer takes its records with it
(`ReadFails`).

### BatchWrite

Entry names are numbers in the order of the names; a byte is a record of the
batch and a position in its data. `AddRecord` stands for all overloads of
`AddRecord` and `AddOnlyLabels`. `EntryBatch` and `RecordsBatch` are the two
private functions of `Bucket` that choose a protocol; `SortRecords` leaves
records that compare equal in any order, as `std::sort` may. `Provide` is the
content provider of `Post` with the body cut into slices of `kMaxChunkSize`, and
`Take` one turn of the loop of `Batch::Slice`, whose locals are `Progress`. The
server reads the headers by entry index and time and gives each the next bytes
of the body (`Stored`). The properties ask for distinct records: two records
with one entry and time lose a header but not their data
(`batch_v2.cc` 425), and nothing says what such a batch means.

### BatchResponse

The server describes the records it sends, in V2 as differences to the record
before in the same entry, and the headers reach the parser as an unordered map.
`OrderV1` and `OrderV2` are the two ways of putting them in order, `ParseNext` is
one turn of the loop of the V2 parser and `Turns` what the loop has after each.
V1 compares times as strings, so
`ParsedAsSent` asks for times of the same length there; `NoneMissing` does not.

### Attachments

Each call is a process; `calls[i]` holds its locals and, when it has returned,
its outcome. A payload is the number of the call that wrote it, so a read shows
whose values it returns. `ReadsAreRegular` is the property of a regular register,
key by key. The server takes the records of a request one at a time and does not
stop when the client gives up, so the module shows what late requests can do: a
write that failed never hides a later one whose record has a later time, but may
bring a key back after a removal that did not see it. `Hidden` says exactly which
later change hides an earlier one. A failed write of several keys has stamped its
last record ahead of the clock; if a removal finds that record, it stays in the
way of a write that follows within those microseconds, and a read leaves the key
out: four calls one after the other, the last of which begins three calls after
the cause.

### BucketNames

A call is one request, or two (`GetOrCreateBucket`: `CreateMissing` sends the
second); `calls[t]` holds the request in progress and its answer. `Begin` sends,
`Serve` is the server's instant, and `ReturnBucket`, `ReturnRenamed`, `ReturnOk`
and `ReturnError` are the code after the answer. A `Bucket` has the three fields
of the code: `name` (`name_`, used for links), `path` (`path_`) and `ioPath`
(`io_path_`). A request whose client gave up stays in `late` and may still be
served. `home`, `seen` and `moves` are history: the bucket an object was opened on
and how many of its renames and removals the object knows of. A thread that uses
an object after somebody else renamed the bucket asks for the old name; nothing in
the protocol could tell it, so the properties are about objects that are up to
date. `Rename` takes no lock and is not `const`; one object used by two threads
of which one renames is a data race and left out.

### ApiVersion

`version[o]` is `api_version_` of the HTTP client of a `Client` or `Bucket`. A
call reads it, sends a form chosen by it, and `CheckRequest` takes the version of
the answer, each a step of its own since the mutex covers one access. A call that
needs a version and has none asks for it first (`info`: `EnsureApiVersion`,
`CreateToken`); a token in the new form that is answered 422 is asked for once
more in the old form (`FallBack`). `Return...` are the ends of a call.
A link that names its record (`record`) has a later form than a server before 1.19
knows, and the code does not test the version for it; what such a server makes of
the fields is its choice, so `FormFits` makes an exception of these links.
`ReturnBucket` hands the version over to a `Bucket`, `Build` makes one that knows
nothing. `Upgrade` and `Serve` are the server. `floor` is history: the version of
the last answer that an object got while no other call was under way. Answers
that overlap may be taken in any order, so `version` may fall back, but never
below `floor`.

### Settings

A field stands for all fields that the code treats alike: required ones,
optional ones, strings that are left out when empty, enumerations with and
without a default, and the condition `when`, a JSON text inside the struct and an
object outside it. `ToJson` and `Parse` are the conversions; `Get`, `Edit` and
`Put` are a caller that reads, changes one field and writes back; `SetMode` and
`OtherChange` come in between. The server is external: a PUT of a bucket merges,
one of a replication or lifecycle replaces; what it takes a missing field for is
in `Completed`, and `known` are its fields: fewer than the client's on an older
server, one more on a newer one (`NewField`). The structs have no place for that
one; it survives an edit of a bucket, but not of a replication or lifecycle, so
`EditsAreLocal` is about the fields the client knows.

### WriteStream

`Write` and `WriteAll` fill the record in the caller's callback, `Post` is
`Bucket::Write` from there on, and `Provide` and `Stop` are the content provider of
`HttpClient::Post`. A callback of `Write` may return chunks of any size, empty and
overlong ones included, may promise another length than it has, and reads its
data by position or as a stream. `content_length_` has no initial value, so `Init`
chooses any.

## 3. Runs

| Run | Question | Bounds |
|---|---|---|
| `callbacks` | do all interleavings keep the contract, and does no task outlive its call? | 2 application threads, 1 call each and nested calls, 2 records |
| `callbacks_live` | does everything that has begun end, until a GET fails after its headers, and is such a failure the only leak? | as above, 1 record |
| `reader` | do careful callbacks get their bytes, and what holds whatever callbacks do? | 3 records of 0, 1 or 3 bytes, chunks of up to 4 |
| `reader_empty` | does every Read of a batch return? (not of empty records) | 2 records of 0 or 1 byte |
| `query` | is a query complete, ordered, final and finite? | 5 records in batches of up to 2 |
| `batch_write` | is what was added what is stored, and are errors attributed? | 3 records, 2 entries, 3 times, sizes 0 and 3, slices of 2 |
| `batch_response` | are records parsed as they were sent? | 3 records, 2 entries, times of one and two digits, 2 labels |
| `attachments` | are attachments a map under concurrency and failure? | 3 calls, 2 at once, 2 keys, a clock of 2 ticks |
| `bucket_names` | does an up to date `Bucket` ask the bucket it was opened on, by either path? | 2 threads, 2 names, 2 buckets, 2 moves of each, 1 late request |
| `api_version` | does the version stay between what was learned and the server's, do the forms fit (but for links that name their record), do calls return? | 2 threads, 1 client, 1 bucket, servers 1.17 and 1.19 |
| `settings` | does an edit change no other field that the client knows, and does what is written read back? | all values of each kind of field, a server older than the client, one as old, and one with a field more |
| `write_stream` | is what is stored what was given, and does every Write return? | data of up to 6 bytes in chunks of 2 |

Why the bounds are enough. Two application threads give every way in which two
frames share the worker and the HTTP client; a third would only repeat one of
them. Two records are the least for which the last task differs from the others
and a refusal leaves a task to skip. A thread makes one call, so that the state
space stays small; that a stale task may meet a later frame of its own thread is
in the theorems only, which hold for any number of calls. In `RecordReader`
chunks may be longer than a record, so that one chunk spans up to three records,
and records longer than a chunk. Five records in batches of at most two make a
query of at least three read calls. Three records in two entries are the least
for which sorting by entry and sorting by time differ and one entry has a record
before the entry's last; a size above the slice and a size of zero make slices
end inside, at, and across records. Three headers in two entries make one inherit
from a header that is not the one before it in the batch. Three calls are a
write, a change that overlaps or follows it, and a read; two keys are the least
for which one call has several times, and a clock that may stand still makes the
times of two calls collide. For two buckets to meet under one name two names and
two buckets are needed, and with two moves a bucket can leave a name and come
back to it; a single late request is enough to undo what was answered since. The
two versions lie on either side of both changes of protocol (1.18 and 1.19);
`three_versions.cfg` repeats the safety properties with 1.18 between them, which
tells the two apart, and the theorems hold for any versions. A malformed header stands for every header that makes an error of an answer; two
threads make two answers cross. `settings` enumerates the values of each kind of
field completely; one unknown field stands for any. Six bytes in chunks of two make a write of at least three
chunks with room for short and overlong ones in each place.

Fairness. `CallbackQueue`: each thread's calls and the worker take steps as long
as they can (the scheduler runs them, the server answers or the request times
out, user callbacks return); nobody is obliged to begin a call or to destroy the
bucket. No fairness is assumed of a `Read` on the body of an abandoned call, and
`CallsReturn` and `DestructorReturns` promise nothing once a GET has failed late,
also if it left no task behind: `FailLate` does not tell.
`RecordReader`: the body arrives and the worker runs. `QueryLoop`: the client
runs and each request is answered or fails. `ApiVersion`: threads run, and each
wait ends with an answer or with httplib's timeout; no thread has to begin a
call. `WriteStream`: httplib goes on asking for data and the callback returns, but
is not obliged ever to stop (only the default callback, which always stops,
is); the wait for the answer ends or times out.

### What the code does not do

`reader_empty` is expected to be violated. `Read` of a batched record compares
`total` with the size only after it has delivered a chunk (`batch_v1.cc` 168-180,
`batch_v2.cc` 328-340), so of an empty record it returns only by taking the end
marker, which a batch has once. In the counterexample both records are empty: the
first takes the marker, and the second, though nothing follows it, polls an empty
deque for ever. If bytes of a later record are in front, they are cut to nothing,
the rest goes back, and `Read` takes the empty chunk for "nothing received yet",
for ever too. Only an empty record that comes last, after others that are not
empty, is read without trouble.

Eight more configurations state what one would like to hold and does not. They are
kept beside the runs; TLC answers each with a counterexample:

| Configuration | Property | What the counterexample shows |
|---|---|---|
| `late_error_join.cfg` (`MCCallbackQueue`) | `DestructorAlwaysReturns` | `ReadRecord` appends the end marker and waits only if the request succeeded (`bucket.cc` 691-703). If the GET fails after its headers, tasks are left behind that refer to its frame, and the worker may poll the abandoned deque and never see `stop_`. |
| `reader_partial.cfg` (`RecordReader`) | `OwnBytes` | A callback that returns `false` leaves the rest of its record in the deque; the next record begins with it. |
| `batch_path.cfg` (`BatchWrite`) | `StoredWhereAdded` | Without V2, a batch for entry `x` whose records all name entry `y` passes the test for several entries (`batch_v1.cc` 197-207) and is posted to `x`. |
| `query_link.cfg` (`MCBucketNames`) | `LinksLeadHome` | `Rename` changes both paths and not `name_` (`bucket.cc` 544-546), which `CreateQueryLink` sends (557, 597): to no bucket, or to another that has the name by now. |
| `get_or_create.cfg` (`MCBucketNames`) | `GetsOrCreates` | `GetOrCreateBucket` looks and then creates (`client.cc` 144-147): if another client creates the bucket in between, the call fails with 409. |
| `token_options.cfg` (`MCApiVersion`) | `TokensAsAsked` | `CreateToken` leaves out the time to live, expiry date and address list for a server before 1.19, or one that answers 422, and returns success (`client.cc` 246-261). |
| `record_link.cfg` (`MCApiVersion`) | `RecordLinksFit` | `record_entry` and `record_timestamp` are for API 1.19 and later (`bucket.h` 567-569), but the version is tested only if they are missing (`bucket.cc` 901): a link that names its record is asked of older servers, and without the index (`serialisation.cc` 511). |
| `new_field.cfg` (`Settings`) | `NewFieldsStay` | `UpdateReplication` and `UpdateLifecycle` replace all settings by those of a struct (`client.cc` 344, 405), which has no place for a field of a newer server: an edit of another field loses it. |

## 4. Proofs

The theorems hold for every value of the constants that satisfies the assumption
of the module (`...Assumption`: numbers are natural numbers, a bound is not zero
where the code's constant is not, the worker is not an application thread). No
theorem assumes more than that, but for the two that say so in their statement
(`~LateErrors`). Each module of proofs has an inductive invariant, one lemma per
action, and the theorems; TLC has checked each invariant on a small instance
before it was proved.

**`CallbackQueueProofs`.** `TypeCorrect` includes that the worker is never in the
states `enqueue` and `wait`, i.e. never waits for its own queue.
`OnlyLateErrorsLeakCorrect`: a task whose frame is gone was left behind by a call
that failed after its headers; `NoTaskOutlivesCallCorrect`: without such failures
there is none. `Wait` lets the frame go when the *last* task is done; that no
earlier one is left follows only if the tasks of a call lie in the queue in the
order of its records (`QueueOrdered`), behind the one being run (`RunningFirst`),
each with a number above `done` and at most `sent` (`QueuedAccounted`,
`RunningAccounted`), and if a call that has no headers yet has enqueued nothing
(`NothingSentBeforeHeaders`); otherwise `Refuse` could drop a frame in use.
Together they are `TasksAccounted` (`AccountedCorrect`).

`ContractCorrect`: without late failures `Spec => Contract!Spec`, the refinement
`ContractHolds` that `callbacks` checks. Every action maps to a step of
`ReadContract` for its thread or to a stutter. That needs `InTurn` on top of
`TasksAccounted`: the tasks of a call that are queued follow the ones done and end
with the one sent last, so the task that comes to the front is the next record of
its call, and a call that was refused by its callback gives it nothing more.

**`RecordReaderProofs`.** `BytesInOrderCorrect` holds whatever the callbacks do;
`CarefulGetOwnBytesCorrect`, `WholeRecordsCorrect` and `NoCrashCorrect` are about
careful ones. The invariant is `InStep`: the bytes given, the chunk in hand and
the chunks of the deque follow each other and are together what has arrived,
where the deque is cut at a non-decreasing sequence of positions. `Aligned` says
where a careful callback stands: what was given is what lies before its record
and the part of it that was read. So while a record misses bytes the end marker
is not at the front of the deque, and without empty records it is never taken for
a chunk (`NoCrash`, part of the invariant).

**`QueryLoopProofs`.** `NoRecordLostOrRepeatedCorrect`, `OkIsCompleteCorrect`,
`ContinuousGoesOnCorrect`, and the action property `StopIsFinalCorrect`. What they
rest on: as long as the query may go on, the callback has seen what the cursor has
passed but for the rest of the open batch (`Caught`), and a read call is over, and
the loop ends well, for one of two reasons (`StopsForAReason`): a refusal, or no
more records.

**`BatchWriteProofs`.** `StoredAsAddedCorrect`, `ErrorsAttributedCorrect`,
`NeverCutOffCorrect` and `TypeCorrect`. Each header's key stands for the entry and
the time of its record (`HeadersFit`); for V2 that needs what `Names` returns (each
entry once, none missing: `NamesOf`) and that the start is the earliest time
(`StartIsEarliest`), for V1 that the records have a single entry. A slice is not
empty before the end and no longer than asked for (`SliceFound`): the loop of
`Slice` has skipped what lies before it or taken something (`SliceFits`), and the
sizes add up to `Size` in whatever order the records were sorted (`SameSum`).

Where the data ends up takes two facts more, kept in `Sent`. The body is the data
of the records in the order of the request: each of its bytes is the one that
belongs at its place (`BodyFits`; a place has one byte, `OnePlace`), since a slice
takes up where the body ends. And the keys do not fall in that order (`KeysFit`):
sorted by entry, the records use the names in rising order, so indices rise with
the entries (`NamesFit`, `KeysInOrder`). If the records are distinct so are their
keys; then the order of the server is the order of the request, as there is only
one (`OneOrder`, `WireIs`), and it cuts the body where the client put it together
(`StoredIs`, `PieceIs`).

**`WireProofs`.** About `WriteStream`, `StoredAsGivenCorrect` and `TypeCorrect`: the
bytes on the wire rise (`Rising`), and unless a stream returned more than it was
asked for, they are the first ones of the data (`Prefix`), because the next chunk
begins where the wire ends.

About `BatchResponse`, `ParsedAsSentCorrect` and `NoneMissingCorrect`, for any
number of records, entries and labels. The headers are those of the records sent,
each under its own key and described in full (V1, `HeldV1`) or by what the record
does not share with the one before it in its entry (V2, `HeldV2`), and the keys
rise in the order of the body. A finite set has an order (`SomeOrder`), which is
why nothing is missing, and only one (`OnlyOrder`), so V2 finds that of the body
(`OrderV2Is`). V1 finds it if times of the same length compare as strings as they
do as numbers: two such strings differ first where the smaller number has the
smaller digit (`DigitsOrder`); that strings have an order at all, whatever their
lengths, is `StringOrder`. After each turn of the V2 loop the header remembered
for an entry is that of its last record so far (`TurnsGo`), so what a header
leaves out comes back (`HeaderParsed`, `LabelsBack`). Besides the usual, the
assumption says that `NoHeader` is no header.

**`AttachmentsProofs`.** `WritesAreWholeCorrect` and `TypeCorrect`. A stored record
keeps its key and its payload whatever is removed; while a write is under way,
each of its attachments is still in its request, or stored, or has left an error
behind (`WriteOK`), also if the client has given up and the request is served
late.

`ReadsAreRegularCorrect` relates a read to every call that overlaps or precedes
it. Three layers lie on top of that invariant, each of which a step keeps if the
ones below hold. `Placed`: a record bears the time its write has given it, and a
record marked as removed was marked by a removal that may have seen it. `Erased`:
what was done before a removal began is settled then, so the removal has its
record still to come in the query, in its marks or in its batch, until it is
removed or the removal has failed. `ReadsOK`: of the records a read has been given
and of those done before it began, the last one decides (`Latest`), and what is in
the map is its value, or nothing if it was given as removed. `ReadsReturn` draws
the property from the three: of two writes that are done the later bears the later
time (`WriteOrder`, since the times of a call have no gaps: `StampsAdjoin`), so no
write hides the author of that last record (`NoWriteHides`), and no removal does,
or the record would be gone; if it was removed, the last removal to begin of those
that may have done so is visible (`RemovedIsVisible`). The 11 actions enter
through `Step`, which says what a step does to one call, its query, its request
and the store (`EveryStep`).

The proof showed that the property as first stated, where a write hid whatever
came before it, was false with four calls, one more than the run has; TLC then
found that behaviour with calls one at a time, and `Hidden` was corrected.

**`BucketNamesProofs`.** `PathsLeadHomeCorrect`, `DataGoesHomeCorrect` and
`TypeCorrect`, for any number of threads, names and buckets. No bucket has two
names (`Injective`); an object never knows of more moves than there were, and one
that knows of all of them has the name of its bucket (`BucketKnows`); an answer
under way leads to the bucket it was given for, as long as that has not moved
since (`AnswerLeads`).

**`ApiVersionProofs`.** `VersionBracketedCorrect`, `FormFitsCorrect` and
`TypeCorrect`, for any number of threads and objects. The version in an answer
under way lies between the floor of the object and the server's version
(`HeadersBracketed`), and a call marked alone shares its object with no other
(`AloneIsAlone`), so raising the floor to its answer overtakes no older one. The
form of a request follows from the version its object knew (`Justified`), and that
of a link that names its record from the caller alone: the exception in `FormFits`.

How the proofs deal with data. Induction over the naturals goes by the least
counterexample (`LeastNumber`, `Induction`), from the library's theorem on minimal
elements. A function that follows a loop of the code is recursive; that it exists
and what its values are is `Recursion`, that there is only one, `Same`. So
`Slice`, `Names`, `Size` and the record offsets are reasoned about for inputs of
any length; `Digits` and `Turns` likewise, by a function that meets their equation.

Model-checked only:

* the liveness properties of all modules: liveness under fairness and `ENABLED`
  are out of TLAPS' reach;
* the properties of `Settings`, whose values are enumerated completely.

`BatchWrite`, `BatchResponse`, `Attachments`, `BucketNames` and `Settings` claim
safety only and assume no fairness.

## 5. Plan

`TwoBuckets`: callbacks that read from each other's bucket. Each waits for the
other's worker, since `IsCallbackWorkerThread` knows its own bucket only
(`bucket.cc` 844).

## 6. Not modelled

* Time parsing and formatting, and the JSON of lists, tokens, diagnostics and
  query options: conversions with no state and nothing that reads them back.
* The text of labels in batch headers: `FormatLabels` quotes a value with a comma
  (`batch_v1.cc` 45); labels are model values in `BatchResponse`.
* A `Bucket` renamed by one thread while another uses it: a data race on strings,
  with no outcome to model.
* `std::stoi` of the version header in a `noexcept` function (`http_client.cc`
  265-266): a header with a dot and no number would end the program.
* What a server before 1.19 makes of attachments (the change log gives them to API
  1.19): the code tests no version for them, and their requests are those of
  other records.
* A system clock that steps back between two attachments (`bucket.cc` 198).
* Construction of the HTTP client, TLS options, value types, tests, examples and
  build files.

httplib, moodycamel's queue and the server are external and appear only as the
code uses them. The components and the reasons are listed in `PROJECT.json`.
