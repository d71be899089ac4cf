# A TLA+ verification of smb-io-rs

`smb-io-rs` is an SMB2/3 client engine in Rust for media players and file
managers on Android. It owns what a generic stream would hide: credits,
MessageIds, pipelined READs, SMB2 CANCEL, read-ahead, reconnection and handles
shared by threads. These modules model that logic, check it with TLC on small
instances, and prove the most important part of it with TLAPS for every value
of the parameters.

Paths below are relative to `src/crates/`.

## 1. Inventory

### The parts, their state and their operations

| Part | Code | State | Operations |
|---|---|---|---|
| Credits and MessageIds | `smb-client/src/credits.rs`, `message_id.rs`, `negotiate.rs` | credits available, next MessageId | negotiate, reserve + allocate, grant |
| Positional READ | `smb-client/src/read.rs`, `async_response.rs`, `read_async.rs` | scheduled bytes, outstanding READs by MessageId, output slots, first short response, first server error | one sequential and one pipelined read call |
| Cancellable READ | `smb-client/src/cancel.rs`, `cancellation.rs` | token generation and waiters; the READs of a wave, what was cancelled and how | advance, wait for change, waves of READs, CANCEL |
| Reconnecting file | `smb-client/src/recovering_read.rs`, `reconnect.rs`, `durable_open.rs` | session and file in use; file identity; durable handle or "unavailable" | connect, read with recovery, close |
| Connection set-up | `smb-client/src/negotiate.rs`, `session.rs`, `tree.rs`, `preauth.rs`, `signing.rs` | dialect, preauth hash, session id, signing key | NEGOTIATE, SESSION_SETUP rounds, TREE_CONNECT |
| Single requests | `smb-client/src/set_info.rs`, `close.rs`, `query.rs`, `file.rs` | none between calls | SET_INFO, CLOSE, QUERY, CREATE |
| WRITE and FLUSH | `smb-client/src/write.rs`, `flush.rs` | bytes written so far | write in chunks, flush |
| Transport | `smb-client/src/transport.rs`, `smb-wire/src/frame.rs` | buffer of a partial frame | send, receive that may be dropped half way |
| Video reader | `smb-stream/src/video.rs` | one cached window, playback cursor, generation, smoothed throughput | read, prefetch, seek, invalidate |
| Video broker | `smb-stream/src/broker.rs` | command queue, one-place hint, two generation counters, runner | seek, read, prefetch, close on any clone; the runner's loop |
| Editable handles | `smb-android/src/engine.rs` | handle tables, a session behind a lock, `poisoned`, `closing`, cached length | open, read, write, set length, flush, close, from any thread |
| Directory handles | `smb-android/src/engine.rs`, `smb-fs/src/query.rs` | a session, a server-side scan and `exhausted` behind a lock | page, capacity, size of the tree, close |
| Engine and one-shot operations | `smb-android/src/engine.rs`, `smb-fs/src/mutation.rs`, `smb-client/src/mutation_open.rs`, `write_open.rs` | four handle tables with tagged keys | open and close of every kind, mkdir, create, rename, delete |
| JNI adapter | `smb-android/src/jni.rs` | an engine made once | argument checks, one native function per operation |
| Authentication | `smb-auth/src/*` | secrets | NTLM and SPNEGO tokens |
| Wire codecs | `smb-wire/src/*` | none | encode, decode |
| Probe, test kit | `smb-probe`, `smb-testkit` | none | command line, mock transport |

### How they interact

The Android engine calls the broker handle (video) or its own locked sessions
(editable files). The broker's runner task calls the video reader, which calls
the reconnecting file or a session. Those call the cancellable or the plain
pipelined read, which take credits and MessageIds from the connection and
exchange frames with the server over the transport. Shared state between
threads or tasks is limited to: the cancellation token (an atomic counter and a
`Notify`), the broker's channels, the engine's tables and the lock of each
session, and the recipe's `OnceLock` and durable state. Everything else belongs
to one task and is exposed to reordering only at its awaits.

### What is hard

* Responses come in any order, go asynchronous, come short, late, or not at
  all. A call that ends early leaves answers for the next call.
* A seek on one thread races the runner, other clones of the handle, a wait
  that is being armed, and CANCELs that cross STATUS_PENDING on the wire.
* Two counters and two channels are changed one after the other, not together.
* A connection attempt is dropped at any await, with a durable open made,
  reclaimed or lost; the file at the path may be another one afterwards.
* A thread looks a handle up, waits for the lock, and gets it after CLOSE.
* A mutation fails after the server may have applied it.
* Frames arrive in pieces, and a receive or a send is given up in the middle.
* A request whose answer is lost is carried out later, among newer ones.
* Credits, MessageIds, queues and the cache reach their limits.

`PROJECT.json` lists these as hazards, each at its line, with the properties
that would catch it.

### What makes each part correct

* Credits: never use an id the server did not grant; lose none when nothing
  went wrong.
* Reads: a success is one contiguous run of the file's bytes; nothing is left
  behind; every call returns.
* Cancellation: everything outstanding is cancelled, nothing is left behind, and
  the call returns although the server answers nothing else.
* Recovery: the same file or an error, one replay, no retry after cancellation,
  and a usable file again when the network is.
* Connection: an SMB 3.1.1 session exists only if both ends saw the same
  messages; an answer is taken only for its own request; of what an honest
  server answers in time only an interim answer to another request than SET_INFO,
  and what follows it, is refused.
* Video reader: cached bytes are the file's, unread ones are not evicted.
* Broker: the cache stays with one playback position, speculation yields, CLOSE
  goes out once, callers are answered.
* Editable handles: no request on a closed or half-mutated handle, one CLOSE,
  and a cached length that is right.
* Writes: what is on the file is a prefix of the data, each byte once and in its
  place; an Ok flush covers all that was acknowledged.
* Transport: whole messages, in order, once, however bytes and calls are cut.
* Directories: the pages are the listing, a size counts every file once, what
  the walk opens it closes.
* Engine: a handle reaches its own session or none; the result of a mutation
  says whether it took effect; nothing is replaced unasked.

## 2. The modules

Every module has its state as VARIABLES, one action per operation or per stretch
of code between two awaits (or two atomic operations, where threads share
state), and takes its limits as CONSTANTS. Data is abstracted to what the
properties tell apart; the server, the clock and other users of the share are
nondeterministic and marked external in the map. Definitions whose names end in
a variation of another's (`GrantTwice`, `SeekKeeping`, ...) are mutants:
plausible bugs that the properties must detect. They are not part of `Next`.

### CreditWindow (abstract specification)

What the credit manager and the MessageId allocator promise together. `window`
is the server's side: the first id it has not granted. `Request` is
`reserve_credits` followed by the allocation, including the case where the
allocation overflows after the credits are gone; `LoseGrant` is a response the
client discards before it counts its credits. `Negotiate` is the first request
of a connection, as it is in every caller; the code itself refuses only a second
NEGOTIATE after one that succeeded (`negotiate.rs:169`). The widths (`u32`, `u64`, `u16`)
are constants, so the run can exhaust them.

### ReadPipeline

`read_at_with_options` and `read_at_pipelined_with_stats`. A byte is abstracted
to where it comes from: each output slot holds the range its READ asked for and
how many bytes it got. `SendRead` is one turn of the scheduling loop (chunk size
limited by credits, `ReserveAndAllocate`, send), `ReceiveInterim`,
`ReceiveFinal`, `RejectBody` and `RefuseResponse` are the ways one turn of the
receiving loop can go, `FinishRead` is every return after the pipeline is
drained. The server answers any outstanding request in any order, honestly or
not; `faulty` remembers that it or the transport misbehaved. Two calls follow
each other on one connection, so that leftovers of the first meet the second.
`CreditSteps` states that every step is a step of `CreditWindow` on the same
three variables.

### CancelableRead

`read_at_pipelined_cancelable_with_options` with the token. The token's
`advance` is two steps (add, notify); the waiter's is `arm`, `load`, `wait`, as
in `wait_for_change`. CANCELs and responses travel in queues and cross. A READ
is one chunk and costs one credit: sizes and charges are ReadPipeline's subject.
The server need not answer any READ until it is cancelled, and ignores a CANCEL
by MessageId for a READ that went asynchronous. No call is made after a fault:
the code does not refuse one, but its callers give the session up (Finding 1 is
about the one that does not).

### RecoveringRead

`RecoveringReadOnlyFile` over `connect_read_only_file`. Each await of an attempt
is a phase; in each the network may fail and, in a cancellable call, the token
may win the `select!` and drop the attempt. Length and time of the identity are
those of the CREATE response (`Opened`; the time may be unknown). Then
`ReadSample` is one of up to three reads at `SampleOffsets`, each an await of
its own: between the CREATE and any of them the file may be written to, so an
identity may be made of several versions of a file, and a file that has become
shorter gives a short sample, which is an error (`ShortSample`). The fingerprint
is the samples themselves, a hash without collisions. `conn.seen` and `origin`
are history: what the opened file was since its CREATE, and what the file first
accepted was while it was opened. `session.late` says that an answer to an
earlier READ may still arrive on the session in use. Connection set-up is one
step.

### Session

`Connection::negotiate`, `session_setup` and the calls that send one request and
await its answer. Between two awaits a call is one action: `SendNegotiate` and
`ReceiveNegotiate`, a round as `SendSetup` and `ReceiveSetup`, and for the
others `StartCall` with the command's own signing rule, then `ReceiveAnswer`
with the command's own order of checks (`TreeOutcome`, `CreateOutcome`, ...:
CREATE, CLOSE and TREE_CONNECT report a status before they look at the
signature, the queries and SET_INFO after). `GiveUp` is a send or receive that
fails or times out; the answer may still come and then meets the next call. The
server keeps to the protocol and keeps its own transcript, key and opens. It may
answer any request on the session with STATUS_PENDING first (`GoAsync`): SET_INFO
waits for the final answer; CREATE, CLOSE and the queries refuse the asynchronous
header (`file.rs:230`, `close.rs:102`, `query.rs:349`), TREE_CONNECT reports the
status, and the final answer then meets the next call. `deferred` remembers the
MessageIds answered so. The wire may change one field of a response, or a request. The hash is the sequence
of messages it was made from, and a signature is valid if it was made with the
client's key and the message is unchanged: what the model decides is which
messages are hashed, which are signed and which are verified.

### VideoReader

The cached window, with bytes represented by their place in the file, so a
sequence is right if it is the run of places it should be. A read or prefetch
plans its fetch and applies the outcome in two steps; the reader is borrowed in
between. Arithmetic of targets, low water, eviction and capacity is the code's.
`Measure` lets the clock produce any of a few throughputs.

### VideoBroker

Handle methods are split at every atomic operation and await: `seek` advances
the speculative and then the playback counter, `read` advances, loads and sends,
`prefetch` advances, loads and publishes, `close` likewise. The runner's
`select!`, grace period, prefetch I/O (dropped when its token is stale), read
service and close are actions. The read-ahead cache is the set of playback
generations whose bytes it holds; VideoReader has its contents.

### FileHandles

One random-access or output-stream handle and the threads that share it: look
up, lock, check (`closing`, `poisoned`, range), request, unlock. A failed
mutation may have been applied in any part. Nobody else changes the file, and
`std::sync::Mutex` poisoning by a panic is not modelled.

### WriteAt

`write_at_with_options` and `flush_file`. It EXTENDS CreditWindow: a step that
spends or earns credits is a step of that module on the same variables, so its
properties are checked here on a client that really cuts chunks by the credits
of the moment. A byte is its index in the data and its place in the file. A
request that was sent stays with the server until it is answered, and
`ServerWrites` may happen long after the call returned; it may write less than
was asked. Every early return is an action: before anything is spent
(`RefuseToSend`), after the credits are gone (`SpendWithoutSending`), a send
that fails with the request on the server or not, a receive that fails, a wrong,
interim, refused or short answer.

### Transport and MessageChannel

`TcpTransport`. The stream is a sequence of small integers, cut at any place;
`TryTake` is `try_take_message` on a buffer. `ReceiveInterrupted` is the
`io_timeout` and the `select!` that drops the future: both leave the buffer.
`SendInterrupted` is the timeout of `write_all`: the rest of the frame is never
written and the transport may still be used. MessageChannel is what the
`Transport` trait promises; `ReceivesMessages` states that Transport implements
it.

### Directories

One directory handle, the threads that share it and the server's scan. A page is
a buffer of slots with next offsets and name lengths, honest or damaged in one
of seven ways; `DecodeTurn` is the body of the decoder's loop with its bounds
checks, `DecodeLoop` the loop and `Decode` what it returns. The size walk opens,
lists and closes one directory after the other on the same session;
`AccumulateEntry` is what it does with one entry. The loops are recursive
functions over the number of turns, so that they can be proved about. `Below`,
the size the walk is measured against, is computed in rounds from the bottom of
the tree up.
`stale` says that an answer nobody waits for comes before all others: from then
on every request of the session fails, which is what the response checks of
Session make of it.

### AndroidEngine

Every native function of `jni.rs` as an action: its argument checks, then the
call. Handles are integers with tag bits as in the code; `Resolve` is what a
native reaches with any long. A one-shot mutation is CREATE, perhaps SET_INFO,
and CLOSE on a session of its own; each may be refused, or lose its answer and be
carried out later (`LateCreate`, `LateSet`) or never. A rename's SET_INFO carries
the client's `replace_if_exists` (`RenameInfo`), which the server honours. A
call's `ended` is history, how it really ended; `Told` is what Java gets of it.
The share is external: names, nodes, delete-pending flags and the opens that keep
a node alive. Paths
are sequences of components and both normalisations are the code's: mutations
drop empty components, opens keep them. What happens inside a handle is in
VideoBroker, Directories and FileHandles.

### Composition

ReadPipeline instantiates CreditWindow and implements it; WriteAt extends it;
Transport implements MessageChannel, the medium of all requests. WriteAt is the
detail of FileHandles' one-step mutation (a prefix is applied, or the outcome is
unknown), AndroidEngine hands out the handles whose inside VideoBroker,
Directories and FileHandles model. Session stands below
it: its calls are what RecoveringRead and FileHandles have as one step each.
RecoveringRead uses the outcomes CancelableRead and ReadPipeline establish
(success, drained cancellation, an error that leaves answers behind).
VideoReader uses RecoveringRead's outcomes, and VideoBroker VideoReader's.

## 3. What the runs check

| Run | Bounds | Shows |
|---|---|---|
| `write_at` | credit units of 2 bytes, data to 5 bytes, MaxWriteSize 0, 2 and 5, two calls, counters of 3 and 6, grants to 2 | budget within the server's window, ids fresh and granted, a prefix written once and in place, an Ok flush durable |
| `read_pipeline` | two calls, ranges of 1 to 3 chunks, grants 0..2, ids to 8 | contiguous result, drained, no protocol error without a fault, every call returns, refinement of CreditWindow |
| `cancelable_read` | one call, two waves of at most two READs, one seek | a clean and contiguous return, everything cancelled, the call returns |
| `recovering_read` | two files, three versions (lengths 3 and 4, known and unknown time, one that shares its beginning with the second and its end with the third), samples of two bytes, 0 to 2 attempts, two faults, two changes, one seek | the same length, time and sampled bytes or an error, one replay, cancellation stops, calls return, a broken connection is restored |
| `recovering_late` (violation) | one file, one attempt, two faults | see finding 1 |
| `video_reader` | file of 6, budget of 4, requests to 5, wave of 3, throughput below, at and above the budget | window faithful, planning arithmetic and budget, reads exact, unread bytes kept |
| `broker` | two callers, queue of 1, playback generations to 2 | one generation in the cache, one CLOSE, every method returns |
| `session` | SMB 2.1 and 3.1.1, every policy, two rounds, three requests on the session, one changed message, one STATUS_PENDING besides those to SET_INFO, any number of late answers | same transcript and key at both ends, a protocol error only after a fault, a late answer or that STATUS_PENDING, answers only for their own request, live handles |
| `file_handles` | three threads, four calls, file to 2 (symmetric threads) | no unsafe request, one CLOSE alone, cached length right |
| `transport` | messages of 0, 2 and 3 bytes with a limit of 2, two each way, reads of any length, two interruptions | message channel, exact stream until a send is cut, every whole message received |
| `directories` | two threads, four calls, two trees with reparse points, pages of up to three entries, a Java long of 6 | contiguous pages, exact sizes, directories closed, every call returns |
| `engine` | three calls, two at a time, a root, a file and a free name, four spellings, a tag of 4 | faithful handles, honest outcomes, nothing replaced |

Why the bounds are enough: each was chosen so that the case at hand happens and
one more would repeat it. Two waves show a wave that follows a wave; two READs
in flight show one answered while the other is not; two calls show leftovers
meeting a successor; three threads show one closing, one holding the lock and
one that waits; two attempts show a backoff; requests longer than the cache and
a file longer than the cache make it be bypassed, extended and rolled; a
generation counter of two values wraps; three calls of the engine let a rename,
a late create and a delete meet, or a handle be opened after another was
closed; pages of three entries against a payload limit of two show a page that
does not fit. Where an integer limit matters it is a
small constant that the run reaches. `read_pipeline` runs with multi-credit
support; the theorems cover both.

`recovering_read`'s two faults exhaust a policy of one attempt, and make a
policy of two attempts retry. Its two changes let the file change during the
first open and again during the next one, or twice during one. The run does not
check for deadlock: a file that was closed, or that could not be opened, has no
next step. Nor do the other runs whose system ends: a connection that is
dropped, calls that are used up.

### Fairness

* ReadPipeline: the client task is polled, and a receive ends with a response or
  with the transport's `io_timeout`.
* CancelableRead: the task is polled, a thread that began `advance` finishes it,
  and the server looks at every CANCEL. It need not answer READs.
* RecoveringRead: the call goes on (connect, send and receive have timeouts)
  and the player goes on reading. Faults and seeks are finite in number, which
  is what "once the network is well" means.
* VideoBroker: the runtime polls the runner, a method that has begun goes on,
  and SMB I/O ends. Nobody is assumed to call again or to drop a handle.
* Transport: the socket delivers what is in it and the owner calls
  `receive_message` again, as every request does until its answer is there.
* Directories: a thread inside a call goes on, since every request ends with an
  answer or with the transport's timeout. Nobody is assumed to call.

Safety-only runs use `Spec` without fairness.

### Findings

1. `recovering_late`: a READ times out and recovery fails or is cancelled; the
   old session stays. If its connection comes back, the late answer makes the
   next READ fail with a protocol error, which is not retryable; its own answer
   is the late one for the read after it. Reads go on failing and no reconnect
   is tried (`smb-client/src/reconnect.rs:257`, `read.rs:98`).

Seen while modelling, without a run of its own:

* `seek` advances two counters one after the other, and `read` advances one
  before it enqueues. A `prefetch` of another clone in between carries the new
  speculative generation, so the seek or the read does not cancel it
  (`smb-stream/src/broker.rs:123`). Correctness does not suffer: `CacheOfActive`
  and `CallAnswered` hold in that interleaving.
* The runner answers a read and then publishes the automatic hint it prepared
  before; a hint the caller makes on getting the answer is replaced by the older
  one, although only the newest is said to be retained
  (`smb-stream/src/broker.rs:250`, `:146`).
* A STATUS_CANCELLED the client did not ask for marks the wave as cancelled
  without any CANCEL being sent, and a later seek sends none
  (`smb-client/src/cancel.rs:216`). As long as the server cancels only on
  request, `CancelledWhenAsked` and `CancelReturns` hold.
* A send that is cut by its timeout leaves half a frame on the stream and the
  transport usable (`smb-client/src/transport.rs:126`); the peer reads the next
  frame as the rest of the first. `SendsMessages` is stated up to the first cut.
* `map_client_error` gives a status of the CLOSE after a successful mutation the
  same names as a status of the mutation (`smb-fs/src/mutation.rs:188`): Java
  may read "access denied" for a rename that took effect. `MutationOutcome` has
  this as its exception.
* A server may answer CREATE, CLOSE or a query with STATUS_PENDING. The client
  ends the call with a protocol error and reads the final answer as that of its
  next request, which then fails too; a file such a CREATE opened stays open.
  `HealthyCalls` says that nothing else of an honest, timely server is refused.
* A file that is written to while it is opened may be accepted with a fingerprint
  of several versions, at the first open or at a later one. `AcceptedSame` says
  what remains true: each sampled byte was one the file had.

## 4. What is proved

TLAPS proves, for every value of the constants that satisfies the named
assumptions (`CreditLimits`, `ReadLimits`, `HandleLimits`, `DirectoryLimits`, ...):

* **CreditWindow** (its theorems open WriteAt_proof, which builds on them):
  `TypeCorrect`, `BudgetWithinWindow`, `FreshGrantedSpans`. The inductive
  invariant adds `window >= 1` (the id of NEGOTIATE itself) to type and budget.
* **ReadPipeline_proof**: `ReadTypes`, `ReadCredits`, `ReadPrefix`,
  `ReadDrained`, `ReadHealthy` and the refinement `ReadsUseWindow`. The
  invariant says that the table of outstanding READs and the server's
  agree (`Correlated`, `Owed`), that the slots tile the scheduled part of the
  range in order (`Planned`), that the position of the first short response
  cuts them (`Cut`) and what a returned call left (`Returned`). The prefix
  property alone is not inductive: a response is stored by position, and only
  the tiling says what its neighbours are. The step proof has one lemma per
  action; `ChunkAffordable` carries the arithmetic of credit-limited chunks,
  `ReserveIsRequest` and `ResponseIsGrant` the refinement.
* **AndroidHandles_proof** has two parts.
  FileHandles, under `HandleLimits`: `HandleTypes`, `HandleTraffic`, `HandleClosedAlone`,
  `HandleLength`, for any number of threads. The invariant says who holds the
  lock during a request (`Locked`), that the one thread that removed the handle
  is the one that closes (`Claimed`, `RemovedCloses`, `Closed`), and that a
  failed mutation has set `poisoned` before the lock is free (`Poisons`).

  Directories, under `DirectoryLimits` (natural bounds, and no thread is the
  value that says the lock is free) and `TreesAreTrees` (finitely many
  directories, and those that are no reparse points lie in each other without a
  cycle): `DirectoryPages` and `DirectorySizes`, for any number of threads and
  calls and for any trees, with `DirectoryDecoder` and `DirectoryReference` about
  the operators they rest on.
  * The loops. That a recursive function exists and has the values its body gives
    is itself proved (`LoopExists`), and every induction is a smallest
    counterexample (`NatMin`, from the library's `WFMin`), which needs no theorem
    with an operator for a parameter.
  * `DirectoryDecoder`: after k turns on an honest buffer the decoder has the
    first k entries and stands at the offset of the next one (`Honest`); the
    offsets grow, so the slot at an offset is unique (`HonestSlot`). Each kind of
    damage breaks a condition of the first turn (`DamagedRefused`), and a turn
    after a refusal changes nothing.
  * `DirectoryReference`: in a tree, the last round of `Below` changes nothing
    (by the height of a directory, `BelowIsHeld`), and nothing else has that
    property.
  * The invariant `DirectoryInv`. `Locking`: one thread is inside, and it is the
    holder of the lock. `Scanned`: what was returned is a prefix of the listing and,
    as long as the session answers, all of what the server has handed out.
    `Counted`: the walk's total, what its pending directories hold (`Owed`) and what
    is left of the one it is in (`Rest`) add up to the size, cut off at i64::MAX.
    `Opened`: the walk has the directory it is in open and no other. `Sized`: sizes
    returned. `SizeExact` says nothing of a walk in progress, so it is not
    inductive without `Counted` and `Opened`. Cutting off early or late gives the
    same sum (`SaturatedTwice`, `SaturatedSum`), and a page moves exactly its part
    from what is left to the total and the pending directories (`GoodPage`).
* **VideoReader_proof**: `ReaderTypes`, `ReaderFaithful`, `PrefetchPlans`,
  `ReaderCoversDemand`, `ReaderExact`, `ReaderKeepsUnconsumed`, for every file
  length, cache budget, pipeline and set of throughput samples. The invariant
  adds that a window exists only with the cursor inside it (`CursorInWindow`,
  which `PlanArithmetic` rests on) and that a plan in progress still fits the
  window it was made for (`PlanFits`): the fetch ends several steps after it was
  planned, and what it appends is right only where the window ended then.
  `PartRun` and `JoinedRun` say what slicing and appending do to a run of bytes.
  The module extends the two layers the reader reads through as well (the three
  specifications share no name, hence `FileSpec` and `WavesSpec`):
  * RecoveringRead, under its assumption `RecoveryLimits`: `ReplayCorrect` and
    the action properties `CancelCorrect` and `SameFileCorrect`, for every
    policy, number of faults and change of the file. `SameFileCorrect` needs that
    the opened file was, since its CREATE, among the versions `seen` has, that each
    sample read so far is that of one of them (both `CheckInv`) and each of the
    identity's that of one of `origin` (`RememberInv`), and that the samples cover the first, middle and last byte for every
    length and sample size. `RecoveryInv` says where a call can be with how many READs and which
    attempt (`Progress`): the bound on READs alone does not tell a call that is
    about to send its first from one about to replay. `CallSteps` reduces each
    action to what it does to the call.
  * CancelableRead, under `CancelLimits`: `DrainCorrect` and
    `CancelsCorrect`, for every pipeline, grant, number of calls and of seeks.
    The invariant `WaveInv` says that what the server has or has sent is awaited
    by some READ of the wave and that a final answer is the last word about its
    READ (`Owed`), that between waves nothing is awaited (`Between`), that the
    READs of a wave continue the chunks before (`Placed`), and that a CANCEL for
    a READ of the wave exists only once the wave is cancelled (`Asked`). Without
    the last word in `Owed`, an answer could be followed by another to the same
    READ, and the wave would return with something still under way; without
    `Asked`, a crossing CANCEL could make a wave look cancelled that is not.

* **WriteAt_proof**: `WriteImplementsCredits` (chunked writing refines
  CreditWindow), `WriteWithinWindow` and `WriteSpansGranted`, which follow from
  it, `WritePrefix` and `FlushCovers`, for every credit unit, write size, data
  length and number of calls (assumption `WriteLimits`). The invariant says that
  a pending request starts where the last answer's count ended and stays in the
  data (`Continued`, `Accounted`), that each applied byte is in place (`InPlace`)
  and that a flush the server is done with covers what was acknowledged before
  (`Covered`). `WrittenPrefix` alone is not inductive: the server may apply a
  chunk after the call gave up, and only `Continued` says where. `OneCall`
  reduces a step to the call it touches, `ChunkInData` holds the arithmetic.

* **VideoBroker_proof**: `CacheCorrect`, `CloseCorrect` and `AnswerCorrect`, for
  any number of callers and every queue length. `CacheOfActive` needs `Prepared`
  (the runner does I/O only for the generation it has prepared) and `ClosedOnce`
  is inductive with the types. `Answerable` is stated only here: who waits and
  which commands exist correspond one to one, which is the safety half of the
  liveness property `CallAnswered`.
* **Transport_proof**: `ReceiveCorrect`, the refinement of MessageChannel, and
  `SendCorrect`, for every message set, chunk size and size limit. The invariant
  says that the buffered bytes followed by those on the wire are the frames of
  the messages not yet received (`InInv`), and the same of the half-written frame
  while no send was cut (`OutInv`). `Holds` says so without a recursive
  concatenation: there are positions at which the frames start, one after the
  other. Taking a frame off the front and appending one at the end are lemmas
  about such positions.
* **AndroidEngine_proof**: `EngineInv`, `HandlesCorrect`, `OutcomeCorrect` and the
  action property `ReplacesNothing`, for every number of calls, names and nodes.
  `CallsInv` says for each place a call can be at what it has done and what Java is
  told; `TableInv` that keys are as many as the sessions that were opened
  (`Counted`), that each entry is an open session under its own handle
  (`Entries`, `Sessions`) and that handles are not shared (`Unshared`); the tag in
  the low bits is undone in `RawOf` by arithmetic. `ShareInv` says that the nodes
  there are are those with a name, and that what a delete has open is a file;
  without it a late CREATE or SET_INFO could not be shown to keep what it finds.

* **Session_proof**: `SameCorrect`, `AcceptedCorrect`, `HandlesCorrect` and
  `HealthyCorrect`, for every set of offered dialects, every choice of grants and
  any number of calls and changed messages. Until the session exists there is one
  message at a time (`Traffic`); the second message of a transcript is the answer
  to NEGOTIATE and determines the parameters on either side (`Transcripts`); a
  signature on the last SESSION_SETUP response that was not changed is the
  server's, over all the server has seen (`FinalAnswer`). Equal keys then mean
  equal transcripts, and equal transcripts equal parameters: `SameSession` alone
  says nothing of the step that creates the session. For the calls, an answer
  that was not changed is to the request it names (`Answers`), and a CLOSE on its
  way names a file older than itself and never the one that is held (`Files`):
  without it the CLOSE of a call that gave up could take a newer handle away.
  `HealthyCorrect` has two hypotheses, `MaxRounds >= 2` and
  `0 \notin InitialCredits`: with one round, or no credit to go on with, the
  client ends with an error by design. `HealthyState` says phase by phase what a
  connection without changed or late messages looks like: who has seen what of the
  transcript, which of the two rounds is under way, and that the answers on their
  way are any number of interim ones with one final at the end (`Good`). It holds
  until a request other than SET_INFO is deferred; from then on `DeferredInv`
  says that its MessageId is at most that of the request being waited for, and
  only the answer to that request can end a call in a protocol error
  (`RefusedBy`).

Model-checked only: liveness (`CallAnswered`, `CancelReturns`, `CallReturns`,
`BrokenRestored` and `Delivered`), since the provers have no support for fairness
and `ENABLED`. Every safety invariant and action property that a passing run
checks is also a theorem. The proofs about the decoder cover the damage that
`Damaged` lists, which is to the first entry of a page; the runs check no more.

## 5. Known limits

* `read_credit_charge` cannot exceed its `u16` in the model: MaxReadSize is
  assumed to be at most 65535 units.
* CancelableRead treats its bound on READs as credits running out; the data of
  a short chunk is not counted.
* AcceptedSame speaks of length, time and the first, middle and last byte. A file
  that differs outside the samples, with an unknown time, is accepted by the code;
  its documentation says so. A sample read is one step: a server that mixes two
  versions in one READ is left out, and so is one that answers it short although
  the file is long enough (an error of the attempt, as any other).
* Session: cryptography is idealised; option checks, path normalisation, a zero
  AsyncId, several trees or files, and a frame that was only partly written are
  left out. The server does not defer the messages of the set-up. `HealthyCalls`
  says nothing of calls that follow a deferred request; it needs
  two rounds, as NTLM does, and is about signing algorithms the client has
  (it does not offer AES-GMAC by default).
* VideoBroker does not model a caller that drops a method's future half way.
* After every handle is dropped without `close`, the runner waits for ever with
  the SMB file open (its own `watch` sender keeps the channel alive). Nothing
  in the repository promises otherwise, so this is a hazard without a property.

* WriteAt: a signature is one of the outcomes of an answer; two writes never
  overlap on one session (`&mut self`). The file system below the server is not
  modelled, so "durable" is what the server says on FLUSH.
* Transport: a header of one length byte instead of three; a peer that sends a
  reserved byte other than zero cannot be told from one that is out of step.
* Directories: names are their lengths, entries beyond kind and size are left
  out, and the bytes for Java are not built.
* AndroidEngine: Java opens fewer than 2^60 handles (`EngineLimits`), so the
  loop of `insert` over a counter that wrapped is left out; strings are valid; only the share's
  own users race each other. `delete_directory` has no caller.

## 6. Not modelled

Cryptography and the encodings of tokens; the wire codecs, which are byte
layouts covered by round-trip tests; `FileStandardInformation` and the
names-only listing of `query.rs`; the probe and the test kit; metrics of the
video reader; `Display` and conversions of errors.

## 7. Plan

Done, in this order: CreditWindow, ReadPipeline, VideoBroker, FileHandles,
CancelableRead, VideoReader, RecoveringRead, Session, WriteAt, Transport,
Directories, AndroidEngine.

Theorems exist for CreditWindow, ReadPipeline, FileHandles, VideoReader,
WriteAt, VideoBroker, Transport, AndroidEngine, Session, RecoveringRead,
CancelableRead and Directories.

Next, most important first:

1. A composition of VideoBroker and VideoReader that checks the broker's
   abstraction of the cache against the reader's window.
