---------------------------- MODULE VideoReader -----------------------------
(***************************************************************************)
(* The read-ahead cache of crates/smb-stream/src/video.rs: one contiguous  *)
(* window of the file that foreground reads fill and prefetch extends,     *)
(* rolling forward behind the playback cursor.                             *)
(*                                                                         *)
(* A read or a prefetch plans its fetch, awaits the network and applies    *)
(* the outcome; the reader is borrowed for that long, so nothing but the   *)
(* cancellation token changes in between.  The fetch may fail, be          *)
(* cancelled, or come back short.                                          *)
(*                                                                         *)
(* A byte is represented by its place in the file: a sequence of bytes is  *)
(* right if it is the run of places it is meant to be.                     *)
(***************************************************************************)
EXTENDS Integers, Sequences

CONSTANTS
  FileLen,        \* length of the file
  ReadAhead,      \* VideoReaderConfig::read_ahead_bytes
  Horizon,        \* VideoReaderConfig::target_buffer_duration
  MaxCache,       \* VideoReaderConfig::max_cache_bytes
  ChunkSize,      \* PipelinedReadOptions::chunk_size
  MaxInFlight,    \* PipelinedReadOptions::max_in_flight
  Samples,        \* throughput the clock may measure, in bytes per Horizon unit
  MaxRequest,     \* longest request of the player
  Generations     \* 2^64: the generation counter wraps

ASSUME ReaderLimits ==
  /\ FileLen \in Nat
  /\ ReadAhead \in Nat \ {0}
  /\ Horizon \in Nat \ {0}
  /\ MaxCache \in Nat \ {0}
  /\ ChunkSize \in Nat \ {0}
  /\ MaxInFlight \in Nat \ {0}
  /\ Samples \subseteq Nat
  /\ MaxRequest \in Nat
  /\ Generations \in Nat \ {0, 1}

VARIABLES
  generation,     \* the reader's generation
  cursor,         \* last_request_end, NoCursor while it is None
  cache,          \* the cached window, NoCache while it is None
  rate,           \* smoothed_throughput_bytes_per_second, NoRate while None
  work,           \* the fetch in progress, or Idle
  result          \* what the last read returned, and for which request

vars == <<generation, cursor, cache, rate, work, result>>

NoCursor == -1
NoRate == -1
NoCache == [gen |-> -1, start |-> -1, data |-> << >>]
Idle == [kind |-> "idle", offset |-> 0, len |-> 0, target |-> 0, gen |-> 0,
         start |-> 0, size |-> 0, drop |-> 0]
NoResult == [offset |-> 0, target |-> 0, data |-> << >>, short |-> FALSE]

Lesser(a, b) == IF a <= b THEN a ELSE b
Larger(a, b) == IF a >= b THEN a ELSE b

\* The bytes of the file from `offset` on.
Bytes(offset, n) == [i \in 1 .. n |-> offset + i - 1]

Window(gen, start, data) == [gen |-> gen, start |-> start, data |-> data]
End(window) == window.start + Len(window.data)

-----------------------------------------------------------------------------
(* What the reader computes from its state.                                *)

\* read_ahead_target_bytes
ReadAheadTarget ==
  IF rate = NoRate THEN Lesser(ReadAhead, MaxCache)
  ELSE Lesser(Larger(rate * Horizon, Lesser(ChunkSize, MaxCache)), MaxCache)

\* A window is used only under the generation it was made for.
Usable == cache # NoCache /\ cache.gen = generation

Contains(offset, n) == offset >= cache.start /\ offset + n <= End(cache)

SliceFromStart(offset, n) == SubSeq(cache.data, 1, n)

Slice(offset, n) == SubSeq(cache.data, offset - cache.start + 1, offset - cache.start + n)

\* A miss that is not where playback would go on, nor in or next to the window.
SeekMiss(offset) ==
  /\ cursor # NoCursor
  /\ offset # cursor
  /\ ~(Usable /\ offset >= cache.start /\ offset <= End(cache))

NextGeneration == (generation + 1) % Generations

Wave == ChunkSize * MaxInFlight

\* How much a foreground miss fetches: the demand, and read-ahead up to one wave.
FetchLen(offset, target) ==
  IF target > MaxCache THEN target
  ELSE Lesser(Lesser(Larger(target, Lesser(Wave, ReadAheadTarget)), MaxCache),
              FileLen - offset)

\* automatic_prefetch_hint: where the broker refills at low water.
AutomaticHints ==
  IF /\ cursor # NoCursor
     /\ cursor < FileLen
     /\ Usable
     /\ cursor >= cache.start /\ cursor <= End(cache)
     /\ End(cache) - cursor <= Larger(ReadAheadTarget \div 2, 1)
    THEN {cursor} ELSE {}

PlayheadAtEnd == End(cache)

\* Bytes behind this place may be dropped; without a cursor none may.
Playhead == IF cursor = NoCursor THEN cache.start ELSE cursor

KeepFrom ==
  Larger(Larger(Playhead - Lesser(ReadAheadTarget, MaxCache), 0), cache.start)

DropPrefix == KeepFrom - cache.start
Retained == Len(cache.data) - DropPrefix
Capacity == MaxCache - Retained

ExtensionLen == Lesser(Lesser(ReadAheadTarget, Capacity), FileLen - End(cache))

-----------------------------------------------------------------------------
Init ==
  /\ generation = 0
  /\ cursor = NoCursor
  /\ cache = NoCache
  /\ rate = NoRate
  /\ work = Idle
  /\ result = NoResult

SeekKeeping(offset) ==
  /\ work = Idle
  /\ generation' = NextGeneration
  /\ cache' = IF cache = NoCache THEN cache ELSE [cache EXCEPT !.gen = NextGeneration]
  /\ cursor' = offset
  /\ UNCHANGED <<rate, work, result>>

\* Nothing keeps a seek inside the file; one place past it stands for them all.
Seek(offset) ==
  /\ work = Idle
  /\ generation' = NextGeneration
  /\ cache' = NoCache
  /\ cursor' = offset
  /\ UNCHANGED <<rate, work, result>>

Invalidate ==
  /\ work = Idle
  /\ generation' = NextGeneration
  /\ cache' = NoCache
  /\ cursor' = NoCursor
  /\ UNCHANGED <<rate, work, result>>

\* prepare_read finds the bytes in the window.  A read of nothing, past the end
\* or with a stale token returns before this and changes nothing.
ReadCached(offset, length) ==
  LET target == Lesser(length, FileLen - offset) IN
  /\ work = Idle
  /\ offset < FileLen
  /\ Usable /\ Contains(offset, target)
  /\ cursor' = offset + target
  /\ result' = [offset |-> offset, target |-> target, data |-> Slice(offset, target),
                short |-> FALSE]
  /\ UNCHANGED <<generation, cache, rate, work>>

\* prepare_read plans a fetch; a miss elsewhere counts as a seek.
PlanRead(offset, length) ==
  LET target == Lesser(length, FileLen - offset)
      seek == SeekMiss(offset)
      gen == IF seek THEN NextGeneration ELSE generation
  IN
  /\ work = Idle
  /\ offset < FileLen
  /\ ~(Usable /\ Contains(offset, target))
  /\ generation' = gen
  /\ cache' = IF seek THEN NoCache ELSE cache
  /\ work' = [kind |-> "read", offset |-> offset, len |-> FetchLen(offset, target),
              target |-> target, gen |-> gen, start |-> 0, size |-> 0, drop |-> 0]
  /\ UNCHANGED <<cursor, rate, result>>

\* prepare_prefetch_extension: the window grows at its end, into the space that
\* consumed bytes leave.
PlanPrefetch(hint) ==
  /\ work = Idle
  /\ hint < FileLen
  /\ Usable
  /\ hint >= cache.start /\ hint <= End(cache)
  /\ End(cache) < FileLen
  /\ DropPrefix <= Len(cache.data)
  /\ Capacity > 0
  /\ ExtensionLen > 0
  /\ work' = [kind |-> "prefetch", offset |-> End(cache), len |-> ExtensionLen, target |-> 0,
              gen |-> generation, start |-> cache.start, size |-> Len(cache.data),
              drop |-> DropPrefix]
  /\ UNCHANGED <<generation, cursor, cache, rate, result>>

\* The fetch fails or is cancelled.
FetchFails ==
  /\ work # Idle
  /\ work' = Idle
  /\ UNCHANGED <<generation, cursor, cache, rate, result>>

\* record_throughput_sample of a fetch of n bytes, if the clock has moved.
Measure(n) ==
  \E sample \in Samples \cup {NoRate} :
    rate' = IF n = 0 \/ sample = NoRate THEN rate
            ELSE IF rate = NoRate THEN sample ELSE (rate + sample) \div 2

\* The token advanced during the fetch: only the measurement remains.
FinishStale ==
  /\ work # Idle
  /\ \E n \in 0 .. work.len : Measure(n)
  /\ work' = Idle
  /\ UNCHANGED <<generation, cursor, cache, result>>

StoredAlways(gen, offset, data) == Window(gen, offset, data)

\* A fetch larger than the budget is handed out and not kept.
Stored(gen, offset, data) ==
  IF Len(data) <= MaxCache THEN Window(gen, offset, data) ELSE NoCache

\* finish_fetch of a read that returned n bytes.
FinishRead(n) ==
  LET returned == Lesser(work.target, n) IN
  /\ work.kind = "read"
  /\ n <= work.len
  /\ Measure(n)
  /\ work' = Idle
  /\ IF work.gen # generation THEN UNCHANGED <<cursor, cache, result>>
     ELSE /\ result' = [offset |-> work.offset, target |-> work.target,
                        data |-> Bytes(work.offset, returned), short |-> n < work.len]
          /\ cursor' = work.offset + returned
          /\ cache' = Stored(work.gen, work.offset, Bytes(work.offset, n))
  /\ UNCHANGED generation

RolledInPlace(window, drop) ==
  Window(window.gen, window.start, SubSeq(window.data, drop + 1, Len(window.data)))

Rolled(window, drop) ==
  Window(window.gen, window.start + drop, SubSeq(window.data, drop + 1, Len(window.data)))

\* finish_prefetch_extension: the plan still fits the window, so it rolls
\* forward and takes what fits of the n fetched bytes.
FinishPrefetch(n) ==
  LET rolled == Rolled(cache, work.drop)
      taken == Lesser(n, MaxCache - Len(rolled.data))
  IN
  /\ work.kind = "prefetch"
  /\ n <= work.len
  /\ Measure(n)
  /\ work' = Idle
  /\ cache' = IF /\ work.gen = generation
                 /\ Usable
                 /\ cache.start = work.start
                 /\ Len(cache.data) = work.size
                 /\ End(cache) = work.offset
                 /\ work.drop <= Len(cache.data)
                THEN [rolled EXCEPT !.data = @ \o Bytes(work.offset, taken)]
                ELSE cache
  /\ UNCHANGED <<generation, cursor, result>>

Next ==
  \/ \E offset \in 0 .. FileLen + 1 : Seek(offset)
  \/ Invalidate
  \/ \E offset \in 0 .. FileLen, length \in 1 .. MaxRequest :
       ReadCached(offset, length) \/ PlanRead(offset, length)
  \/ \E hint \in 0 .. FileLen : PlanPrefetch(hint)
  \/ \E hint \in AutomaticHints : PlanPrefetch(hint)
  \/ FetchFails
  \/ FinishStale
  \/ \E n \in 0 .. work.len : FinishRead(n) \/ FinishPrefetch(n)

Spec == Init /\ [][Next]_vars

-----------------------------------------------------------------------------
Place == 0 .. FileLen
Windows == [gen : 0 .. Generations - 1, start : Place, data : Seq(Nat)]
Works == [kind : {"read", "prefetch"}, offset : Place, len : Place, target : Place,
          gen : 0 .. Generations - 1, start : Place, size : Nat, drop : Nat]

\* The reader's state; the window keeps to its budget.
TypeOK ==
  /\ generation \in 0 .. Generations - 1
  /\ cursor \in (0 .. FileLen + 1) \cup {NoCursor}
  /\ cache = NoCache \/ (cache \in Windows /\ Len(cache.data) <= MaxCache)
  /\ rate \in Nat \cup {NoRate}
  /\ work = Idle \/ work \in Works
  /\ result \in [offset : Place, target : Place, data : Seq(Nat), short : BOOLEAN]

(***************************************************************************)
(* The window is what it claims to be: its bytes are those of the file     *)
(* from its start on, through every fetch, short answer, extension and     *)
(* roll, and it belongs to the current generation.                         *)
(***************************************************************************)
CacheFaithful ==
  cache # NoCache =>
    /\ cache.gen = generation
    /\ \A i \in DOMAIN cache.data : cache.data[i] = cache.start + i - 1
    /\ End(cache) <= FileLen

(***************************************************************************)
(* Planning a prefetch never fails on its own arithmetic: the playhead     *)
(* stays in or at the end of the window whatever reads, seeks and failures *)
(* came before, so there is never more to drop than the window has, nor    *)
(* more retained than the budget max_cache_bytes (the two checked_sub of   *)
(* prepare_prefetch_extension never report OffsetOverflow).                *)
(***************************************************************************)
PlanArithmetic ==
  cache # NoCache =>
    /\ Playhead >= cache.start /\ Playhead <= End(cache)
    /\ DropPrefix \in 0 .. Len(cache.data)
    /\ Capacity >= 0
    /\ Len(cache.data) <= MaxCache

(***************************************************************************)
(* A foreground fetch always covers the demand and waits for at most one   *)
(* pipeline wave beyond it (read_ahead_bytes: "Cache misses still await at *)
(* most one configured pipeline wave beyond caller demand").               *)
(***************************************************************************)
DemandCovered ==
  work.kind = "read" =>
    /\ work.len >= work.target
    /\ work.len <= Larger(work.target, Wave)
    /\ work.offset + work.len <= FileLen

(***************************************************************************)
(* A read returns the file's bytes from the requested offset, whether they *)
(* come from the window or the network, and all of them unless the fetch   *)
(* came back short.                                                        *)
(***************************************************************************)
ReadExact ==
  /\ Len(result.data) <= result.target
  /\ ~result.short => Len(result.data) = result.target
  /\ \A i \in DOMAIN result.data : result.data[i] = result.offset + i - 1

(***************************************************************************)
(* Prefetch never evicts what the player has yet to read, nor shrinks the  *)
(* window at its end, whatever its hint ("it must never evict bytes the    *)
(* player has not consumed").                                              *)
(***************************************************************************)
UnconsumedKept ==
  [][work.kind = "prefetch" /\ cache' # cache =>
       /\ cache' # NoCache
       /\ cache'.start <= cursor
       /\ End(cache') >= End(cache)]_vars
=============================================================================
