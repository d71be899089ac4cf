------------------------- MODULE VideoReader_proof --------------------------
(***************************************************************************)
(* Proofs about the read-ahead cache, for every file, budget, pipeline and *)
(* throughput, and about what it reads through: RecoveringReadOnlyFile,    *)
(* for every policy, fault and change of the file, and the cancellable     *)
(* READ below it, for every pipeline, credit grant and seek.  The three    *)
(* specifications share no name.                                           *)
(***************************************************************************)
EXTENDS VideoReader, RecoveringRead, CancelableRead, FiniteSetTheorems, TLAPS

-----------------------------------------------------------------------------
(* The inductive invariant.                                                *)

\* A window exists only with a cursor inside it or at its end.
CursorInWindow ==
  cache # NoCache => cursor # NoCursor /\ cache.start <= cursor /\ cursor <= End(cache)

\* A fetch in progress is of this generation, and a prefetch still fits.
PlanFits ==
  /\ work # Idle => work.gen = generation
  /\ work.kind = "prefetch" =>
       /\ cache # NoCache
       /\ work.offset = End(cache)
       /\ work.offset + work.len <= FileLen
       /\ work.drop <= Len(cache.data)
       /\ cache.start + work.drop <= cursor

IInv == TypeOK /\ CacheFaithful /\ CursorInWindow /\ PlanFits /\ DemandCovered /\ ReadExact

-----------------------------------------------------------------------------
(* The sequences of bytes.                                                 *)

Run(data, start) == \A i \in DOMAIN data : data[i] = start + i - 1

\* What is fetched is a run of the file.
LEMMA BytesRun ==
  ASSUME NEW offset \in Nat, NEW n \in Nat
  PROVE  /\ Bytes(offset, n) \in Seq(Nat)
         /\ Len(Bytes(offset, n)) = n
         /\ Run(Bytes(offset, n), offset)
BY DEF Bytes, Run

\* A part of a run is a run from where it begins.
LEMMA PartRun ==
  ASSUME NEW data \in Seq(Nat), NEW start \in Nat, Run(data, start),
         NEW from \in Nat, NEW n \in Nat, from + n <= Len(data)
  PROVE  /\ SubSeq(data, from + 1, from + n) \in Seq(Nat)
         /\ Len(SubSeq(data, from + 1, from + n)) = n
         /\ Run(SubSeq(data, from + 1, from + n), start + from)
<1> DEFINE part == SubSeq(data, from + 1, from + n)
<1>1. part \in Seq(Nat) OBVIOUS
<1>2. Len(part) = n OBVIOUS
<1>3. \A i \in 1 .. n : part[i] = data[from + i] OBVIOUS
<1>4. \A i \in 1 .. n : data[from + i] = start + from + i - 1
  <2> SUFFICES ASSUME NEW i \in 1 .. n PROVE data[from + i] = start + from + i - 1
    OBVIOUS
  <2>1. from + i \in DOMAIN data OBVIOUS
  <2>2. data[from + i] = start + (from + i) - 1 BY <2>1 DEF Run
  <2> QED BY <2>2
<1>5. DOMAIN part = 1 .. n BY <1>1, <1>2
<1> HIDE DEF part
<1>6. Run(part, start + from) BY <1>3, <1>4, <1>5 DEF Run
<1> QED BY <1>1, <1>2, <1>6 DEF part

\* Dropping a prefix leaves the end of a window where it was.
LEMMA SameEnd ==
  ASSUME NEW start \in Nat, NEW drop \in Nat, NEW len \in Nat, drop <= len
  PROVE  start + drop \in Nat /\ start + drop + (len - drop) = start + len
OBVIOUS

\* Two runs that meet are one.
LEMMA JoinedRun ==
  ASSUME NEW a \in Seq(Nat), NEW b \in Seq(Nat), NEW start \in Nat,
         Run(a, start), Run(b, start + Len(a))
  PROVE  /\ a \o b \in Seq(Nat)
         /\ Len(a \o b) = Len(a) + Len(b)
         /\ Run(a \o b, start)
BY DEF Run

\* The target lies between one byte and the budget.
LEMMA TargetBound ==
  ASSUME TypeOK PROVE ReadAheadTarget \in 1 .. MaxCache
<1>1. rate \in Nat \cup {NoRate} BY DEF TypeOK
<1>2. rate # NoRate => rate * Horizon \in Int
  BY <1>1, ReaderLimits
<1> QED BY <1>1, <1>2, ReaderLimits DEF ReadAheadTarget, Lesser, Larger, NoRate

\* One pipeline wave, in bytes.
LEMMA WaveNat == Wave \in Nat
BY ReaderLimits DEF Wave

\* The smoothed throughput stays a number.
LEMMA Measured ==
  ASSUME TypeOK, NEW n, Measure(n) PROVE rate' \in Nat \cup {NoRate}
<1>1. PICK sample \in Samples \cup {NoRate} :
        rate' = IF n = 0 \/ sample = NoRate THEN rate
                ELSE IF rate = NoRate THEN sample ELSE (rate + sample) \div 2
  BY DEF Measure
<1>2. \A a, b \in Nat : (a + b) \div 2 \in Nat OBVIOUS
<1> QED BY <1>1, <1>2, ReaderLimits DEF TypeOK

-----------------------------------------------------------------------------
\* The invariant holds initially.
LEMMA InitInv == Init => IInv
<1> SUFFICES ASSUME Init PROVE IInv OBVIOUS
<1> USE DEF Init
<1>1. TypeOK BY ReaderLimits DEF TypeOK, NoResult, Place
<1>2. CacheFaithful /\ CursorInWindow BY DEF CacheFaithful, CursorInWindow
<1>3. PlanFits /\ DemandCovered BY DEF PlanFits, DemandCovered, Idle
<1>4. ReadExact BY DEF ReadExact, NoResult
<1> QED BY <1>1, <1>2, <1>3, <1>4 DEF IInv

\* Seek and invalidate forget the window.
LEMMA ForgetInv ==
  ASSUME IInv, \/ \E offset \in 0 .. FileLen + 1 : Seek(offset)
               \/ Invalidate
  PROVE  IInv'
<1>1. /\ work = Idle
      /\ generation' = NextGeneration
      /\ cache' = NoCache
      /\ cursor' \in (0 .. FileLen + 1) \cup {NoCursor}
      /\ UNCHANGED <<rate, work, result>>
  BY DEF Seek, Invalidate
<1>2. NextGeneration \in 0 .. Generations - 1
  BY ReaderLimits DEF IInv, TypeOK, NextGeneration
<1>3. TypeOK' BY <1>1, <1>2 DEF IInv, TypeOK
<1>4. CacheFaithful' /\ CursorInWindow' BY <1>1 DEF CacheFaithful, CursorInWindow
<1>5. PlanFits' /\ DemandCovered' BY <1>1 DEF PlanFits, DemandCovered, Idle
<1>6. ReadExact' BY <1>1 DEF IInv, ReadExact
<1> QED BY <1>3, <1>4, <1>5, <1>6 DEF IInv

\* A window in use has its type and is a run.
LEMMA WindowFacts ==
  ASSUME IInv, cache # NoCache
  PROVE  /\ cache \in Windows
         /\ cache.gen = generation
         /\ cache.start \in 0 .. FileLen
         /\ cache.data \in Seq(Nat)
         /\ Len(cache.data) \in Nat
         /\ Len(cache.data) <= MaxCache
         /\ Run(cache.data, cache.start)
         /\ End(cache) = cache.start + Len(cache.data)
         /\ End(cache) <= FileLen
         /\ cursor \in Nat
         /\ cache.start <= cursor
         /\ cursor <= End(cache)
<1>1. cache \in Windows /\ Len(cache.data) <= MaxCache BY DEF IInv, TypeOK
<1>2. cache.start \in 0 .. FileLen /\ cache.data \in Seq(Nat) /\ Len(cache.data) \in Nat
  BY <1>1 DEF Windows, Place
<1>3. cache.gen = generation /\ Run(cache.data, cache.start) /\ End(cache) <= FileLen
  BY DEF IInv, CacheFaithful, Run
<1>4. cursor \in Nat BY ReaderLimits DEF IInv, TypeOK, CursorInWindow
<1> QED BY <1>1, <1>2, <1>3, <1>4 DEF IInv, CursorInWindow, End

\* A hit moves the cursor within the window.
LEMMA ReadCachedInv ==
  ASSUME IInv, NEW offset \in 0 .. FileLen, NEW length \in 1 .. MaxRequest,
         ReadCached(offset, length)
  PROVE  IInv'
<1> DEFINE target == Lesser(length, FileLen - offset)
<1>1. /\ work = Idle /\ offset < FileLen /\ cache # NoCache
      /\ Contains(offset, target)
      /\ cursor' = offset + target
      /\ result' = [offset |-> offset, target |-> target, data |-> Slice(offset, target),
                    short |-> FALSE]
      /\ UNCHANGED <<generation, cache, rate, work>>
  BY DEF ReadCached, Usable
<1>2. target \in Nat /\ offset \in Nat /\ offset + target <= FileLen
  BY <1>1, ReaderLimits DEF Lesser
<1>3. offset >= cache.start /\ offset + target <= End(cache) BY <1>1 DEF Contains
<1>4. /\ Slice(offset, target) \in Seq(Nat)
      /\ Len(Slice(offset, target)) = target
      /\ Run(Slice(offset, target), offset)
  <2> DEFINE from == offset - cache.start
  <2>0. /\ cache.start \in Nat /\ Len(cache.data) \in Nat
        /\ End(cache) = cache.start + Len(cache.data)
    BY <1>1, WindowFacts, ReaderLimits
  <2> HIDE DEF target
  <2>1. from \in Nat /\ from + target <= Len(cache.data) /\ cache.start + from = offset
    BY <1>2, <1>3, <2>0
  <2>2. cache.data \in Seq(Nat) /\ cache.start \in Nat /\ Run(cache.data, cache.start)
    BY <1>1, WindowFacts
  <2>3. Slice(offset, target) = SubSeq(cache.data, from + 1, from + target) BY DEF Slice
  <2> HIDE DEF from
  <2>4. /\ SubSeq(cache.data, from + 1, from + target) \in Seq(Nat)
        /\ Len(SubSeq(cache.data, from + 1, from + target)) = target
        /\ Run(SubSeq(cache.data, from + 1, from + target), cache.start + from)
    BY <1>2, <2>1, <2>2, PartRun
  <2> QED BY <2>1, <2>3, <2>4
<1>5. TypeOK'
  <2>1. cursor' \in 0 .. FileLen + 1 BY <1>1, <1>2, ReaderLimits
  <2>2. result' \in [offset : Place, target : Place, data : Seq(Nat), short : BOOLEAN]
    BY <1>1, <1>2, <1>4, ReaderLimits DEF Place
  <2> QED BY <1>1, <2>1, <2>2 DEF IInv, TypeOK
<1>6. CacheFaithful' BY <1>1 DEF IInv, CacheFaithful, End
<1>7. CursorInWindow'
  BY <1>1, <1>2, <1>3, WindowFacts DEF CursorInWindow, NoCursor, End
<1>8. PlanFits' /\ DemandCovered' BY <1>1 DEF PlanFits, DemandCovered, Idle
<1>9. ReadExact' BY <1>1, <1>2, <1>4 DEF ReadExact, Run
<1> QED BY <1>5, <1>6, <1>7, <1>8, <1>9 DEF IInv

\* The demand is covered, within one wave and the file.
LEMMA FetchBound ==
  ASSUME TypeOK, NEW offset \in 0 .. FileLen, NEW target \in Nat, offset + target <= FileLen
  PROVE  /\ FetchLen(offset, target) \in Nat
         /\ FetchLen(offset, target) >= target
         /\ FetchLen(offset, target) <= Larger(target, Wave)
         /\ offset + FetchLen(offset, target) <= FileLen
<1>1. ReadAheadTarget \in Nat /\ Wave \in Nat BY TargetBound, WaveNat, ReaderLimits
<1>2. FileLen \in Nat /\ MaxCache \in Nat /\ offset \in Nat BY ReaderLimits
<1>3. CASE target > MaxCache
  BY <1>1, <1>2, <1>3 DEF FetchLen, Larger
<1>4. CASE target <= MaxCache
  <2>1. FetchLen(offset, target) =
          Lesser(Lesser(Larger(target, Lesser(Wave, ReadAheadTarget)), MaxCache),
                 FileLen - offset)
    BY <1>2, <1>4 DEF FetchLen
  <2> QED BY <1>1, <1>2, <1>4, <2>1 DEF Lesser, Larger
<1> QED BY <1>2, <1>3, <1>4

\* Planning a read: the demand is covered, and a seek forgets the window.
LEMMA PlanReadInv ==
  ASSUME IInv, NEW offset \in 0 .. FileLen, NEW length \in 1 .. MaxRequest,
         PlanRead(offset, length)
  PROVE  IInv'
<1> DEFINE target == Lesser(length, FileLen - offset)
           gen == IF SeekMiss(offset) THEN NextGeneration ELSE generation
<1>1. /\ offset < FileLen
      /\ generation' = gen
      /\ cache' = IF SeekMiss(offset) THEN NoCache ELSE cache
      /\ work' = [kind |-> "read", offset |-> offset, len |-> FetchLen(offset, target),
                  target |-> target, gen |-> gen, start |-> 0, size |-> 0, drop |-> 0]
      /\ UNCHANGED <<cursor, rate, result>>
  BY DEF PlanRead
<1>2. target \in Nat /\ offset + target <= FileLen
  BY <1>1, ReaderLimits DEF Lesser
<1>3. /\ FetchLen(offset, target) \in Nat
      /\ FetchLen(offset, target) >= target
      /\ FetchLen(offset, target) <= Larger(target, Wave)
      /\ offset + FetchLen(offset, target) <= FileLen
  BY <1>2, FetchBound DEF IInv
<1>4. gen \in 0 .. Generations - 1
  BY ReaderLimits DEF IInv, TypeOK, NextGeneration
<1> HIDE DEF target, gen
<1>5. TypeOK'
  <2>1. work' \in Works
    BY <1>1, <1>2, <1>3, <1>4, ReaderLimits DEF Works, Place
  <2>2. cache' = NoCache \/ (cache' \in Windows /\ Len(cache'.data) <= MaxCache)
    BY <1>1 DEF IInv, TypeOK
  <2> QED BY <1>1, <1>4, <2>1, <2>2 DEF IInv, TypeOK
<1>6. CacheFaithful'
  BY <1>1 DEF IInv, CacheFaithful, End, gen
<1>7. CursorInWindow' BY <1>1 DEF IInv, CursorInWindow, End
<1>8. PlanFits' BY <1>1 DEF PlanFits
<1>9. DemandCovered' BY <1>1, <1>3 DEF DemandCovered, Wave
<1>10. ReadExact' BY <1>1 DEF IInv, ReadExact
<1> QED BY <1>5, <1>6, <1>7, <1>8, <1>9, <1>10 DEF IInv

\* Only consumed bytes are dropped, and what remains is within the budget.
LEMMA DropBound ==
  ASSUME IInv, cache # NoCache
  PROVE  /\ DropPrefix \in 0 .. Len(cache.data)
         /\ cache.start + DropPrefix <= cursor
         /\ Capacity \in Nat
<1>1. Playhead = cursor BY DEF IInv, CursorInWindow, Playhead
<1>2. ReadAheadTarget \in Nat BY TargetBound, ReaderLimits DEF IInv
<1>3. KeepFrom \in Int /\ KeepFrom >= cache.start /\ KeepFrom <= cursor
  BY <1>1, <1>2, WindowFacts, ReaderLimits DEF KeepFrom, Lesser, Larger
<1>4. /\ cache.start \in Nat /\ Len(cache.data) \in Nat /\ cursor \in Nat
      /\ Len(cache.data) <= MaxCache /\ cursor <= cache.start + Len(cache.data)
      /\ MaxCache \in Nat
  BY WindowFacts, ReaderLimits
<1>5. DropPrefix \in 0 .. Len(cache.data) /\ cache.start + DropPrefix <= cursor
  BY <1>3, <1>4 DEF DropPrefix
<1>6. Capacity \in Nat BY <1>4, <1>5 DEF Retained, Capacity
<1> QED BY <1>5, <1>6

\* Planning a prefetch: the plan fits the window.
LEMMA PlanPrefetchInv ==
  ASSUME IInv, NEW hint \in 0 .. FileLen, PlanPrefetch(hint)
  PROVE  IInv'
<1>1. /\ cache # NoCache /\ End(cache) < FileLen
      /\ ExtensionLen > 0
      /\ work' = [kind |-> "prefetch", offset |-> End(cache), len |-> ExtensionLen,
                  target |-> 0, gen |-> generation, start |-> cache.start,
                  size |-> Len(cache.data), drop |-> DropPrefix]
      /\ UNCHANGED <<generation, cursor, cache, rate, result>>
  BY DEF PlanPrefetch, Usable
<1>2. ReadAheadTarget \in Nat BY TargetBound, ReaderLimits DEF IInv
<1>3. ExtensionLen \in Nat /\ End(cache) + ExtensionLen <= FileLen
  <2>1. Capacity \in Nat BY <1>1, DropBound
  <2>2. End(cache) \in Nat /\ FileLen \in Nat BY <1>1, WindowFacts, ReaderLimits
  <2> QED BY <1>1, <1>2, <2>1, <2>2 DEF ExtensionLen, Lesser
<1>4. TypeOK'
  <2>1. End(cache) \in Place /\ ExtensionLen \in Place /\ cache.start \in Place
        /\ Len(cache.data) \in Nat /\ DropPrefix \in Nat /\ 0 \in Place
    BY <1>1, <1>3, DropBound, WindowFacts, ReaderLimits DEF Place
  <2>2. generation \in 0 .. Generations - 1 BY DEF IInv, TypeOK
  <2>3. work' \in Works BY <1>1, <2>1, <2>2 DEF Works
  <2> QED BY <1>1, <2>3 DEF IInv, TypeOK
<1>5. CacheFaithful' BY <1>1 DEF IInv, CacheFaithful, End
<1>6. CursorInWindow' BY <1>1 DEF IInv, CursorInWindow, End
<1>7. PlanFits'
  BY <1>1, <1>3, DropBound, WindowFacts DEF PlanFits, End
<1>8. DemandCovered' BY <1>1 DEF DemandCovered
<1>9. ReadExact' BY <1>1 DEF IInv, ReadExact
<1> QED BY <1>4, <1>5, <1>6, <1>7, <1>8, <1>9 DEF IInv

\* A fetch that fails or comes too late leaves the cache alone.
LEMMA GiveUpInv ==
  ASSUME IInv, FetchFails \/ FinishStale
  PROVE  IInv'
<1>1. work' = Idle /\ UNCHANGED <<generation, cursor, cache, result>>
  BY DEF FetchFails, FinishStale
<1>2. rate' \in Nat \cup {NoRate}
  BY Measured DEF FetchFails, FinishStale, IInv, TypeOK
<1>3. TypeOK' BY <1>1, <1>2 DEF IInv, TypeOK
<1>4. CacheFaithful' BY <1>1 DEF IInv, CacheFaithful, End
<1>5. CursorInWindow' BY <1>1 DEF IInv, CursorInWindow, End
<1>6. PlanFits' /\ DemandCovered' BY <1>1 DEF PlanFits, DemandCovered, Idle
<1>7. ReadExact' BY <1>1 DEF IInv, ReadExact
<1> QED BY <1>3, <1>4, <1>5, <1>6, <1>7 DEF IInv

\* A finished read replaces the window by what it fetched.
LEMMA FinishReadInv ==
  ASSUME IInv, NEW n \in 0 .. work.len, FinishRead(n)
  PROVE  IInv'
<1> DEFINE answer == Lesser(work.target, n)
           fetched == Bytes(work.offset, n)
<1>1. work \in Works /\ work.gen = generation
  BY DEF FinishRead, IInv, TypeOK, PlanFits, Idle
<1>2. /\ work.kind = "read" /\ n <= work.len
      /\ Measure(n) /\ work' = Idle
      /\ result' = [offset |-> work.offset, target |-> work.target,
                    data |-> Bytes(work.offset, answer), short |-> n < work.len]
      /\ cursor' = work.offset + answer
      /\ cache' = Stored(work.gen, work.offset, fetched)
      /\ generation' = generation
  BY <1>1 DEF FinishRead
<1>3. /\ work.offset \in Nat /\ work.target \in Nat /\ work.len \in Nat
      /\ n \in Nat /\ work.offset + work.len <= FileLen /\ work.len >= work.target
      /\ work.gen \in 0 .. Generations - 1 /\ work.offset \in Place /\ work.target \in Place
  BY <1>1, <1>2, ReaderLimits DEF Works, Place, IInv, DemandCovered
<1>4. /\ answer \in Nat /\ answer <= n /\ answer <= work.target
      /\ n = work.len => answer = work.target
  BY <1>3 DEF Lesser
<1>5. /\ fetched \in Seq(Nat) /\ Len(fetched) = n /\ Run(fetched, work.offset)
  BY <1>3, BytesRun
<1>6. /\ Bytes(work.offset, answer) \in Seq(Nat)
      /\ Len(Bytes(work.offset, answer)) = answer
      /\ Run(Bytes(work.offset, answer), work.offset)
  BY <1>3, <1>4, BytesRun
<1>7. rate' \in Nat \cup {NoRate} BY <1>2, Measured DEF IInv
<1> HIDE DEF answer, fetched
<1>8. \/ cache' = NoCache
      \/ /\ cache' \in Windows
         /\ cache'.gen = generation /\ cache'.start = work.offset /\ cache'.data = fetched
         /\ Len(fetched) <= MaxCache
  BY <1>1, <1>2, <1>3, <1>5 DEF Stored, Window, Windows
<1>9. TypeOK'
  <2>1. cursor' \in 0 .. FileLen + 1 BY <1>2, <1>3, <1>4, ReaderLimits
  <2>2. (n < work.len) \in BOOLEAN OBVIOUS
  <2>3. result' \in [offset : Place, target : Place, data : Seq(Nat), short : BOOLEAN]
    BY <1>2, <1>3, <1>6, <2>2
  <2>4. cache' = NoCache \/ (cache' \in Windows /\ Len(cache'.data) <= MaxCache)
    BY <1>8
  <2> QED BY <1>2, <1>7, <2>1, <2>3, <2>4 DEF IInv, TypeOK
<1>10. CacheFaithful'
  <2> SUFFICES ASSUME cache' # NoCache PROVE CacheFaithful' BY DEF CacheFaithful
  <2>1. /\ cache'.gen = generation' /\ cache'.start = work.offset /\ cache'.data = fetched
    BY <1>2, <1>8
  <2>2. End(cache') <= FileLen
    <3>1. End(cache') = work.offset + n BY <1>5, <2>1 DEF End
    <3> QED BY <1>2, <1>3, <3>1, ReaderLimits
  <2>3. \A i \in DOMAIN cache'.data : cache'.data[i] = cache'.start + i - 1
    BY <1>5, <2>1 DEF Run
  <2> QED BY <2>1, <2>2, <2>3 DEF CacheFaithful
<1>11. CursorInWindow'
  BY <1>2, <1>3, <1>4, <1>5, <1>8 DEF CursorInWindow, NoCursor, End
<1>12. PlanFits' /\ DemandCovered' BY <1>2 DEF PlanFits, DemandCovered, Idle
<1>13. ReadExact'
  <2>1. result'.short = (n < work.len) BY <1>2
  <2>2. ~(n < work.len) => n = work.len BY <1>2, <1>3
  <2> QED BY <1>2, <1>3, <1>4, <1>6, <2>1, <2>2 DEF ReadExact, Run
<1> QED BY <1>9, <1>10, <1>11, <1>12, <1>13 DEF IInv

\* What a prefetch leaves: the window without its dropped prefix, and longer.
LEMMA Extended ==
  ASSUME IInv, NEW n \in 0 .. work.len, FinishPrefetch(n)
  PROVE  /\ cache # NoCache
         /\ work' = Idle
         /\ UNCHANGED <<generation, cursor, result>>
         /\ Measure(n)
         /\ \/ cache' = cache
            \/ /\ cache' \in Windows
               /\ Len(cache'.data) <= MaxCache
               /\ cache'.gen = generation
               /\ cache'.start <= cursor
               /\ Run(cache'.data, cache'.start)
               /\ End(cache') >= End(cache)
               /\ End(cache') <= FileLen
<1> DEFINE rolled == Rolled(cache, work.drop)
           taken == Lesser(n, MaxCache - Len(rolled.data))
           tail == Bytes(work.offset, taken)
           rest == SubSeq(cache.data, work.drop + 1, Len(cache.data))
<1>1. work \in Works BY DEF FinishPrefetch, IInv, TypeOK, Idle
<1>2. /\ work.kind = "prefetch" /\ n <= work.len
      /\ Measure(n) /\ work' = Idle
      /\ cache' = cache \/ cache' = [rolled EXCEPT !.data = @ \o tail]
      /\ UNCHANGED <<generation, cursor, result>>
  BY DEF FinishPrefetch
<1>3. /\ cache # NoCache /\ work.offset = End(cache)
      /\ work.offset + work.len <= FileLen
      /\ work.drop <= Len(cache.data) /\ cache.start + work.drop <= cursor
  BY <1>2 DEF IInv, PlanFits
<1>4. /\ work.drop \in Nat /\ work.len \in Nat /\ n \in Nat /\ work.offset \in Nat
  BY <1>1, ReaderLimits DEF Works, Place
<1>data. cache.data \in Seq(Nat) /\ Run(cache.data, cache.start)
  BY <1>3, WindowFacts
<1>5. /\ cache.start \in Nat
      /\ Len(cache.data) \in Nat /\ Len(cache.data) <= MaxCache /\ cache.gen = generation
      /\ End(cache) = cache.start + Len(cache.data) /\ MaxCache \in Nat /\ FileLen \in Nat
      /\ cursor \in Nat /\ cursor <= End(cache) /\ End(cache) <= FileLen
  BY <1>3, WindowFacts, ReaderLimits
<1>6. /\ rest \in Seq(Nat) /\ Run(rest, cache.start + work.drop)
      /\ Len(rest) = Len(cache.data) - work.drop
  <2> DEFINE m == Len(cache.data) - work.drop
  <2>0. work.drop \in Nat /\ Len(cache.data) \in Nat /\ work.drop <= Len(cache.data)
    BY <1>3, <1>4, <1>5
  <2>1. m \in Nat /\ work.drop + m = Len(cache.data) /\ work.drop + m <= Len(cache.data)
    BY <2>0
  <2> HIDE DEF m
  <2>2. /\ SubSeq(cache.data, work.drop + 1, work.drop + m) \in Seq(Nat)
        /\ Len(SubSeq(cache.data, work.drop + 1, work.drop + m)) = m
        /\ Run(SubSeq(cache.data, work.drop + 1, work.drop + m), cache.start + work.drop)
    <3>1. cache.start \in Nat /\ work.drop \in Nat BY <1>4, <1>5
    <3> QED BY <1>data, <2>1, <3>1, PartRun
  <2> QED BY <2>1, <2>2 DEF m
<1>len. Len(rest) = Len(cache.data) - work.drop BY <1>6
<1>7. rolled = [gen |-> cache.gen, start |-> cache.start + work.drop, data |-> rest]
  BY DEF Rolled, Window
<1> HIDE DEF rolled, rest
<1>8. taken \in Nat /\ taken <= n /\ Len(rest) + taken <= MaxCache
  <2>1. rolled.data = rest BY <1>7
  <2>2. taken = Lesser(n, MaxCache - Len(rest)) BY <2>1
  <2> HIDE DEF taken
  <2> DEFINE k == Len(rest)
  <2>3. k \in Nat /\ k <= MaxCache /\ n \in Nat /\ MaxCache \in Nat
    BY <1>3, <1>4, <1>5, <1>len
  <2>4. taken = Lesser(n, MaxCache - k) BY <2>2
  <2> HIDE DEF k
  <2>5. taken \in Nat /\ taken <= n /\ k + taken <= MaxCache BY <2>3, <2>4 DEF Lesser
  <2> QED BY <2>5 DEF k
<1>9. /\ tail \in Seq(Nat) /\ Len(tail) = taken /\ Run(tail, work.offset)
  BY <1>4, <1>8, BytesRun
<1> HIDE DEF taken, tail
<1>10. cache.start + work.drop \in Nat /\ cache.start + work.drop + Len(rest) = work.offset
  <2>1. work.offset = cache.start + Len(cache.data) BY <1>3, <1>5
  <2>2. /\ cache.start \in Nat /\ work.drop \in Nat /\ Len(cache.data) \in Nat
        /\ work.drop <= Len(cache.data)
    BY <1>3, <1>4, <1>5
  <2>3. /\ cache.start + work.drop \in Nat
        /\ cache.start + work.drop + (Len(cache.data) - work.drop) = cache.start + Len(cache.data)
    BY <2>2, SameEnd
  <2> QED BY <1>len, <2>1, <2>3
<1>11. /\ rest \o tail \in Seq(Nat) /\ Len(rest \o tail) = Len(rest) + Len(tail)
       /\ Run(rest \o tail, cache.start + work.drop)
  BY <1>6, <1>9, <1>10, JoinedRun
<1>12. CASE cache' = cache BY <1>2, <1>3, <1>12
<1>13. CASE cache' = [rolled EXCEPT !.data = @ \o tail]
  <2>1. cache' = [gen |-> generation, start |-> cache.start + work.drop, data |-> rest \o tail]
    BY <1>5, <1>7, <1>13
  <2>2. generation \in 0 .. Generations - 1 BY DEF IInv, TypeOK
  <2>3. cache.start + work.drop <= FileLen BY <1>3, <1>4, <1>5
  <2>4. cache' \in Windows BY <1>10, <1>11, <2>1, <2>2, <2>3 DEF Windows, Place
  <2>5. /\ cache'.gen = generation /\ cache'.start = cache.start + work.drop
        /\ cache'.data = rest \o tail
    BY <2>1
  <2>6. Len(cache'.data) <= MaxCache BY <1>8, <1>9, <1>11, <2>5
  <2>7. End(cache') = work.offset + taken
    BY <1>9, <1>10, <1>11, <2>5 DEF End
  <2>8. End(cache') >= End(cache) /\ End(cache') <= FileLen
    <3>1. taken \in Nat /\ taken <= work.len /\ work.len \in Nat BY <1>4, <1>8
    <3>2. work.offset \in Nat /\ work.offset = End(cache) /\ work.offset + work.len <= FileLen
          /\ FileLen \in Nat
      BY <1>3, <1>4, <1>5
    <3> QED BY <2>7, <3>1, <3>2
  <2> QED BY <1>2, <1>3, <1>11, <2>4, <2>5, <2>6, <2>8
<1> QED BY <1>2, <1>12, <1>13

\* A finished prefetch extends the window.
LEMMA FinishPrefetchInv ==
  ASSUME IInv, NEW n \in 0 .. work.len, FinishPrefetch(n)
  PROVE  IInv'
<1>1. rate' \in Nat \cup {NoRate} BY Extended, Measured DEF IInv
<1>2. work' = Idle /\ UNCHANGED <<generation, cursor, result>> /\ cache # NoCache
  BY Extended
<1>3. TypeOK' BY <1>1, <1>2, Extended DEF IInv, TypeOK
<1>4. CacheFaithful'
  BY <1>2, Extended DEF IInv, CacheFaithful, Run, End
<1>5. CursorInWindow'
  <2>1. cursor \in Nat /\ End(cache) \in Nat /\ cursor <= End(cache) /\ cache.start <= cursor
    BY <1>2, WindowFacts
  <2>2. cache' = cache \/ (cache' \in Windows /\ cache'.start <= cursor /\ End(cache') >= End(cache))
    BY Extended
  <2>3. CASE cache' = cache BY <1>2, <2>3 DEF IInv, CursorInWindow, End
  <2>4. CASE cache' \in Windows /\ cache'.start <= cursor /\ End(cache') >= End(cache)
    <3>1. End(cache') \in Int BY <2>4 DEF Windows, Place, End
    <3> QED BY <1>2, <2>1, <2>4, <3>1 DEF CursorInWindow, NoCursor
  <2> QED BY <2>2, <2>3, <2>4
<1>6. PlanFits' /\ DemandCovered' BY <1>2 DEF PlanFits, DemandCovered, Idle
<1>7. ReadExact' BY <1>2 DEF IInv, ReadExact
<1> QED BY <1>3, <1>4, <1>5, <1>6, <1>7 DEF IInv

-----------------------------------------------------------------------------
(* Every step preserves the invariant.                                     *)

\* Every step preserves the invariant.
LEMMA StepInv == ASSUME IInv, [Next]_vars PROVE IInv'
<1>1. CASE \E offset \in 0 .. FileLen + 1 : Seek(offset) BY <1>1, ForgetInv
<1>2. CASE Invalidate BY <1>2, ForgetInv
<1>3. CASE \E offset \in 0 .. FileLen, length \in 1 .. MaxRequest :
             ReadCached(offset, length) \/ PlanRead(offset, length)
  BY <1>3, ReadCachedInv, PlanReadInv
<1>4. CASE \E hint \in 0 .. FileLen : PlanPrefetch(hint) BY <1>4, PlanPrefetchInv
<1>5. CASE \E hint \in AutomaticHints : PlanPrefetch(hint)
  <2>1. \A hint \in AutomaticHints : hint \in 0 .. FileLen
    BY ReaderLimits DEF AutomaticHints, NoCursor, IInv, TypeOK
  <2> QED BY <1>5, <2>1, PlanPrefetchInv
<1>6. CASE FetchFails BY <1>6, GiveUpInv
<1>7. CASE FinishStale BY <1>7, GiveUpInv
<1>8. CASE \E n \in 0 .. work.len : FinishRead(n) \/ FinishPrefetch(n)
  BY <1>8, FinishReadInv, FinishPrefetchInv
<1>9. CASE UNCHANGED vars
  BY <1>9 DEF vars, IInv, TypeOK, CacheFaithful, CursorInWindow, PlanFits, DemandCovered, ReadExact
<1> QED BY <1>1, <1>2, <1>3, <1>4, <1>5, <1>6, <1>7, <1>8, <1>9 DEF Next

\* The invariant holds throughout.
LEMMA InvAlways == Spec => []IInv
<1>1. IInv /\ [Next]_vars => IInv' BY StepInv
<1> QED BY InitInv, <1>1, PTL DEF Spec

-----------------------------------------------------------------------------
(***************************************************************************)
(* The reader's state keeps its shape and the window its byte budget, for  *)
(* every file, budget, pipeline and throughput.                            *)
(***************************************************************************)
THEOREM ReaderTypes == Spec => []TypeOK
<1>1. IInv => TypeOK BY DEF IInv
<1> QED BY InvAlways, <1>1, PTL

(***************************************************************************)
(* The cached window always holds the file's bytes at the places it        *)
(* claims, however it was filled, extended and rolled.                     *)
(***************************************************************************)
THEOREM ReaderFaithful == Spec => []CacheFaithful
<1>1. IInv => CacheFaithful BY DEF IInv
<1> QED BY InvAlways, <1>1, PTL

(***************************************************************************)
(* The two checked subtractions of prepare_prefetch_extension never fail:  *)
(* no history of reads, seeks, failures and prefetches leaves the playhead *)
(* outside the window.                                                     *)
(***************************************************************************)
THEOREM PrefetchPlans == Spec => []PlanArithmetic
<1>1. IInv => PlanArithmetic
  <2> SUFFICES ASSUME IInv, cache # NoCache PROVE PlanArithmetic
    BY DEF PlanArithmetic
  <2>1. cursor # NoCursor /\ cache.start <= cursor /\ cursor <= End(cache)
    BY DEF IInv, CursorInWindow
  <2>2. Playhead = cursor BY <2>1 DEF Playhead
  <2>3. cursor \in Int /\ cache.start \in Int /\ End(cache) \in Int
    BY WindowFacts
  <2>4. Playhead >= cache.start /\ Playhead <= End(cache) BY <2>1, <2>2, <2>3
  <2>5. DropPrefix \in 0 .. Len(cache.data) /\ Capacity >= 0 BY DropBound
  <2>6. Len(cache.data) <= MaxCache BY DEF IInv, TypeOK
  <2> QED BY <2>4, <2>5, <2>6 DEF PlanArithmetic
<1> QED BY InvAlways, <1>1, PTL

(***************************************************************************)
(* A foreground miss fetches all of the demand and at most one pipeline    *)
(* wave beyond it, within the file.                                        *)
(***************************************************************************)
THEOREM ReaderCoversDemand == Spec => []DemandCovered
<1>1. IInv => DemandCovered BY DEF IInv
<1> QED BY InvAlways, <1>1, PTL

(***************************************************************************)
(* What a read hands to the player is the file's bytes at the requested    *)
(* offset, complete unless the server's answer was short.                  *)
(***************************************************************************)
THEOREM ReaderExact == Spec => []ReadExact
<1>1. IInv => ReadExact BY DEF IInv
<1> QED BY InvAlways, <1>1, PTL

(***************************************************************************)
(* A prefetch, whatever its hint, never evicts a byte at or beyond the     *)
(* playback cursor and never shortens the window at its end.               *)
(***************************************************************************)
THEOREM ReaderKeepsUnconsumed == Spec => UnconsumedKept
<1> DEFINE KeptBytes == work.kind = "prefetch" /\ cache' # cache =>
                     /\ cache' # NoCache
                     /\ cache'.start <= cursor
                     /\ End(cache') >= End(cache)
<1>1. IInv /\ [Next]_vars => [KeptBytes]_vars
  <2> SUFFICES ASSUME IInv, Next, work.kind = "prefetch", cache' # cache
               PROVE  /\ cache' # NoCache
                      /\ cache'.start <= cursor
                      /\ End(cache') >= End(cache)
    OBVIOUS
  <2>1. work # Idle BY DEF Idle
  <2>2. PICK n \in 0 .. work.len : FinishPrefetch(n)
    BY <2>1 DEF Next, Seek, Invalidate, ReadCached, PlanRead, PlanPrefetch, FetchFails,
                FinishStale, FinishRead
  <2>3. /\ cache' \in Windows /\ cache'.start <= cursor
        /\ End(cache') >= End(cache)
    BY <2>2, Extended
  <2>4. cache' # NoCache BY <2>3 DEF Windows, NoCache, Place
  <2> QED BY <2>3, <2>4
<1> QED BY InvAlways, <1>1, PTL DEF Spec, UnconsumedKept

-----------------------------------------------------------------------------
(* The file below the reader: RecoveringReadOnlyFile, for every number of   *)
(* attempts, faults and changes of the file.                                *)

\* Where a call is says how many READs it has sent and which attempt it makes:
\* the first READ comes before any attempt, the replay after at least one.
Progress(c) ==
  \/ c = NoCall
  \/ c.phase \in Connecting /\ c.first /\ c.reads = 0 /\ c.attempt = 0
  \/ c.phase \in Connecting \cup {"backoff"} /\ ~c.first /\ c.reads = 1 /\ c.attempt > 0
  \/ c.phase = "sending" /\ ~c.first /\ c.reads = 0 /\ c.attempt = 0
  \/ c.phase = "sending" /\ ~c.first /\ c.reads = 1 /\ c.attempt > 0
  \/ c.phase = "reading" /\ ~c.first /\ c.reads = 1 /\ c.attempt = 0
  \/ c.phase = "reading" /\ ~c.first /\ c.reads = 2 /\ c.attempt > 0

Phases == Connecting \cup {"idle", "sending", "reading", "backoff"}

CallRecord ==
  [phase : Phases, cancelable : BOOLEAN, first : BOOLEAN, attempt : Nat, reads : Nat]

RecoveryInv ==
  /\ policy \in Nat
  /\ call \in CallRecord
  /\ Progress(call)
  /\ call.attempt <= policy
  /\ call.phase = "backoff" => call.attempt < policy

\* The end of a call.
LEMMA IdleCall ==
  /\ NoCall \in CallRecord /\ NoCall.attempt = 0 /\ NoCall.reads = 0
  /\ NoCall.phase = "idle" /\ NoCall.cancelable = FALSE /\ NoCall.first = FALSE
BY DEF NoCall, CallRecord, Phases

\* What a step does to the call: nothing, its end, another phase of connecting,
\* another attempt, another READ.
LEMMA CallSteps ==
  ASSUME RecoveryInv, FileNext
  PROVE  /\ policy' = policy
         /\ \/ call' = call
            \/ call' = NoCall
            \/ /\ call = NoCall /\ call' = [NoCall EXCEPT !.phase = "setup", !.first = TRUE]
            \/ /\ call = NoCall
               /\ \E b \in BOOLEAN : call' = [NoCall EXCEPT !.phase = "sending", !.cancelable = b]
            \/ /\ call.phase = "sending" /\ ~Dropped
               /\ call' = [call EXCEPT !.phase = "reading", !.reads = @ + 1]
            \/ /\ call.phase = "reading" /\ policy > 0 /\ call.reads = 1 /\ ~Dropped
               /\ call' = [call EXCEPT !.phase = "setup", !.attempt = 1]
            \/ /\ call.phase = "backoff" /\ ~Dropped
               /\ call' = [call EXCEPT !.phase = "setup", !.attempt = @ + 1]
            \/ /\ call.phase \in Connecting
               /\ \E p \in Connecting : call' = [call EXCEPT !.phase = p]
            \/ /\ call.phase \in Connecting /\ ~call.first /\ call.attempt < policy
               /\ call' = [call EXCEPT !.phase = "backoff"]
            \/ /\ call.phase \in Connecting /\ ~call.first
               /\ call' = [call EXCEPT !.phase = "sending"]
<1> USE DEF recipe
<1>1. CASE Connect
  BY <1>1 DEF Connect
<1>2. CASE \E cancelable \in BOOLEAN : StartRead(cancelable)
  BY <1>2 DEF StartRead
<1>3. CASE BeginRead
  BY <1>3 DEF BeginRead, EndCall
<1>4. CASE ReadSucceeds \/ ReadCancelled \/ ReadMeetsLate \/ ReadRefused
  BY <1>4 DEF ReadSucceeds, ReadCancelled, ReadMeetsLate, ReadRefused, EndCall
<1>5. CASE ReadBroken \/ ReadTimesOut
  <2>1. call.phase = "reading" /\ policy' = policy /\ Recover
    BY <1>5 DEF ReadBroken, ReadTimesOut
  <2> QED BY <2>1 DEF Recover, ShouldRecover, EndCall
<1>6. CASE Backoff
  BY <1>6 DEF Backoff, EndCall
<1>7. CASE SetUp
  BY <1>7 DEF SetUp, GoTo, Connecting
<1>8. ASSUME NEW error, Fails(error), call.phase \in Connecting, policy' = policy
      PROVE  \/ call' = NoCall
             \/ /\ call.phase \in Connecting /\ ~call.first /\ call.attempt < policy
                /\ call' = [call EXCEPT !.phase = "backoff"]
  BY <1>8 DEF Fails, GoTo, EndCall
<1>9. CASE \E error \in {"retryable", "fatal"} : ConnectFails(error)
  <2>1. PICK error : ConnectFails(error)
    BY <1>9
  <2>2. Fails(error) /\ call.phase \in Connecting /\ policy' = policy
    BY <2>1 DEF ConnectFails, Connecting
  <2> QED BY <1>8, <2>2
<1>10. CASE \E error \in {"retryable", "fatal"} : RefuseDurable(error)
  BY <1>10 DEF RefuseDurable, GoTo, Connecting
<1>11. CASE Reclaim \/ OpenDurable \/ OpenPath
  BY <1>11 DEF Reclaim, OpenDurable, OpenPath, Opened, GoTo, Connecting
<1>12. CASE ReclaimNotFound \/ ReclaimUnavailable \/ DurableNotGranted
  BY <1>12 DEF ReclaimNotFound, ReclaimUnavailable, DurableNotGranted, GoTo,
     Connecting
<1>13. CASE AcceptDurable \/ AcceptPath
  BY <1>13 DEF AcceptDurable, AcceptPath, Accept, Connecting
<1>14. CASE CloseRefused
  <2>1. Fails(conn.error) /\ call.phase \in Connecting /\ policy' = policy
    BY <1>14 DEF CloseRefused, Connecting
  <2> QED BY <1>8, <2>1
<1>15. CASE RefusePath
  <2>1. Fails("fatal") /\ call.phase \in Connecting /\ policy' = policy
    BY <1>15 DEF RefusePath, Connecting
  <2> QED BY <1>8, <2>1
<1>16. CASE DropAttempt
  BY <1>16 DEF DropAttempt, EndCall
<1>17. CASE \/ Close \/ AdvanceToken \/ ServerForgets \/ ReadSample
            \/ \E file \in Inodes, version \in Versions :
                 Modify(file, version) \/ Replace(file, version)
  BY <1>17 DEF Close, AdvanceToken, Replace, Modify, ServerForgets, ReadSample
<1> QED BY <1>1, <1>2, <1>3, <1>4, <1>5, <1>6, <1>7, <1>9, <1>10, <1>11, <1>12, <1>13, <1>14, <1>15,
           <1>16, <1>17 DEF FileNext, CallStep

\* Every step preserves it.
LEMMA RecoveryStep == RecoveryInv /\ [FileNext]_fileVars => RecoveryInv'
<1> SUFFICES ASSUME RecoveryInv, [FileNext]_fileVars
             PROVE  RecoveryInv'
  OBVIOUS
<1>0. /\ policy \in Nat /\ call \in CallRecord /\ Progress(call) /\ call.attempt \in Nat
      /\ call.attempt <= policy /\ (call.phase = "backoff" => call.attempt < policy)
  BY DEF RecoveryInv, CallRecord
<1>3. call \in CallRecord
  BY DEF RecoveryInv
<1>1. CASE UNCHANGED fileVars
  BY <1>1 DEF RecoveryInv, Progress, fileVars, recipe
<1>2. CASE FileNext
  <2>1. policy' = policy
    BY <1>2, CallSteps
  <2>2. CASE call' = call
    BY <2>1, <2>2 DEF RecoveryInv, Progress
  <2>3. CASE call' = NoCall
    BY <1>0, <2>1, <2>3, IdleCall DEF RecoveryInv, Progress
  <2>4. CASE call' = [NoCall EXCEPT !.phase = "setup", !.first = TRUE]
    <3>1. /\ call' \in CallRecord /\ call'.phase = "setup" /\ call'.first = TRUE
          /\ call'.reads = 0 /\ call'.attempt = 0
      BY <2>4 DEF CallRecord, Phases, Connecting, NoCall
    <3> QED BY <1>0, <2>1, <3>1 DEF RecoveryInv, Progress, Connecting
  <2>5. CASE \E b \in BOOLEAN : call' = [NoCall EXCEPT !.phase = "sending", !.cancelable = b]
    <3>1. /\ call' \in CallRecord /\ call'.phase = "sending" /\ call'.first = FALSE
          /\ call'.reads = 0 /\ call'.attempt = 0
      BY <2>5, IdleCall DEF CallRecord, Phases
    <3> QED BY <1>0, <2>1, <3>1 DEF RecoveryInv, Progress
  <2>6. CASE call.phase = "sending" /\ call' = [call EXCEPT !.phase = "reading", !.reads = @ + 1]
    <3>1. /\ call' \in CallRecord /\ call'.phase = "reading" /\ call'.first = call.first
          /\ call'.reads = call.reads + 1 /\ call'.attempt = call.attempt
      <4>1. PICK n : n = call.reads + 1
        OBVIOUS
      <4>2. n \in Nat /\ "reading" \in Phases
        BY <1>3, <4>1 DEF CallRecord, Phases, Connecting
      <4>3. call' = [call EXCEPT !.phase = "reading", !.reads = n]
        BY <2>6, <4>1
      <4>4. /\ call' \in CallRecord /\ call'.phase = "reading" /\ call'.first = call.first
            /\ call'.reads = n /\ call'.attempt = call.attempt
        BY <1>3, <4>2, <4>3 DEF CallRecord
      <4> QED BY <4>1, <4>4
    <3> QED BY <1>0, <2>1, <2>6, <3>1, IdleCall DEF RecoveryInv, Progress, Connecting
  <2>7. CASE /\ call.phase = "reading" /\ policy > 0 /\ call.reads = 1
             /\ call' = [call EXCEPT !.phase = "setup", !.attempt = 1]
    <3>1. /\ call' \in CallRecord /\ call'.phase = "setup" /\ call'.first = call.first
          /\ call'.reads = call.reads /\ call'.attempt = 1
      BY <1>3, <2>7 DEF CallRecord, Phases, Connecting
    <3> QED BY <1>0, <2>1, <2>7, <3>1, IdleCall DEF RecoveryInv, Progress, Connecting
  <2>8. CASE call.phase = "backoff" /\ call' = [call EXCEPT !.phase = "setup", !.attempt = @ + 1]
    <3>1. /\ call' \in CallRecord /\ call'.phase = "setup" /\ call'.first = call.first
          /\ call'.reads = call.reads /\ call'.attempt = call.attempt + 1
      <4>1. PICK n : n = call.attempt + 1
        OBVIOUS
      <4>2. n \in Nat /\ "setup" \in Phases
        BY <1>3, <4>1 DEF CallRecord, Phases, Connecting
      <4>3. call' = [call EXCEPT !.phase = "setup", !.attempt = n]
        BY <2>8, <4>1
      <4>4. /\ call' \in CallRecord /\ call'.phase = "setup" /\ call'.first = call.first
            /\ call'.attempt = n /\ call'.reads = call.reads
        BY <1>3, <4>2, <4>3 DEF CallRecord
      <4> QED BY <4>1, <4>4
    <3> QED BY <1>0, <2>1, <2>8, <3>1, IdleCall DEF RecoveryInv, Progress, Connecting
  <2>9. CASE /\ call.phase \in Connecting
             /\ \E p \in Connecting \cup {"backoff", "sending"} :
                  /\ call' = [call EXCEPT !.phase = p]
                  /\ p # "backoff" \/ (~call.first /\ call.attempt < policy)
                  /\ p # "sending" \/ ~call.first
    <3>1. PICK p \in Connecting \cup {"backoff", "sending"} :
            /\ call' = [call EXCEPT !.phase = p]
            /\ p # "backoff" \/ (~call.first /\ call.attempt < policy)
            /\ p # "sending" \/ ~call.first
      BY <2>9
    <3>2. p \in Phases
      BY DEF Phases
    <3>3. /\ call' \in CallRecord /\ call'.phase = p /\ call'.first = call.first
          /\ call'.reads = call.reads /\ call'.attempt = call.attempt
      BY <1>0, <3>1, <3>2 DEF CallRecord, Phases
    <3> QED BY <1>0, <2>1, <2>9, <3>1, <3>3, IdleCall DEF RecoveryInv, Progress, Connecting
  <2>10. CASE /\ call.phase \in Connecting /\ ~call.first /\ call.attempt < policy
              /\ call' = [call EXCEPT !.phase = "backoff"]
    BY <2>9, <2>10
  <2>11. CASE call.phase \in Connecting /\ ~call.first /\ call' = [call EXCEPT !.phase = "sending"]
    BY <2>9, <2>11
  <2>12. CASE /\ call.phase \in Connecting
              /\ \E p \in Connecting : call' = [call EXCEPT !.phase = p]
    BY <2>9, <2>12 DEF Connecting
  <2> QED BY <1>2, <2>2, <2>3, <2>4, <2>5, <2>6, <2>7, <2>8, <2>10, <2>11, <2>12, CallSteps
<1> QED BY <1>1, <1>2

\* It holds initially.
LEMMA RecoveryInit == FileInit => RecoveryInv
BY IdleCall, RecoveryLimits DEF FileInit, RecoveryInv, Progress

(***************************************************************************)
(* "the READ itself is replayed at most once": however attempts fail, are  *)
(* cancelled or succeed, a call sends at most two READs, the second only   *)
(* after a new connection, and no more attempts than the policy allows.    *)
(***************************************************************************)
THEOREM ReplayCorrect == FileSpec => []ReplayedOnce
<1>1. RecoveryInv => ReplayedOnce
  BY IdleCall DEF RecoveryInv, CallRecord, Progress, ReplayedOnce
<1> QED BY <1>1, RecoveryInit, RecoveryStep, PTL DEF FileSpec

(***************************************************************************)
(* "cancellation is never converted into a retry": once the token has      *)
(* advanced, no step of a cancellable call begins an attempt or sends a    *)
(* READ, wherever in the awaits of reconnect the call is.                  *)
(***************************************************************************)
THEOREM CancelCorrect == FileSpec => CancelStops
<1>1. RecoveryInv /\ [FileNext]_fileVars =>
        [Dropped => call'.attempt <= call.attempt /\ call'.reads <= call.reads]_fileVars
  <2> SUFFICES ASSUME RecoveryInv, FileNext, Dropped
               PROVE  call'.attempt <= call.attempt /\ call'.reads <= call.reads
    OBVIOUS
  <2>1. call \in CallRecord /\ call # NoCall
    BY IdleCall DEF RecoveryInv, Dropped
  <2>2. \/ call' = call
        \/ call' = NoCall
        \/ \E p \in Phases : call' = [call EXCEPT !.phase = p]
    BY <2>1, CallSteps DEF Phases
  <2>3. CASE call' = NoCall
    BY <2>1, <2>3, IdleCall DEF CallRecord, Phases
  <2>4. CASE call' = call \/ \E p \in Phases : call' = [call EXCEPT !.phase = p]
    BY <2>1, <2>4 DEF CallRecord, Phases
  <2> QED BY <2>2, <2>3, <2>4
<1> QED BY <1>1, RecoveryInit, RecoveryStep, PTL DEF FileSpec, CancelStops

\* What capture_file_identity has is of the file: length and time of one of its
\* versions, every sample of one of them.
Evidence(e, versions) ==
  /\ versions \subseteq Versions
  /\ e.len \in Nat
  /\ \E v \in versions : Len(v.data) = e.len /\ v.time = e.time
  /\ \A o \in DOMAIN e.samples :
       \E v \in versions :
         Covers(v.data, e.len, o) /\ e.samples[o] = Sample(v.data, e.len, o)

OpenFields == {"file", "len", "time", "samples", "error", "seen"}

\* While a file is checked, and once an identity is remembered.
CheckInv ==
  call.phase \in Checking =>
    /\ conn.file \in Inodes
    /\ DOMAIN conn = OpenFields
    /\ disk[conn.file] \in conn.seen
    /\ Evidence(conn, conn.seen)
    /\ DOMAIN conn.samples \subseteq SampleOffsets(conn.len)

RememberInv ==
  identity # NoIdentity =>
    /\ Evidence(identity, origin)
    /\ DOMAIN identity.samples = SampleOffsets(identity.len)

PlaceInv ==
  /\ path \in Inodes
  /\ handle \in Inodes \cup {NoFile}
  /\ disk \in [Inodes -> Versions]
  /\ call.phase = "reclaim" => handle # NoFile

SameInv == PlaceInv /\ CheckInv /\ RememberInv

\* The samples of a file cover its first, its middle and its last byte.
LEMMA PlacesSampled ==
  ASSUME NEW len \in Nat, NEW place \in Places(len)
  PROVE  /\ \E o \in SampleOffsets(len) : place \in o + 1 .. o + SampleLen(len, o)
         /\ place \in Nat \ {0}
<1>1. SampleBytes \in Nat /\ SampleBytes > 0
  BY RecoveryLimits
<1>2. len > 0 /\ place \in {1, len \div 2 + 1, len}
  BY DEF Places
<1>3. PICK sample : sample = Least(len, SampleBytes)
  OBVIOUS
<1>4. sample \in Nat /\ sample > 0 /\ sample <= len /\ sample <= SampleBytes
  BY <1>1, <1>2, <1>3 DEF Least
<1>5. PICK middle : middle = Least(len \div 2 - sample \div 2, len - sample)
  OBVIOUS
<1>6. /\ middle \in Nat /\ middle <= len \div 2 /\ middle <= len - sample
      /\ len \div 2 < middle + sample
  <2>1. PICK half, part : half = len \div 2 /\ part = sample \div 2
    OBVIOUS
  <2>2. /\ half \in Nat /\ part \in Nat /\ part <= half /\ half < len /\ part < sample
    BY ONLY <1>2, <1>4, <2>1, len \in Nat
  <2>3. middle = Least(half - part, len - sample)
    BY <1>5, <2>1
  <2>4. CASE half - part < len - sample
    BY ONLY <1>4, <2>1, <2>2, <2>3, <2>4, len \in Nat DEF Least
  <2>5. CASE ~(half - part < len - sample)
    BY ONLY <1>4, <2>1, <2>2, <2>3, <2>5, len \in Nat DEF Least
  <2> QED BY <2>4, <2>5
<1>7. SampleOffsets(len) = {0, middle, len - sample}
  BY <1>2, <1>3, <1>5 DEF SampleOffsets
<1>8. \A o \in {0, middle, len - sample} : SampleLen(len, o) >= sample /\ SampleLen(len, o) \in Nat
  BY <1>1, <1>3, <1>4, <1>6 DEF SampleLen, Least
<1>9. CASE place = 1
  <2>1. 1 \in 0 + 1 .. 0 + SampleLen(len, 0)
    BY <1>4, <1>8
  <2> QED BY <1>7, <1>9, <2>1
<1>10. CASE place = len \div 2 + 1
  <2>1. place \in middle + 1 .. middle + SampleLen(len, middle) /\ place \in Nat \ {0}
    BY <1>4, <1>6, <1>8, <1>10
  <2> QED BY <1>7, <2>1
<1>11. CASE place = len
  <2>1. place \in (len - sample) + 1 .. (len - sample) + SampleLen(len, len - sample)
    BY <1>4, <1>8, <1>11
  <2> QED BY <1>2, <1>7, <1>11, <2>1
<1> QED BY <1>2, <1>9, <1>10, <1>11

\* The file that is accepted agrees with the one remembered.
LEMMA EvidenceAgrees ==
  ASSUME NEW e, NEW f, NEW first, NEW now,
         Evidence(e, first), Evidence(f, now), IsCompatible(e, f),
         DOMAIN f.samples = SampleOffsets(f.len)
  PROVE  SameFile(first, now)
<1>1. PICK u \in first : Len(u.data) = e.len /\ u.time = e.time
  BY DEF Evidence
<1>2. PICK v \in now : Len(v.data) = f.len /\ v.time = f.time
  BY DEF Evidence
<1>3. Len(u.data) = Len(v.data) /\ TimestampMatches(u.time, v.time)
  BY <1>1, <1>2 DEF IsCompatible
<1>4. ASSUME NEW place \in Places(Len(v.data))
      PROVE  \E x \in first, y \in now :
               /\ place \in DOMAIN x.data /\ place \in DOMAIN y.data
               /\ x.data[place] = y.data[place]
  <2>1. f.len \in Nat /\ place \in Places(f.len)
    BY <1>2 DEF Evidence
  <2>2. PICK o \in SampleOffsets(f.len) : place \in o + 1 .. o + SampleLen(f.len, o)
    BY <2>1, PlacesSampled
  <2>3. place \in Nat \ {0}
    BY <2>1, PlacesSampled
  <2>4. PICK y \in now : Covers(y.data, f.len, o) /\ f.samples[o] = Sample(y.data, f.len, o)
    BY <2>2 DEF Evidence
  <2>5. PICK x \in first : Covers(x.data, e.len, o) /\ e.samples[o] = Sample(x.data, e.len, o)
    BY <2>2 DEF Evidence, IsCompatible
  <2>6. e.len = f.len /\ e.samples = f.samples
    BY DEF IsCompatible
  <2>7. Sample(x.data, f.len, o) = Sample(y.data, f.len, o)
    BY <2>4, <2>5, <2>6
  <2>8. Sample(x.data, f.len, o)[place] = x.data[place]
        /\ Sample(y.data, f.len, o)[place] = y.data[place]
    BY <2>2 DEF Sample
  <2>9. x.data \in Seq(Nat) /\ y.data \in Seq(Nat)
    BY RecoveryLimits DEF Evidence
  <2>10. o \in Int /\ SampleLen(f.len, o) \in Int
    <3>1. o \in Int
      BY <2>1, <2>2, RecoveryLimits DEF SampleOffsets, Least
    <3> QED BY <2>1, <3>1, RecoveryLimits DEF SampleLen, Least
  <2>11. place <= Len(x.data) /\ place <= Len(y.data)
    BY <2>2, <2>3, <2>4, <2>5, <2>6, <2>9, <2>10 DEF Covers
  <2>12. place \in DOMAIN x.data /\ place \in DOMAIN y.data
    BY <2>3, <2>9, <2>11
  <2> QED BY <2>7, <2>8, <2>12
<1> QED BY <1>3, <1>4 DEF SameFile

\* What a step does to the file that is checked and to the identity remembered:
\* nothing; an open given up or not yet made; an open, a sample, an acceptance, a
\* change by others.
KeepsFiles == path' = path /\ disk' = disk /\ handle' \in {handle, NoFile}
KeepsIdentity == identity' = identity /\ origin' = origin

LEMMA SameSteps ==
  ASSUME RecoveryInv, PlaceInv, FileNext
  PROVE  \/ KeepsFiles /\ KeepsIdentity /\ UNCHANGED <<call, conn, handle>>
         \/ /\ KeepsFiles /\ KeepsIdentity
            /\ call'.phase \notin Checking
            /\ call'.phase = "reclaim" => handle' # NoFile
         \/ \E file \in Inodes, p \in Checking :
              KeepsFiles /\ KeepsIdentity /\ Opened(file, p)
         \/ KeepsFiles /\ KeepsIdentity /\ handle' = handle /\ ReadSample
         \/ AcceptDurable
         \/ AcceptPath
         \/ \E file \in Inodes, version \in Versions :
              Modify(file, version) \/ Replace(file, version)
<1> USE DEF recipe, serverSide, KeepsFiles, KeepsIdentity
<1>0. call \in CallRecord /\ NoCall.phase = "idle"
  BY IdleCall DEF RecoveryInv
<1>1. ASSUME NEW p PROVE [call EXCEPT !.phase = p].phase = p
  BY <1>0 DEF CallRecord
<1>2. \A error : EndCall(error) => call'.phase = "idle"
  BY <1>0 DEF EndCall
<1>3. \A error : Fails(error) => call'.phase \in {"idle", "backoff"}
  BY <1>1, <1>2 DEF Fails, GoTo
<1>4. CASE Connect \/ \E cancelable \in BOOLEAN : StartRead(cancelable)
  BY <1>4 DEF Connect, StartRead, NoCall, Checking
<1>5. CASE BeginRead \/ Backoff
  BY <1>1, <1>2, <1>5, <1>0 DEF BeginRead, Backoff, Checking, CallRecord
<1>6. CASE ReadSucceeds \/ ReadCancelled \/ ReadMeetsLate \/ ReadRefused
  BY <1>2, <1>6 DEF ReadSucceeds, ReadCancelled, ReadMeetsLate, ReadRefused, Checking
<1>7. CASE ReadBroken \/ ReadTimesOut
  <2>1. Recover => call'.phase \in {"idle", "setup"}
    BY <1>0, <1>2 DEF Recover, CallRecord
  <2> QED BY <1>7, <2>1 DEF ReadBroken, ReadTimesOut, Checking
<1>8. CASE SetUp
  <2>1. call'.phase = (CASE enabled /\ handle # NoFile -> "reclaim"
                         [] enabled /\ handle = NoFile /\ ~unavailable -> "openDurable"
                         [] OTHER -> "openPath")
    BY <1>1, <1>8 DEF SetUp, GoTo
  <2>2. KeepsFiles /\ KeepsIdentity /\ handle' = handle
    BY <1>8 DEF SetUp
  <2>3. CASE handle # NoFile
    <3>1. call'.phase \in {"reclaim", "openDurable", "openPath"}
      BY <2>1, <2>3
    <3> QED BY <2>2, <2>3, <3>1 DEF Checking
  <2>4. CASE handle = NoFile
    <3>1. call'.phase \in {"openDurable", "openPath"}
      BY <2>1, <2>4
    <3> QED BY <2>2, <3>1 DEF Checking
  <2> QED BY <2>3, <2>4
<1>9. CASE \E error \in {"retryable", "fatal"} : ConnectFails(error)
  BY <1>3, <1>9 DEF ConnectFails, Checking
<1>10. CASE CloseRefused \/ RefusePath
  BY <1>3, <1>10 DEF CloseRefused, RefusePath, Checking
<1>11. CASE \E error \in {"retryable", "fatal"} : RefuseDurable(error)
  BY <1>1, <1>11 DEF RefuseDurable, GoTo, Checking
<1>12. CASE Reclaim
  <2>1. handle \in Inodes
    BY <1>12 DEF Reclaim, PlaceInv
  <2> QED BY <1>12, <2>1 DEF Reclaim, Checking
<1>13. CASE OpenDurable \/ OpenPath
  <2>1. path \in Inodes
    BY DEF PlaceInv
  <2> QED BY <1>13, <2>1 DEF OpenDurable, OpenPath, Checking
<1>14. CASE ReclaimNotFound \/ ReclaimUnavailable \/ DurableNotGranted
  BY <1>1, <1>14 DEF ReclaimNotFound, ReclaimUnavailable, DurableNotGranted, GoTo, Checking
<1>15. CASE DropAttempt
  BY <1>2, <1>15 DEF DropAttempt, Checking
<1>16. CASE ReadSample
  BY <1>16 DEF ReadSample
<1>17. CASE Close \/ AdvanceToken \/ ServerForgets
  BY <1>17 DEF Close, AdvanceToken, ServerForgets
<1> QED BY <1>4, <1>5, <1>6, <1>7, <1>8, <1>9, <1>10, <1>11, <1>12, <1>13, <1>14, <1>15, <1>16,
           <1>17 DEF FileNext, CallStep

\* Reading one sample keeps the evidence.
LEMMA SampleStep ==
  ASSUME SameInv, ReadSample, disk' = disk
  PROVE  CheckInv'
<1>1. /\ call.phase \in Checking /\ call' = call
      /\ conn.file \in Inodes /\ DOMAIN conn = OpenFields /\ disk[conn.file] \in conn.seen
      /\ Evidence(conn, conn.seen) /\ DOMAIN conn.samples \subseteq SampleOffsets(conn.len)
  BY DEF ReadSample, SameInv, CheckInv
<1>2. PICK offset \in Unread :
        /\ Covers(disk[conn.file].data, conn.len, offset)
        /\ conn' = [conn EXCEPT !.samples =
                      [o \in DOMAIN @ \cup {offset} |->
                         IF o = offset THEN Sample(disk[conn.file].data, conn.len, offset)
                         ELSE @[o]]]
  BY DEF ReadSample
<1>3. PICK samples : samples = [o \in DOMAIN conn.samples \cup {offset} |->
                         IF o = offset THEN Sample(disk[conn.file].data, conn.len, offset)
                         ELSE conn.samples[o]]
  OBVIOUS
<1>4. /\ DOMAIN conn' = OpenFields
      /\ conn'.file = conn.file /\ conn'.len = conn.len /\ conn'.time = conn.time
      /\ conn'.seen = conn.seen /\ conn'.samples = samples
  BY <1>1, <1>2, <1>3 DEF OpenFields
<1>5. /\ DOMAIN samples = DOMAIN conn.samples \cup {offset}
      /\ samples[offset] = Sample(disk[conn.file].data, conn.len, offset)
      /\ \A o \in DOMAIN conn.samples : o # offset => samples[o] = conn.samples[o]
  BY <1>3
<1>6. DOMAIN samples \subseteq SampleOffsets(conn.len)
  BY <1>1, <1>2, <1>5 DEF Unread
<1>7. ASSUME NEW o \in DOMAIN samples
      PROVE  \E v \in conn.seen :
               Covers(v.data, conn.len, o) /\ samples[o] = Sample(v.data, conn.len, o)
  <2>1. CASE o = offset
    BY <1>1, <1>2, <1>5, <2>1
  <2>2. CASE o # offset
    BY <1>1, <1>5, <1>7, <2>2 DEF Evidence
  <2> QED BY <2>1, <2>2
<1>8. Evidence(conn', conn'.seen)
  BY <1>1, <1>4, <1>7 DEF Evidence
<1> QED BY <1>1, <1>4, <1>6, <1>8 DEF CheckInv

\* A change by others keeps it too: what the file was, it has been.
LEMMA ChangeStep ==
  ASSUME SameInv, NEW file \in Inodes, NEW version \in Versions,
         Modify(file, version) \/ Replace(file, version)
  PROVE  CheckInv' /\ PlaceInv' /\ KeepsIdentity
<1>1. /\ KeepsIdentity /\ call' = call /\ handle' = handle
      /\ path' \in {path, file} /\ disk' = [disk EXCEPT ![file] = version]
      /\ \/ conn' = [conn EXCEPT !.seen = @ \cup {version}]
         \/ conn' = conn /\ conn.file # file
  BY DEF Modify, Replace, recipe, KeepsIdentity
<1>2. PlaceInv'
  BY <1>1 DEF SameInv, PlaceInv
<1>3. ASSUME call.phase \in Checking
      PROVE  /\ conn'.file \in Inodes /\ DOMAIN conn' = OpenFields
             /\ disk'[conn'.file] \in conn'.seen /\ Evidence(conn', conn'.seen)
             /\ DOMAIN conn'.samples \subseteq SampleOffsets(conn'.len)
  <2>1. /\ conn.file \in Inodes /\ DOMAIN conn = OpenFields /\ disk[conn.file] \in conn.seen
        /\ Evidence(conn, conn.seen) /\ DOMAIN conn.samples \subseteq SampleOffsets(conn.len)
    BY <1>3 DEF SameInv, CheckInv
  <2>2. disk \in [Inodes -> Versions]
    BY DEF SameInv, PlaceInv
  <2>3. CASE conn' = conn /\ conn.file # file
    BY <1>1, <2>1, <2>2, <2>3
  <2>4. CASE conn' = [conn EXCEPT !.seen = @ \cup {version}]
    <3>1. /\ DOMAIN conn' = OpenFields
          /\ conn'.file = conn.file /\ conn'.len = conn.len /\ conn'.time = conn.time
          /\ conn'.seen = conn.seen \cup {version} /\ conn'.samples = conn.samples
      BY <2>1, <2>4 DEF OpenFields
    <3>2. disk'[conn.file] \in {disk[conn.file], version}
      BY <1>1, <2>1, <2>2
    <3>3. Evidence(conn', conn'.seen)
      BY <2>1, <3>1 DEF Evidence
    <3> QED BY <2>1, <3>1, <3>2, <3>3
  <2> QED BY <1>1, <2>3, <2>4
<1> QED BY <1>1, <1>2, <1>3 DEF CheckInv

\* The accepted file: what is remembered is of it, or agrees with it.
LEMMA AcceptStep ==
  ASSUME SameInv, call.phase \in Checking, Validates, Accept
  PROVE  RememberInv' /\ SameFile(origin', conn.seen)
<1>1. Evidence(conn, conn.seen) /\ DOMAIN conn.samples \subseteq SampleOffsets(conn.len)
  BY DEF SameInv, CheckInv
<1>2. DOMAIN conn.samples = SampleOffsets(conn.len)
  BY <1>1 DEF Validates, Unread
<1>3. /\ Captured.len = conn.len /\ Captured.time = conn.time
      /\ Captured.samples = conn.samples
  BY DEF Captured
<1>4. Evidence(Captured, conn.seen) /\ DOMAIN Captured.samples = SampleOffsets(Captured.len)
  BY <1>1, <1>2, <1>3 DEF Evidence
<1>5. CASE identity = NoIdentity
  <2>1. identity' = Captured /\ origin' = conn.seen
    BY <1>5 DEF Accept
  <2>2. IsCompatible(Captured, Captured)
    BY DEF IsCompatible, TimestampMatches
  <2>3. SameFile(conn.seen, conn.seen)
    BY <1>4, <2>2, EvidenceAgrees
  <2> QED BY <1>4, <2>1, <2>3 DEF RememberInv
<1>6. CASE identity # NoIdentity
  <2>1. identity' = identity /\ origin' = origin /\ IsCompatible(identity, Captured)
    BY <1>6 DEF Accept, Validates
  <2>2. RememberInv' /\ Evidence(identity, origin)
    BY <1>6, <2>1 DEF SameInv, RememberInv
  <2> QED BY <1>4, <2>1, <2>2, EvidenceAgrees
<1> QED BY <1>5, <1>6

\* Every step preserves it.
LEMMA SameStep == RecoveryInv /\ SameInv /\ [FileNext]_fileVars => SameInv'
<1> SUFFICES ASSUME RecoveryInv, SameInv, [FileNext]_fileVars
             PROVE  SameInv'
  OBVIOUS
<1>1. CASE UNCHANGED fileVars
  BY <1>1 DEF SameInv, PlaceInv, CheckInv, RememberInv, fileVars, recipe, serverSide
<1>2. CASE KeepsFiles /\ KeepsIdentity /\ UNCHANGED <<call, conn, handle>>
  BY <1>2 DEF SameInv, PlaceInv, CheckInv, RememberInv, KeepsFiles, KeepsIdentity
<1>3. CASE /\ KeepsFiles /\ KeepsIdentity /\ call'.phase \notin Checking
           /\ call'.phase = "reclaim" => handle' # NoFile
  BY <1>3 DEF SameInv, PlaceInv, CheckInv, RememberInv, KeepsFiles, KeepsIdentity
<1>4. CASE \E file \in Inodes, p \in Checking :
             KeepsFiles /\ KeepsIdentity /\ Opened(file, p)
  <2>1. PICK file \in Inodes, p \in Checking :
          KeepsFiles /\ KeepsIdentity /\ Opened(file, p)
    BY <1>4
  <2>2. call'.phase = p
    BY <2>1 DEF Opened, GoTo, RecoveryInv, CallRecord
  <2>3. /\ conn'.file = file /\ conn'.len = Len(disk[file].data)
        /\ conn'.time = disk[file].time /\ DOMAIN conn'.samples = {}
        /\ conn'.seen = {disk[file]} /\ DOMAIN conn' = OpenFields
    BY <2>1 DEF Opened, OpenFields
  <2>4. disk[file] \in Versions /\ Len(disk[file].data) \in Nat
    BY RecoveryLimits DEF SameInv, PlaceInv
  <2>5. Evidence(conn', conn'.seen)
    BY <2>3, <2>4 DEF Evidence
  <2>6. CheckInv'
    BY <2>1, <2>3, <2>5 DEF CheckInv, KeepsFiles
  <2>7. PlaceInv' /\ RememberInv'
    BY <2>1, <2>2 DEF SameInv, PlaceInv, RememberInv, KeepsFiles, KeepsIdentity, Checking
  <2> QED BY <2>6, <2>7 DEF SameInv
<1>5. CASE KeepsFiles /\ KeepsIdentity /\ handle' = handle /\ ReadSample
  <2>1. CheckInv'
    BY <1>5, SampleStep DEF KeepsFiles
  <2>2. PlaceInv' /\ RememberInv'
    BY <1>5 DEF SameInv, PlaceInv, RememberInv, KeepsFiles, KeepsIdentity, ReadSample
  <2> QED BY <2>1, <2>2 DEF SameInv
<1>6. CASE AcceptDurable \/ AcceptPath
  <2>1. /\ call.phase \in Checking /\ Validates /\ Accept
        /\ path' = path /\ disk' = disk /\ handle' \in {handle, conn.file}
    BY <1>6 DEF AcceptDurable, AcceptPath, Checking, serverSide
  <2>2. RememberInv'
    BY <2>1, AcceptStep
  <2>3. call'.phase \in {"idle", "sending"}
    BY <2>1 DEF Accept, NoCall, RecoveryInv, CallRecord
  <2>4. CheckInv' /\ PlaceInv'
    BY <2>1, <2>3 DEF SameInv, PlaceInv, CheckInv, Checking
  <2> QED BY <2>2, <2>4 DEF SameInv
<1>7. CASE \E file \in Inodes, version \in Versions :
             Modify(file, version) \/ Replace(file, version)
  <2>1. CheckInv' /\ PlaceInv' /\ KeepsIdentity
    BY <1>7, ChangeStep
  <2> QED BY <2>1 DEF SameInv, RememberInv, KeepsIdentity
<1> QED
  <2>1. PlaceInv
    BY DEF SameInv
  <2> QED BY <1>1, <1>2, <1>3, <1>4, <1>5, <1>6, <1>7, <2>1, SameSteps

LEMMA SameInit == FileInit => SameInv
BY RecoveryLimits, IdleCall DEF FileInit, SameInv, PlaceInv, CheckInv, RememberInv, Checking

(***************************************************************************)
(* "a different file at the same path is never silently accepted": for any *)
(* versions of any files, samples of any size and any number of changes    *)
(* between CREATE and the samples and among the samples, an accepted file  *)
(* had the length, a matching time and the first, middle and last byte of  *)
(* the file first accepted; all at once if nobody wrote to it meanwhile.   *)
(***************************************************************************)
THEOREM SameFileCorrect == FileSpec => AcceptedSame
<1>1. RecoveryInv /\ SameInv /\ [FileNext]_fileVars =>
        [call.phase \in Connecting /\ session' # session =>
           SameFile(origin', conn.seen)]_fileVars
  <2> SUFFICES ASSUME RecoveryInv, SameInv, FileNext, call.phase \in Connecting,
                      session' # session
               PROVE  SameFile(origin', conn.seen)
    OBVIOUS
  <2>1. CASE AcceptDurable \/ AcceptPath
    <3>1. call.phase \in Checking /\ Validates /\ Accept
      BY <2>1 DEF AcceptDurable, AcceptPath, Checking
    <3> QED BY <3>1, AcceptStep
  <2>2. \/ AcceptDurable \/ AcceptPath \/ call = NoCall
        \/ call.phase \in {"reading", "idle"} \/ session' = session
    <3>1. CASE BeginRead \/ Backoff \/ SetUp \/ Reclaim \/ ReclaimNotFound
               \/ ReclaimUnavailable \/ OpenDurable \/ DurableNotGranted
      BY <3>1 DEF BeginRead, Backoff, SetUp, Reclaim, ReclaimNotFound,
         ReclaimUnavailable, OpenDurable, DurableNotGranted
    <3>2. CASE \/ OpenPath \/ CloseRefused \/ RefusePath \/ DropAttempt
               \/ \E error \in {"retryable", "fatal"} :
                    ConnectFails(error) \/ RefuseDurable(error)
      BY <3>2 DEF OpenPath, CloseRefused, RefusePath, DropAttempt,
         ConnectFails, RefuseDurable
    <3>3. CASE ReadSucceeds \/ ReadCancelled \/ ReadMeetsLate \/ ReadRefused
               \/ ReadBroken \/ ReadTimesOut
      BY <3>3 DEF ReadSucceeds, ReadCancelled, ReadMeetsLate, ReadRefused,
         ReadBroken, ReadTimesOut
    <3>4. CASE Connect \/ Close \/ \E cancelable \in BOOLEAN : StartRead(cancelable)
      BY <3>4 DEF Connect, Close, StartRead
    <3>5. CASE \/ AdvanceToken \/ ServerForgets \/ ReadSample
               \/ \E file \in Inodes, version \in Versions :
                    Modify(file, version) \/ Replace(file, version)
      BY <3>5 DEF AdvanceToken, ServerForgets, ReadSample, Replace, Modify
    <3> QED BY <3>1, <3>2, <3>3, <3>4, <3>5 DEF FileNext, CallStep
  <2>3. call # NoCall /\ call.phase \notin {"reading", "idle"}
    BY DEF Connecting, NoCall
  <2> QED BY <2>1, <2>2, <2>3
<1>2. FileInit => RecoveryInv /\ SameInv
  BY RecoveryInit, SameInit
<1>3. RecoveryInv /\ SameInv /\ [FileNext]_fileVars => (RecoveryInv /\ SameInv)'
  BY RecoveryStep, SameStep
<1> QED BY <1>1, <1>2, <1>3, PTL DEF FileSpec, AcceptedSame

-----------------------------------------------------------------------------
(* The READs below that file: read_at_pipelined_cancelable_with_options,    *)
(* for every pipeline, credit grant, generation and number of calls.        *)

\* The inductive invariant: what a READ, a response and a CANCEL are, ...
Statuses == {"data", "short", "error", "cancelled"}
PendingRead ==
  [mid : Nat, place : Nat, async : BOOLEAN, asked : {"no", "sync", "async"},
   status : {"none"} \cup Statuses]
Response == [mid : Nat, status : {"pending"} \cup Statuses, credits : Grants]
CancelRequest == [mid : Nat, async : BOOLEAN]

WaveTypes ==
  /\ phase \in {"idle", "wave", "fill", "check", "arm", "load", "wait", "changed"}
  /\ reads \in Nat /\ cancelled \in BOOLEAN /\ unasked \in BOOLEAN /\ faulty \in BOOLEAN
  /\ out \in Seq(Nat) /\ pending \in Seq(PendingRead)
  /\ inbox \in Seq(Response) /\ cancels \in Seq(CancelRequest)
  /\ server = [m \in DOMAIN server |-> server[m]] /\ DOMAIN server \subseteq Nat

\* Some READ of the wave without an answer has this MessageId.
Awaited(m) == \E i \in DOMAIN pending : Outstanding(i) /\ pending[i].mid = m

\* What the server has or has sent is awaited; a final answer is its last word.
Owed ==
  ~faulty =>
    /\ \A m \in DOMAIN server : Awaited(m)
    /\ \A k \in DOMAIN inbox : Awaited(inbox[k].mid)
    /\ \A k \in DOMAIN inbox : inbox[k].status # "pending" =>
         /\ inbox[k].mid \notin DOMAIN server
         /\ \A l \in DOMAIN inbox : k < l => inbox[l].mid # inbox[k].mid

\* Between waves nothing is awaited.
Between ==
  /\ phase \in {"idle", "wave"} => AllDone
  /\ phase = "idle" => pending = << >>
  /\ phase = "fill" => ~cancelled
  /\ faulty => phase = "idle"

\* The READs of a wave follow the chunks of the waves before.
Placed ==
  /\ \A i \in DOMAIN out : out[i] = i - 1
  /\ Len(out) <= Target
  /\ phase \notin {"idle", "wave"} =>
       /\ Len(out) + Len(pending) <= Target
       /\ \A i \in DOMAIN pending : pending[i].place = Len(out) + i - 1
  /\ phase = "idle" /\ returned = "ok" => Len(out) = Target

\* Nothing was cancelled before the wave was.
Asked ==
  /\ \A i \in DOMAIN pending : pending[i].mid <= reads
  /\ \A c \in DOMAIN cancels : cancels[c].mid <= reads
  /\ \A c \in DOMAIN cancels, i \in DOMAIN pending : cancels[c].mid = pending[i].mid => cancelled
  /\ ~faulty /\ ~unasked =>
       /\ \A k \in DOMAIN inbox : inbox[k].status = "cancelled" => cancelled
       /\ cancelled => \A i \in DOMAIN pending : Outstanding(i) =>
            pending[i].asked = "async" \/ (pending[i].asked = "sync" /\ ~pending[i].async)

WaveInv == WaveTypes /\ Owed /\ Between /\ Placed /\ Asked

-----------------------------------------------------------------------------
(* The sequences and the sets of the wave.                                 *)

\* The set of READs of the wave that a condition selects is finite and no
\* larger than the wave.
LEMMA Selected ==
  ASSUME WaveTypes, NEW S \in SUBSET DOMAIN pending
  PROVE  /\ IsFiniteSet(S) /\ Cardinality(S) \in Nat
         /\ Cardinality(S) <= Len(pending)
         /\ S = DOMAIN pending => Cardinality(S) = Len(pending)
<1>1. DOMAIN pending = 1 .. Len(pending) /\ Len(pending) \in Nat BY DEF WaveTypes
<1>2. IsFiniteSet(1 .. Len(pending)) /\ Cardinality(1 .. Len(pending)) = Len(pending)
  BY <1>1, FS_Interval
<1>3. S \subseteq 1 .. Len(pending) BY <1>1
<1>4. IsFiniteSet(S) /\ Cardinality(S) <= Cardinality(1 .. Len(pending)) BY <1>2, <1>3, FS_Subset
<1> QED BY <1>1, <1>2, <1>4, FS_CardinalityType

\* A function on 1 .. n is a sequence.
LEMMA Tabulated ==
  ASSUME NEW S, NEW n \in Nat, NEW f, f = [i \in 1 .. n |-> f[i]], \A i \in 1 .. n : f[i] \in S
  PROVE  f \in Seq(S) /\ Len(f) = n
OBVIOUS

\* A run of numbers from 0 and the numbers that follow it are a run from 0.
LEMMA RunGrows ==
  ASSUME NEW s \in Seq(Nat), NEW t \in Seq(Nat), \A i \in DOMAIN s : s[i] = i - 1,
         \A i \in DOMAIN t : t[i] = Len(s) + i - 1
  PROVE  \A u : u = s \o t =>
           /\ u \in Seq(Nat) /\ Len(u) = Len(s) + Len(t)
           /\ \A i \in DOMAIN u : u[i] = i - 1
<1> TAKE u
<1> HAVE u = s \o t
<1>1. u \in Seq(Nat) /\ Len(u) = Len(s) + Len(t) /\ DOMAIN u = 1 .. Len(s) + Len(t) OBVIOUS
<1>2. \A i \in DOMAIN u : u[i] = i - 1
  <2> TAKE i \in DOMAIN u
  <2>1. i \in 1 .. Len(s) + Len(t) BY <1>1
  <2>2. CASE i <= Len(s)
    <3>1. u[i] = s[i] /\ i \in DOMAIN s BY <2>1, <2>2
    <3> QED BY <3>1
  <2>3. CASE i > Len(s)
    <3>1. u[i] = t[i - Len(s)] /\ i - Len(s) \in DOMAIN t BY <2>1, <2>3
    <3>2. Len(s) + (i - Len(s)) - 1 = i - 1 BY <2>1
    <3> QED BY <3>1, <3>2
  <2> QED BY <2>1, <2>2, <2>3
<1> QED BY <1>1, <1>2

\* What a READ of the wave is made of, and its updates.
LEMMA ReadFields ==
  ASSUME NEW r \in PendingRead
  PROVE  /\ r.mid \in Nat /\ r.place \in Nat /\ r.async \in BOOLEAN
         /\ r.asked \in {"no", "sync", "async"} /\ r.status \in {"none"} \cup Statuses
BY DEF PendingRead

LEMMA ReadAsked ==
  ASSUME NEW r \in PendingRead, NEW a \in {"no", "sync", "async"}
  PROVE  \A q : q = [r EXCEPT !.asked = a] =>
         /\ q \in PendingRead
         /\ q.mid = r.mid /\ q.place = r.place /\ q.async = r.async /\ q.status = r.status
         /\ q.asked = a
BY DEF PendingRead

LEMMA ReadAnswered ==
  ASSUME NEW r \in PendingRead, NEW s \in Statuses
  PROVE  \A q : q = [r EXCEPT !.status = s] =>
         /\ q \in PendingRead
         /\ q.mid = r.mid /\ q.place = r.place /\ q.async = r.async /\ q.status = s
         /\ q.asked = r.asked
BY DEF PendingRead

\* Nothing is awaited: nothing is with the server or under way.
LEMMA NothingOwed ==
  ASSUME WaveInv, AllDone, ~faulty
  PROVE  DOMAIN server = {} /\ DOMAIN inbox = {}
BY DEF WaveInv, Owed, Awaited, AllDone

\* Cancelling asks for the outstanding READs, each in the form that is known,
\* and changes nothing else of them.
LEMMA Cancelling ==
  ASSUME WaveInv, SendCancels
  PROVE  /\ cancels' \in Seq(CancelRequest)
         /\ \A c \in DOMAIN cancels' : cancels'[c].mid <= reads
         /\ pending' \in Seq(PendingRead) /\ DOMAIN pending' = DOMAIN pending
         /\ Len(pending') = Len(pending)
         /\ \A i \in DOMAIN pending :
              /\ pending'[i].mid = pending[i].mid /\ pending'[i].place = pending[i].place
              /\ pending'[i].status = pending[i].status
              /\ pending'[i].status = "none" =>
                   \/ pending'[i].asked = "async"
                   \/ pending'[i].asked = "sync" /\ ~pending'[i].async
<1> USE DEF WaveInv, WaveTypes
<1>1. /\ cancels' \in Seq(CancelRequest)
      /\ \A c \in DOMAIN cancels' : cancels'[c].mid <= reads
  <2> DEFINE left == {i \in DOMAIN pending : Outstanding(i)}
  <2>1. PICK order \in [1 .. Cardinality(left) -> left] :
          cancels' = cancels \o [i \in DOMAIN order |->
            [mid |-> pending[order[i]].mid, async |-> pending[order[i]].async]]
    BY DEF SendCancels
  <2> DEFINE asks == [i \in DOMAIN order |->
                        [mid |-> pending[order[i]].mid, async |-> pending[order[i]].async]]
  <2>2. Cardinality(left) \in Nat BY Selected
  <2>3. \A i \in 1 .. Cardinality(left) : order[i] \in DOMAIN pending BY <2>1
  <2>4. \A j \in DOMAIN pending : /\ pending[j].mid \in Nat /\ pending[j].async \in BOOLEAN
                                  /\ pending[j].mid <= reads
    <3> TAKE j \in DOMAIN pending
    <3>1. pending[j] \in PendingRead OBVIOUS
    <3> QED BY <3>1, ReadFields DEF Asked
  <2> HIDE DEF left
  <2>5. asks \in Seq(CancelRequest)
    <3>1. \A i \in 1 .. Cardinality(left) : asks[i] \in CancelRequest
      BY <2>1, <2>3, <2>4 DEF CancelRequest
    <3>2. asks = [i \in 1 .. Cardinality(left) |-> asks[i]] BY <2>1
    <3> HIDE DEF asks
    <3> QED BY <2>2, <3>1, <3>2, Tabulated
  <2>6. \A i \in DOMAIN asks : asks[i].mid <= reads BY <2>1, <2>3, <2>4
  <2>7. cancels' = cancels \o asks BY <2>1
  <2> HIDE DEF asks
  <2>8. \A c \in DOMAIN cancels : cancels[c].mid <= reads BY DEF Asked
  <2>9. cancels \in Seq(CancelRequest) OBVIOUS
  <2>10. \A c \in DOMAIN cancels' :
           cancels'[c] = IF c <= Len(cancels) THEN cancels[c] ELSE asks[c - Len(cancels)]
    BY <2>5, <2>7, <2>9
  <2> QED BY <2>5, <2>6, <2>7, <2>8, <2>9, <2>10
<1>2. /\ DOMAIN pending' = DOMAIN pending
      /\ \A i \in DOMAIN pending : pending'[i] =
           IF Outstanding(i) THEN [pending[i] EXCEPT !.asked = AskForm(pending[i])] ELSE pending[i]
  BY DEF SendCancels
<1>3. \A i \in DOMAIN pending : pending[i] \in PendingRead OBVIOUS
<1>4. \A i \in DOMAIN pending :
              /\ pending'[i] \in PendingRead
              /\ pending'[i].mid = pending[i].mid /\ pending'[i].place = pending[i].place
              /\ pending'[i].status = pending[i].status
              /\ pending'[i].status = "none" =>
                   \/ pending'[i].asked = "async"
                   \/ pending'[i].asked = "sync" /\ ~pending'[i].async
  <2> TAKE i \in DOMAIN pending
  <2>1. AskForm(pending[i]) \in {"no", "sync", "async"} BY DEF AskForm
  <2>2. pending[i] \in PendingRead BY <1>3
  <2> DEFINE a == AskForm(pending[i])
             q == [pending[i] EXCEPT !.asked = a]
  <2>3. /\ q \in PendingRead
        /\ q.mid = pending[i].mid /\ q.place = pending[i].place /\ q.async = pending[i].async
        /\ q.status = pending[i].status /\ q.asked = a
    <3>1. a \in {"no", "sync", "async"} BY <2>1
    <3> HIDE DEF a
    <3>2. q = [pending[i] EXCEPT !.asked = a] OBVIOUS
    <3> HIDE DEF q
    <3> QED BY <3>1, <3>2, <2>2, ReadAsked
  <2>4. pending'[i] = IF Outstanding(i) THEN q ELSE pending[i] BY <1>2
  <2> HIDE DEF q
  <2> QED BY <2>2, <2>3, <2>4, ReadFields DEF Outstanding, AskForm
<1>5. pending' \in Seq(PendingRead) /\ Len(pending') = Len(pending)
  <2>1. pending' = [i \in 1 .. Len(pending) |-> pending'[i]] BY <1>2 DEF SendCancels
  <2>2. Len(pending) \in Nat /\ DOMAIN pending = 1 .. Len(pending) OBVIOUS
  <2>3. \A i \in 1 .. Len(pending) : pending'[i] \in PendingRead BY <1>4, <2>2
  <2> QED BY <2>1, <2>2, <2>3, Tabulated
<1> QED BY <1>1, <1>2, <1>4, <1>5

-----------------------------------------------------------------------------
(* The client's steps.                                                     *)

\* Nothing is awaited, the locals of the wave are dropped: the wire stays as
\* it is, empty of this call's READs.
LEMMA Dropping ==
  ASSUME WaveInv, AllDone, ~faulty, pending' = << >>, cancelled' = FALSE,
         UNCHANGED <<server, inbox, cancels, reads, unasked, faulty>>
  PROVE  Owed' /\ Asked' /\ AllDone' /\ pending' \in Seq(PendingRead)
<1>1. DOMAIN server = {} /\ DOMAIN inbox = {} BY NothingOwed
<1>2. DOMAIN pending' = {} /\ pending' \in Seq(PendingRead) OBVIOUS
<1>3. Owed' BY <1>1 DEF Owed
<1>4. Asked' BY <1>1, <1>2 DEF Asked, WaveInv
<1> QED BY <1>2, <1>3, <1>4 DEF AllDone

LEMMA StartStep ==
  ASSUME WaveInv, NEW mine, StartCall(mine)
  PROVE  WaveInv'
<1>1. AllDone /\ ~faulty BY DEF StartCall, WaveInv, Between
<1>2. Owed' /\ Asked' /\ AllDone' /\ pending' \in Seq(PendingRead)
  BY <1>1, Dropping DEF StartCall, wire
<1>3. out' \in Seq(Nat) /\ Len(out') = 0 /\ DOMAIN out' = {} BY DEF StartCall
<1>4. WaveTypes' BY <1>2, <1>3 DEF StartCall, wire, WaveInv, WaveTypes
<1>5. Between' BY <1>1, <1>2 DEF StartCall, Between
<1>6. Placed' BY <1>3, CancelLimits DEF StartCall, Placed
<1> QED BY <1>2, <1>4, <1>5, <1>6 DEF WaveInv

LEMMA BeginStep ==
  ASSUME WaveInv, BeginWave
  PROVE  WaveInv'
<1>1. AllDone /\ ~faulty BY DEF BeginWave, WaveInv, Between
<1>2. /\ pending' = << >> /\ cancelled' = FALSE /\ phase' \in {"idle", "fill"} /\ out' = out
      /\ phase' = "idle" => returned' = "cancelled"
      /\ UNCHANGED <<server, inbox, cancels, reads, unasked, faulty>>
  BY DEF BeginWave, Return, clientOnly
<1>3. Owed' /\ Asked' /\ AllDone' /\ pending' \in Seq(PendingRead) BY <1>1, <1>2, Dropping
<1>4. WaveTypes' BY <1>2, <1>3 DEF WaveInv, WaveTypes
<1>5. Between' BY <1>1, <1>2, <1>3 DEF Between
<1>6. Placed'
  <2>1. Len(pending') = 0 /\ DOMAIN pending' = {} BY <1>2
  <2> QED BY <1>2, <2>1 DEF WaveInv, WaveTypes, Placed
<1> QED BY <1>3, <1>4, <1>5, <1>6 DEF WaveInv

LEMMA SendStep ==
  ASSUME WaveInv, SendRead
  PROVE  WaveInv'
<1> DEFINE r == [mid |-> reads + 1, place |-> NextPlace, async |-> FALSE, asked |-> "no",
                 status |-> "none"]
           n == Len(pending) + 1
<1>1. /\ phase = "fill" /\ phase' = "fill" /\ ~cancelled /\ ~faulty
      /\ reads \in Nat /\ reads' = reads + 1 /\ Len(out) + Len(pending) < Target
      /\ pending' = Append(pending, r)
      /\ UNCHANGED <<out, cancelled, returned, cancels, inbox, unasked, faulty>>
  BY DEF SendRead, MaySend, WaveInv, WaveTypes, Between
<1>2. pending \in Seq(PendingRead) /\ Len(pending) \in Nat /\ out \in Seq(Nat) /\ Len(out) \in Nat
  BY DEF WaveInv, WaveTypes
<1>3. r \in PendingRead /\ r.mid = reads + 1 /\ r.place = Len(out) + Len(pending)
      /\ r.status = "none"
  BY <1>1, <1>2 DEF PendingRead, NextPlace
<1> HIDE DEF r
<1>4. /\ pending' \in Seq(PendingRead) /\ Len(pending') = n /\ DOMAIN pending' = 1 .. n
      /\ DOMAIN pending = 1 .. Len(pending)
      /\ \A i \in DOMAIN pending : pending'[i] = pending[i]
      /\ pending'[n] = r
  BY <1>1, <1>2, <1>3
<1>5. /\ DOMAIN server' = DOMAIN server \cup {reads + 1}
      /\ server' = [m \in DOMAIN server' |-> server'[m]]
  BY DEF SendRead
<1>6. \A m : Awaited(m) => Awaited(m)' /\ m <= reads
  BY <1>2, <1>4 DEF Awaited, Outstanding, WaveInv, Asked
<1>7. \A m : m = reads + 1 => Awaited(m)'
  <2>1. n \in DOMAIN pending' /\ pending'[n].mid = reads + 1 /\ pending'[n].status = "none"
    BY <1>2, <1>3, <1>4
  <2> QED BY <2>1 DEF Awaited, Outstanding
<1>8. WaveTypes' BY <1>1, <1>4, <1>5 DEF WaveInv, WaveTypes
<1>9. Owed'
  <2>1. \A k \in DOMAIN inbox : inbox[k].mid # reads + 1
    BY <1>1, <1>6 DEF WaveInv, Owed
  <2>2. \A m \in DOMAIN server' : Awaited(m)' BY <1>1, <1>5, <1>6, <1>7 DEF WaveInv, Owed
  <2>3. \A k \in DOMAIN inbox : \A m : m = inbox[k].mid => Awaited(m)'
    BY <1>1, <1>6 DEF WaveInv, Owed
  <2>4. \A k \in DOMAIN inbox : inbox[k].status # "pending" =>
         /\ inbox[k].mid \notin DOMAIN server'
         /\ \A l \in DOMAIN inbox : k < l => inbox[l].mid # inbox[k].mid
    BY <1>1, <1>5, <2>1 DEF WaveInv, Owed
  <2> QED BY <1>1, <2>2, <2>3, <2>4 DEF Owed, Awaited, Outstanding
<1>10. Between' BY <1>1 DEF Between
<1>11. Placed'
  <2>1. \A i \in DOMAIN pending' : pending'[i].place = Len(out) + i - 1
    BY <1>1, <1>2, <1>3, <1>4 DEF WaveInv, Placed
  <2> QED BY <1>1, <1>2, <1>4, <2>1, CancelLimits DEF WaveInv, Placed
<1>12. Asked'
  <2>1. \A i \in DOMAIN pending' : pending'[i].mid <= reads'
    BY <1>1, <1>2, <1>3, <1>4, ReadFields DEF WaveInv, Asked
  <2>2. \A c \in DOMAIN cancels : cancels[c].mid \in Nat
    <3>1. \A c \in DOMAIN cancels : cancels[c] \in CancelRequest BY DEF WaveInv, WaveTypes
    <3> QED BY <3>1 DEF CancelRequest
  <2>3. \A c \in DOMAIN cancels' : cancels'[c].mid <= reads'
    BY <1>1, <2>2 DEF WaveInv, Asked
  <2>4. \A c \in DOMAIN cancels' : \A i \in DOMAIN pending' : cancels'[c].mid # pending'[i].mid
    BY <1>1, <1>2, <1>3, <1>4, <2>2 DEF WaveInv, Asked
  <2> QED BY <1>1, <2>1, <2>3, <2>4 DEF WaveInv, Asked
<1> QED BY <1>8, <1>9, <1>10, <1>11, <1>12 DEF WaveInv

\* The wave is cancelled.
LEMMA CancelWave ==
  ASSUME WaveInv, SendCancels, cancelled' = TRUE, phase \notin {"idle", "wave"},
         phase' \in {"check", "wait"},
         UNCHANGED <<out, returned, reads, server, inbox, unasked, faulty>>
  PROVE  WaveInv'
<1>1. /\ cancels' \in Seq(CancelRequest)
      /\ \A c \in DOMAIN cancels' : cancels'[c].mid <= reads
      /\ pending' \in Seq(PendingRead) /\ DOMAIN pending' = DOMAIN pending
      /\ Len(pending') = Len(pending)
      /\ \A i \in DOMAIN pending :
           /\ pending'[i].mid = pending[i].mid /\ pending'[i].place = pending[i].place
           /\ pending'[i].status = pending[i].status
           /\ pending'[i].status = "none" =>
                \/ pending'[i].asked = "async"
                \/ pending'[i].asked = "sync" /\ ~pending'[i].async
  BY Cancelling
<1>2. WaveTypes' BY <1>1 DEF WaveInv, WaveTypes
<1>3. \A m : Awaited(m) => Awaited(m)' BY <1>1 DEF Awaited, Outstanding
<1>4. Owed'
  <2>1. faulty' = faulty OBVIOUS
  <2>2. SUFFICES ASSUME ~faulty PROVE Owed' BY <2>1 DEF Owed
  <2>3. \A m \in DOMAIN server' : Awaited(m)' BY <1>3, <2>2 DEF WaveInv, Owed
  <2>4. \A k \in DOMAIN inbox : \A m : m = inbox[k].mid => Awaited(m)'
    BY <1>3, <2>2 DEF WaveInv, Owed
  <2>5. \A k \in DOMAIN inbox : inbox[k].status # "pending" =>
         /\ inbox[k].mid \notin DOMAIN server'
         /\ \A l \in DOMAIN inbox : k < l => inbox[l].mid # inbox[k].mid
    BY <2>2 DEF WaveInv, Owed
  <2> QED BY <2>3, <2>4, <2>5 DEF Owed, Awaited, Outstanding
<1>5. Between' BY DEF WaveInv, Between
<1>6. Placed' BY <1>1 DEF WaveInv, Placed
<1>7. Asked' BY <1>1 DEF WaveInv, Asked, Outstanding
<1> QED BY <1>2, <1>4, <1>5, <1>6, <1>7 DEF WaveInv

\* The receive loop goes to another of its places.
LEMMA LoopStep ==
  ASSUME WaveInv, phase \notin {"idle", "wave"}, cancelled' = cancelled,
         phase' \in {"check", "arm", "load", "wait", "changed"},
         UNCHANGED <<out, pending, returned, reads, server, cancels, inbox, unasked, faulty>>
  PROVE  WaveInv'
<1>1. WaveTypes' BY DEF WaveInv, WaveTypes
<1>2. Owed' BY DEF WaveInv, Owed, Awaited, Outstanding
<1>3. Between' BY DEF WaveInv, Between
<1>4. Placed' BY DEF WaveInv, Placed
<1>5. Asked' BY DEF WaveInv, Asked, Outstanding
<1> QED BY <1>1, <1>2, <1>3, <1>4, <1>5 DEF WaveInv

LEMMA FillStep ==
  ASSUME WaveInv, EndFill
  PROVE  WaveInv'
<1>1. /\ phase = "fill" /\ ~cancelled /\ ~faulty
      /\ UNCHANGED <<server, unasked, out, reads, inbox, faulty>>
  BY DEF EndFill, clientOnly, WaveInv, Between
<1>2. CASE pending = << >>
  <2>1. /\ phase' = "idle" /\ pending' = << >> /\ cancelled' = FALSE /\ cancels' = cancels
        /\ returned' # "ok"
    BY <1>2 DEF EndFill, Return
  <2>2. AllDone BY <1>2 DEF AllDone
  <2>3. Owed' /\ Asked' /\ AllDone' /\ pending' \in Seq(PendingRead)
    BY <1>1, <2>1, <2>2, Dropping
  <2>4. WaveTypes' BY <1>1, <2>1, <2>3 DEF WaveInv, WaveTypes
  <2>5. Between' BY <1>1, <2>1, <2>3 DEF Between
  <2>6. Placed' BY <1>1, <2>1 DEF WaveInv, Placed
  <2> QED BY <2>3, <2>4, <2>5, <2>6 DEF WaveInv
<1>3. CASE pending # << >> /\ Stale
  <2>1. SendCancels /\ cancelled' = TRUE /\ phase' = "check" /\ returned' = returned
    BY <1>3 DEF EndFill
  <2> QED BY <1>1, <2>1, CancelWave
<1>4. CASE pending # << >> /\ ~Stale
  <2>1. UNCHANGED <<pending, cancels, returned>> /\ cancelled' = cancelled /\ phase' = "check"
    <3>1. cancelled = FALSE BY <1>1 DEF WaveInv, WaveTypes
    <3> QED BY <1>4, <3>1 DEF EndFill, Stale
  <2> QED BY <1>1, <2>1, LoopStep
<1> QED BY <1>2, <1>3, <1>4

LEMMA CheckStep ==
  ASSUME WaveInv, CheckToken
  PROVE  WaveInv'
<1>1. /\ phase = "check" /\ phase' \in {"wait", "arm"}
      /\ UNCHANGED <<server, unasked, out, returned, reads, inbox, faulty>>
  BY DEF CheckToken, clientOnly
<1>2. CASE ~cancelled /\ Stale
  BY <1>1, <1>2, CancelWave DEF CheckToken
<1>3. CASE ~(~cancelled /\ Stale)
  <2>1. cancelled' = cancelled /\ UNCHANGED <<pending, cancels>>
    BY <1>3 DEF CheckToken, WaveInv, WaveTypes, Stale
  <2> QED BY <1>1, <2>1, LoopStep
<1> QED BY <1>2, <1>3

LEMMA WaitSteps ==
  ASSUME WaveInv, Arm \/ Load \/ Wake \/ Changed
  PROVE  WaveInv'
<1>1. CASE Arm BY <1>1, LoopStep DEF Arm, clientOnly, locals
<1>2. CASE Load BY <1>2, LoopStep DEF Load, clientOnly, locals
<1>3. CASE Wake BY <1>3, LoopStep DEF Wake, clientOnly, locals
<1>4. CASE Changed BY <1>4, CancelWave DEF Changed, clientOnly
<1> QED BY <1>1, <1>2, <1>3, <1>4

\* The next response and what follows it.
LEMMA NextResponse ==
  ASSUME WaveInv, Receiving, inbox' = Tail(inbox)
  PROVE  /\ 1 \in DOMAIN inbox /\ Head(inbox) = inbox[1] /\ Head(inbox) \in Response
         /\ inbox' \in Seq(Response)
         /\ \A k \in DOMAIN inbox' : k + 1 \in DOMAIN inbox /\ inbox'[k] = inbox[k + 1] /\ k \in Nat
         /\ phase \in {"arm", "wait"} /\ ~faulty
<1>1. inbox \in Seq(Response) /\ inbox # << >> BY DEF WaveInv, WaveTypes, Receiving
<1>2. /\ 1 \in DOMAIN inbox /\ Head(inbox) = inbox[1] /\ Head(inbox) \in Response
      /\ inbox' \in Seq(Response)
  BY <1>1
<1>3. \A k \in DOMAIN inbox' : k + 1 \in DOMAIN inbox /\ inbox'[k] = inbox[k + 1] /\ k \in Nat
  BY <1>1
<1>4. phase \in {"arm", "wait"} /\ ~faulty BY DEF Receiving, WaveInv, Between
<1> QED BY <1>2, <1>3, <1>4

LEMMA InterimStep ==
  ASSUME WaveInv, ReceiveInterim
  PROVE  WaveInv'
<1>1. PICK i \in Answered(Head(inbox)) :
        LET again == cancelled /\ pending[i].asked # "async" IN
        /\ Head(inbox).status = "pending"
        /\ inbox' = Tail(inbox)
        /\ pending' = [pending EXCEPT ![i].async = TRUE,
                                      ![i].asked = IF again THEN "async" ELSE @]
        /\ cancels' = IF again THEN Append(cancels, [mid |-> pending[i].mid, async |-> TRUE])
                               ELSE cancels
        /\ phase' = "check"
        /\ UNCHANGED <<server, unasked, out, cancelled, returned, reads, faulty>>
  BY DEF ReceiveInterim, clientOnly
<1> DEFINE again == cancelled /\ pending[i].asked # "async"
           a == IF again THEN "async" ELSE pending[i].asked
           q == [pending[i] EXCEPT !.async = TRUE, !.asked = a]
<1>2. /\ i \in DOMAIN pending /\ pending[i].mid = Head(inbox).mid /\ pending[i].status = "none"
      /\ pending \in Seq(PendingRead) /\ pending[i] \in PendingRead
  BY DEF Answered, Outstanding, WaveInv, WaveTypes
<1>3. pending' = [pending EXCEPT ![i] = q] BY <1>1, <1>2
<1>4. a \in {"no", "sync", "async"} /\ (cancelled => a = "async") BY <1>2, ReadFields
<1>5. /\ q \in PendingRead /\ q.mid = pending[i].mid /\ q.place = pending[i].place
      /\ q.status = "none" /\ q.asked = a
  <2> DEFINE r == pending[i]
  <2>1. r \in PendingRead /\ r.status = "none" BY <1>2
  <2> HIDE DEF a, r
  <2> QED BY <1>4, <2>1 DEF PendingRead, r
<1>6. /\ cancels' = IF again THEN Append(cancels, [mid |-> pending[i].mid, async |-> TRUE])
                             ELSE cancels
      /\ again => cancelled
  BY <1>1
<1> HIDE DEF q, a, again
<1>7. /\ pending' \in Seq(PendingRead) /\ DOMAIN pending' = DOMAIN pending
      /\ Len(pending') = Len(pending)
      /\ \A j \in DOMAIN pending : pending'[j] = IF j = i THEN q ELSE pending[j]
  BY <1>2, <1>3, <1>5
<1>8. \A j \in DOMAIN pending : /\ pending'[j].mid = pending[j].mid
                                /\ pending'[j].place = pending[j].place
                                /\ pending'[j].status = pending[j].status
  BY <1>2, <1>5, <1>7
<1>9. /\ inbox' \in Seq(Response) /\ phase \in {"arm", "wait"} /\ ~faulty
      /\ \A k \in DOMAIN inbox' : k + 1 \in DOMAIN inbox /\ inbox'[k] = inbox[k + 1] /\ k \in Nat
  BY <1>1, NextResponse DEF ReceiveInterim
<1>10. /\ cancels' \in Seq(CancelRequest)
       /\ \A c \in DOMAIN cancels' : cancels'[c].mid <= reads
       /\ cancels' = cancels \/ cancelled
  <2>1. cancels \in Seq(CancelRequest) /\ \A c \in DOMAIN cancels : cancels[c].mid <= reads
    BY DEF WaveInv, WaveTypes, Asked
  <2> DEFINE d == [mid |-> pending[i].mid, async |-> TRUE]
  <2>2. d \in CancelRequest /\ d.mid <= reads
    BY <1>2, ReadFields DEF CancelRequest, WaveInv, Asked
  <2>3. cancels' = Append(cancels, d) \/ cancels' = cancels BY <1>6
  <2> HIDE DEF d
  <2>4. CASE cancels' = cancels BY <2>1, <2>4
  <2>5. CASE cancels' # cancels
    <3>1. cancels' = Append(cancels, d) /\ cancelled BY <1>6, <2>3, <2>5
    <3> QED BY <2>1, <2>2, <3>1
  <2> QED BY <2>4, <2>5
<1>11. WaveTypes' BY <1>1, <1>7, <1>9, <1>10 DEF WaveInv, WaveTypes
<1>12. Owed'
  <2>1. \A m : Awaited(m) => Awaited(m)' BY <1>7, <1>8 DEF Awaited, Outstanding
  <2>2. \A m \in DOMAIN server : Awaited(m)' BY <1>9, <2>1 DEF WaveInv, Owed
  <2>3. \A k \in DOMAIN inbox' : \A m : m = inbox'[k].mid => Awaited(m)'
    BY <1>9, <2>1 DEF WaveInv, Owed
  <2>4. \A k \in DOMAIN inbox' : inbox'[k].status # "pending" =>
         /\ inbox'[k].mid \notin DOMAIN server
         /\ \A l \in DOMAIN inbox' : k < l => inbox'[l].mid # inbox'[k].mid
    BY <1>9 DEF WaveInv, Owed
  <2> QED BY <1>1, <2>2, <2>3, <2>4 DEF Owed, Awaited, Outstanding
<1>13. Between' BY <1>1, <1>9 DEF Between
<1>14. Placed' BY <1>1, <1>7, <1>8, <1>9 DEF WaveInv, Placed
<1>15. Asked'
  <2>1. \A j \in DOMAIN pending' : pending'[j].mid <= reads' BY <1>1, <1>7, <1>8 DEF WaveInv, Asked
  <2>2. \A c \in DOMAIN cancels', j \in DOMAIN pending' :
          cancels'[c].mid = pending'[j].mid => cancelled'
    BY <1>1, <1>7, <1>8, <1>10 DEF WaveInv, Asked
  <2>3. ~faulty /\ ~unasked => \A k \in DOMAIN inbox' : inbox'[k].status = "cancelled" => cancelled
    BY <1>9 DEF WaveInv, Asked
  <2>4. ~faulty /\ ~unasked /\ cancelled => \A j \in DOMAIN pending' : pending'[j].status = "none" =>
          pending'[j].asked = "async" \/ (pending'[j].asked = "sync" /\ ~pending'[j].async)
    BY <1>4, <1>5, <1>7 DEF WaveInv, Asked, Outstanding
  <2> QED BY <1>1, <1>10, <2>1, <2>2, <2>3, <2>4 DEF Asked, Outstanding
<1> QED BY <1>11, <1>12, <1>13, <1>14, <1>15 DEF WaveInv

LEMMA FinalStep ==
  ASSUME WaveInv, ReceiveFinal
  PROVE  WaveInv'
<1>1. PICK i \in Answered(Head(inbox)) :
        LET status == Head(inbox).status IN
        /\ status # "pending"
        /\ inbox' = Tail(inbox)
        /\ pending' = [pending EXCEPT ![i].status = status]
        /\ cancelled' = (cancelled \/ status = "cancelled")
        /\ phase' = "check"
        /\ UNCHANGED <<server, unasked, out, returned, reads, cancels, faulty>>
  BY DEF ReceiveFinal, clientOnly
<1> DEFINE s == Head(inbox).status
           q == [pending[i] EXCEPT !.status = s]
<1>2. /\ i \in DOMAIN pending /\ pending[i].mid = Head(inbox).mid /\ pending[i].status = "none"
      /\ pending \in Seq(PendingRead) /\ pending[i] \in PendingRead
  BY DEF Answered, Outstanding, WaveInv, WaveTypes
<1>3. /\ 1 \in DOMAIN inbox /\ Head(inbox) = inbox[1] /\ Head(inbox) \in Response
      /\ inbox' \in Seq(Response) /\ phase \in {"arm", "wait"} /\ ~faulty
      /\ \A k \in DOMAIN inbox' : k + 1 \in DOMAIN inbox /\ inbox'[k] = inbox[k + 1] /\ k \in Nat
  BY <1>1, NextResponse DEF ReceiveFinal
<1>4. s \in Statuses /\ s # "none" BY <1>1, <1>3 DEF Response, Statuses
<1>5. pending' = [pending EXCEPT ![i] = q] BY <1>1, <1>2
<1>6. /\ cancelled' = (cancelled \/ s = "cancelled") /\ s = inbox[1].status /\ s # "pending"
      /\ pending[i].mid = inbox[1].mid
  BY <1>1, <1>2, <1>3
<1>7. /\ q \in PendingRead /\ q.mid = pending[i].mid /\ q.place = pending[i].place
      /\ q.status = s
  <2> HIDE DEF s
  <2>1. q = [pending[i] EXCEPT !.status = s] OBVIOUS
  <2> HIDE DEF q
  <2> QED BY <1>2, <1>4, <2>1, ReadAnswered
<1> HIDE DEF q, s
<1>8. /\ pending' \in Seq(PendingRead) /\ DOMAIN pending' = DOMAIN pending
      /\ Len(pending') = Len(pending)
      /\ \A j \in DOMAIN pending : pending'[j] = IF j = i THEN q ELSE pending[j]
  BY <1>2, <1>5, <1>7
<1>9. \A j \in DOMAIN pending : /\ pending'[j].mid = pending[j].mid
                                /\ pending'[j].place = pending[j].place
  BY <1>7, <1>8
<1>10. WaveTypes' BY <1>1, <1>3, <1>8 DEF WaveInv, WaveTypes
<1>11. Owed'
  <2>1. \A m : Awaited(m) /\ m # inbox[1].mid => Awaited(m)'
    BY <1>6, <1>8 DEF Awaited, Outstanding
  <2>2. /\ inbox[1].mid \notin DOMAIN server
        /\ \A k \in DOMAIN inbox : 1 < k => inbox[k].mid # inbox[1].mid
    BY <1>3, <1>6 DEF WaveInv, Owed
  <2>3. \A m \in DOMAIN server : Awaited(m)' BY <1>3, <2>1, <2>2 DEF WaveInv, Owed
  <2>4. \A k \in DOMAIN inbox' : \A m : m = inbox'[k].mid => Awaited(m)'
    <3> TAKE k \in DOMAIN inbox'
    <3>1. k \in 1 .. Len(inbox') BY <1>3
    <3>2. 1 < k + 1 /\ k + 1 \in DOMAIN inbox /\ inbox'[k] = inbox[k + 1] BY <1>3, <3>1
    <3> QED BY <1>3, <2>1, <2>2, <3>2 DEF WaveInv, Owed
  <2>5. \A k \in DOMAIN inbox' : inbox'[k].status # "pending" =>
         /\ inbox'[k].mid \notin DOMAIN server
         /\ \A l \in DOMAIN inbox' : k < l => inbox'[l].mid # inbox'[k].mid
    BY <1>3 DEF WaveInv, Owed
  <2> QED BY <1>1, <2>3, <2>4, <2>5 DEF Owed, Awaited, Outstanding
<1>12. Between' BY <1>1, <1>3 DEF Between
<1>13. Placed' BY <1>1, <1>3, <1>8, <1>9 DEF WaveInv, Placed
<1>14. Asked'
  <2>1. \A j \in DOMAIN pending' : pending'[j].mid <= reads' BY <1>1, <1>8, <1>9 DEF WaveInv, Asked
  <2>2. \A c \in DOMAIN cancels', j \in DOMAIN pending' :
          cancels'[c].mid = pending'[j].mid => cancelled'
    <3>1. cancelled => cancelled' BY <1>6
    <3> QED BY <1>1, <3>1, <1>8, <1>9 DEF WaveInv, Asked
  <2>3. ~faulty /\ ~unasked => (cancelled' <=> cancelled)
    BY <1>3, <1>6 DEF WaveInv, Asked
  <2>4. ~faulty /\ ~unasked =>
          \A k \in DOMAIN inbox' : inbox'[k].status = "cancelled" => cancelled'
    BY <1>3, <2>3 DEF WaveInv, Asked
  <2>5. ~faulty /\ ~unasked /\ cancelled' => \A j \in DOMAIN pending' : pending'[j].status = "none" =>
          pending'[j].asked = "async" \/ (pending'[j].asked = "sync" /\ ~pending'[j].async)
    BY <1>4, <1>7, <1>8, <2>3 DEF WaveInv, Asked, Outstanding
  <2> QED BY <1>1, <2>1, <2>2, <2>4, <2>5 DEF WaveInv, Asked, Outstanding
<1> QED BY <1>10, <1>11, <1>12, <1>13, <1>14 DEF WaveInv

\* A wave without a short answer counts as a whole.
LEMMA KeptReads ==
  ASSUME WaveInv
  PROVE  /\ Kept \in Nat /\ Kept <= Len(pending)
         /\ Shorts = {} => Kept = Len(pending)
<1> DEFINE S == {n \in DOMAIN pending : \A i \in Shorts : n < i}
<1>1. S \in SUBSET DOMAIN pending /\ (Shorts = {} => S = DOMAIN pending) OBVIOUS
<1>2. Kept = Cardinality(S) BY DEF Kept
<1>3. WaveTypes BY DEF WaveInv
<1> HIDE DEF S
<1> QED BY <1>1, <1>2, <1>3, Selected

\* What the wave adds continues the run of chunks.
LEMMA WaveAdds ==
  ASSUME WaveInv, phase = "check", out' = out \o [i \in 1 .. Kept |-> pending[i].place]
  PROVE  /\ out' \in Seq(Nat) /\ Len(out') = Len(out) + Kept /\ Len(out') <= Target
         /\ \A i \in DOMAIN out' : out'[i] = i - 1
<1>1. PICK k \in Nat : k = Kept /\ k <= Len(pending) BY KeptReads
<1>2. PICK n \in Nat : n = Len(out) BY DEF WaveInv, WaveTypes
<1> DEFINE new == [i \in 1 .. k |-> pending[i].place]
<1>3. /\ out \in Seq(Nat) /\ Len(pending) \in Nat /\ DOMAIN pending = 1 .. Len(pending)
      /\ DOMAIN out = 1 .. n
  BY <1>2 DEF WaveInv, WaveTypes
<1>4. /\ \A i \in 1 .. n : out[i] = i - 1
      /\ n + Len(pending) <= Target
      /\ \A i \in 1 .. Len(pending) : pending[i].place = n + i - 1
  BY <1>2, <1>3 DEF WaveInv, Placed
<1>5. \A i \in 1 .. k : i \in 1 .. Len(pending) /\ n + i - 1 \in Nat BY <1>1, <1>2, <1>3
<1>6. \A i \in 1 .. k : new[i] = n + i - 1 /\ new[i] \in Nat BY <1>4, <1>5
<1>7. new = [i \in 1 .. k |-> new[i]] /\ out' = out \o new BY <1>1
<1> HIDE DEF new
<1>8. new \in Seq(Nat) /\ Len(new) = k BY <1>1, <1>6, <1>7, Tabulated
<1>9. out' = out \o new /\ DOMAIN new = 1 .. k BY <1>7
<1>10. \A u : u = out \o new =>
         /\ u \in Seq(Nat) /\ Len(u) = Len(out) + Len(new)
         /\ \A i \in DOMAIN u : u[i] = i - 1
  <2>1. out \in Seq(Nat) /\ \A i \in DOMAIN out : out[i] = i - 1 BY <1>3, <1>4
  <2>2. new \in Seq(Nat) /\ \A i \in DOMAIN new : new[i] = Len(out) + i - 1
    BY <1>2, <1>6, <1>8, <1>9
  <2> QED BY <2>1, <2>2, RunGrows, Zenon
<1>11. n + k <= Target BY <1>1, <1>3, <1>4, CancelLimits
<1> QED BY <1>1, <1>2, <1>8, <1>9, <1>10, <1>11

LEMMA EndStep ==
  ASSUME WaveInv, EndWave
  PROVE  WaveInv'
<1>1. /\ phase = "check" /\ AllDone /\ ~faulty
      /\ UNCHANGED <<server, unasked, reads, cancels, inbox, faulty>>
  BY DEF EndWave, clientOnly, WaveInv, Between
<1>2. Len(out) \in Nat /\ Len(pending) \in Nat /\ Target \in Nat
  BY CancelLimits DEF WaveInv, WaveTypes
<1>3. /\ out' \in Seq(Nat) /\ Len(out') <= Target
      /\ \A i \in DOMAIN out' : out'[i] = i - 1
  <2>1. CASE out' = out BY <2>1 DEF WaveInv, WaveTypes, Placed
  <2>2. CASE out' = out \o [i \in 1 .. Kept |-> pending[i].place] BY <1>1, <2>2, WaveAdds
  <2> QED BY <2>1, <2>2 DEF EndWave
<1>4. \/ /\ phase' = "idle" /\ pending' = << >> /\ cancelled' = FALSE
         /\ returned' = "ok" => Len(out') >= Target
      \/ /\ phase' = "wave" /\ UNCHANGED <<pending, cancelled, returned>>
  BY DEF EndWave, Return
<1>5. Len(out') \in Nat BY <1>3
<1>6. Placed' BY <1>2, <1>3, <1>4, <1>5 DEF Placed
<1>7. CASE phase' = "idle"
  <2>1. Owed' /\ Asked' /\ AllDone' /\ pending' \in Seq(PendingRead)
    BY <1>1, <1>4, <1>7, Dropping
  <2>2. WaveTypes' BY <1>1, <1>3, <1>4, <1>7, <2>1 DEF WaveInv, WaveTypes
  <2>3. Between' BY <1>1, <1>4, <1>7, <2>1 DEF Between
  <2> QED BY <1>6, <2>1, <2>2, <2>3 DEF WaveInv
<1>8. CASE phase' = "wave"
  <2>1. UNCHANGED <<pending, cancelled>> BY <1>4, <1>8
  <2>2. WaveTypes' BY <1>1, <1>3, <1>8, <2>1 DEF WaveInv, WaveTypes
  <2>3. Owed' BY <1>1, <2>1 DEF WaveInv, Owed, Awaited, Outstanding
  <2>4. Asked' BY <1>1, <2>1 DEF WaveInv, Asked, Outstanding
  <2>5. Between' BY <1>1, <1>8, <2>1 DEF Between, AllDone, Outstanding
  <2> QED BY <1>6, <2>2, <2>3, <2>4, <2>5 DEF WaveInv
<1> QED BY <1>4, <1>7, <1>8

LEMMA FaultStep ==
  ASSUME WaveInv, TransportFails
  PROVE  WaveInv'
<1>1. /\ phase' = "idle" /\ returned' = "fault" /\ pending' = << >> /\ cancelled' = FALSE
      /\ faulty' = TRUE /\ UNCHANGED <<server, unasked, out, reads, cancels, inbox>>
  BY DEF TransportFails, Return, clientOnly
<1>2. pending' \in Seq(PendingRead) /\ DOMAIN pending' = {} BY <1>1
<1>3. WaveTypes' BY <1>1, <1>2 DEF WaveInv, WaveTypes
<1>4. Owed' BY <1>1 DEF Owed
<1>5. Between' BY <1>1, <1>2 DEF Between, AllDone
<1>6. Placed' BY <1>1 DEF WaveInv, Placed
<1>7. Asked' BY <1>1, <1>2 DEF WaveInv, Asked
<1> QED BY <1>3, <1>4, <1>5, <1>6, <1>7 DEF WaveInv

-----------------------------------------------------------------------------
(* The server's steps.                                                     *)

\* A response joins the others: an interim one about a READ that stays with
\* the server, or the final one of a READ that leaves it.
LEMMA ReplyStep ==
  ASSUME WaveInv, NEW m \in DOMAIN server, NEW status \in {"pending"} \cup Statuses,
         NEW credits \in Grants, Reply(m, status, credits),
         DOMAIN server' = IF status = "pending" THEN DOMAIN server ELSE DOMAIN server \ {m},
         server' = [x \in DOMAIN server' |-> server'[x]],
         unasked' \in BOOLEAN, unasked => unasked', cancels' \in Seq(CancelRequest),
         \A c \in DOMAIN cancels' : \E d \in DOMAIN cancels : cancels'[c] = cancels[d],
         status = "cancelled" /\ ~faulty => unasked' \/ cancelled,
         UNCHANGED serverOnly
  PROVE  WaveInv'
<1> DEFINE r == [mid |-> m, status |-> status, credits |-> credits]
           n == Len(inbox) + 1
<1>1. UNCHANGED <<phase, out, pending, cancelled, returned, reads, faulty>> BY DEF serverOnly, locals
<1>2. inbox \in Seq(Response) /\ Len(inbox) \in Nat /\ inbox' = Append(inbox, r)
  BY DEF WaveInv, WaveTypes, Reply
<1>3. ~faulty => Awaited(m) BY DEF WaveInv, Owed
<1>4. r.mid = m /\ r.status = status /\ r \in Response
  BY CancelLimits DEF Response, WaveInv, WaveTypes
<1> HIDE DEF r
<1>5. /\ inbox' \in Seq(Response) /\ DOMAIN inbox' = 1 .. n /\ DOMAIN inbox = 1 .. Len(inbox)
      /\ \A k \in DOMAIN inbox : inbox'[k] = inbox[k]
      /\ inbox'[n] = r
  BY <1>2, <1>4
<1>6. WaveTypes' BY <1>1, <1>5 DEF WaveInv, WaveTypes
<1>7. Owed'
  <2>1. SUFFICES ASSUME ~faulty PROVE Owed' BY <1>1 DEF Owed
  <2>2. \A x : Awaited(x) => Awaited(x)' BY <1>1 DEF Awaited, Outstanding
  <2>3. \A x \in DOMAIN server' : Awaited(x)' BY <2>1, <2>2 DEF WaveInv, Owed
  <2>4. \A k \in DOMAIN inbox' : \A x : x = inbox'[k].mid => Awaited(x)'
    BY <1>2, <1>3, <1>4, <1>5, <2>1, <2>2 DEF WaveInv, Owed
  <2>5. \A k \in DOMAIN inbox : inbox[k].status # "pending" => inbox[k].mid # m
    BY <2>1 DEF WaveInv, Owed
  <2>6. \A k \in DOMAIN inbox' : inbox'[k].status # "pending" =>
         /\ inbox'[k].mid \notin DOMAIN server'
         /\ \A l \in DOMAIN inbox' : k < l => inbox'[l].mid # inbox'[k].mid
    <3> SUFFICES ASSUME NEW k \in DOMAIN inbox', inbox'[k].status # "pending"
                 PROVE  /\ inbox'[k].mid \notin DOMAIN server'
                        /\ \A l \in DOMAIN inbox' : k < l => inbox'[l].mid # inbox'[k].mid
      OBVIOUS
    <3>1. CASE k \in DOMAIN inbox BY <1>2, <1>4, <1>5, <2>1, <2>5, <3>1 DEF WaveInv, Owed
    <3>2. CASE k = n BY <1>2, <1>4, <1>5, <3>2
    <3> QED BY <1>2, <1>5, <3>1, <3>2
  <2> QED BY <2>3, <2>4, <2>6 DEF Owed, Awaited, Outstanding
<1>8. Between' BY <1>1 DEF WaveInv, Between, AllDone, Outstanding
<1>9. Placed' BY <1>1 DEF WaveInv, Placed
<1>10. Asked'
  <2>1. /\ \A i \in DOMAIN pending' : pending'[i].mid <= reads'
        /\ \A c \in DOMAIN cancels' : cancels'[c].mid <= reads'
        /\ \A c \in DOMAIN cancels', i \in DOMAIN pending' :
             cancels'[c].mid = pending'[i].mid => cancelled'
    BY <1>1 DEF WaveInv, Asked
  <2>2. ~faulty' /\ ~unasked' =>
          \A k \in DOMAIN inbox' : inbox'[k].status = "cancelled" => cancelled'
    BY <1>1, <1>2, <1>4, <1>5 DEF WaveInv, Asked
  <2> QED BY <1>1, <2>1, <2>2 DEF WaveInv, Asked, Outstanding
<1> QED BY <1>6, <1>7, <1>8, <1>9, <1>10 DEF WaveInv

LEMMA AnswerSteps ==
  ASSUME WaveInv, NEW m \in DOMAIN server, GoAsync(m) \/ Answer(m) \/ CancelUnasked(m)
  PROVE  WaveInv'
<1>1. cancels \in Seq(CancelRequest) /\ unasked \in BOOLEAN
      /\ server = [x \in DOMAIN server |-> server[x]]
  BY DEF WaveInv, WaveTypes
<1>2. CASE GoAsync(m)
  <2>1. PICK credits \in Grants : Reply(m, "pending", credits) BY <1>2 DEF GoAsync
  <2>2. DOMAIN server' = DOMAIN server /\ server' = [x \in DOMAIN server' |-> server'[x]]
        /\ UNCHANGED <<cancels, unasked>> /\ UNCHANGED serverOnly
    BY <1>1, <1>2 DEF GoAsync
  <2> QED BY <1>1, <2>1, <2>2, ReplyStep
<1>3. CASE Answer(m)
  <2>1. PICK status \in {"data", "short", "error"}, credits \in Grants : Reply(m, status, credits)
    BY <1>3 DEF Answer
  <2>2. DOMAIN server' = DOMAIN server \ {m} /\ server' = [x \in DOMAIN server' |-> server'[x]]
        /\ UNCHANGED <<cancels, unasked>> /\ UNCHANGED serverOnly
    BY <1>3 DEF Answer, Forget, Restrict
  <2>3. status \in {"pending"} \cup Statuses /\ status # "pending" /\ status # "cancelled"
    BY DEF Statuses
  <2> QED BY <1>1, <2>1, <2>2, <2>3, ReplyStep
<1>4. CASE CancelUnasked(m)
  <2>1. PICK credits \in Grants : Reply(m, "cancelled", credits) BY <1>4 DEF CancelUnasked
  <2>2. DOMAIN server' = DOMAIN server \ {m} /\ server' = [x \in DOMAIN server' |-> server'[x]]
        /\ cancels' = cancels /\ unasked' = TRUE /\ UNCHANGED serverOnly
    BY <1>4 DEF CancelUnasked, Forget, Restrict
  <2>3. "cancelled" \in {"pending"} \cup Statuses BY DEF Statuses
  <2> QED BY <1>1, <2>1, <2>2, <2>3, ReplyStep
<1> QED BY <1>2, <1>3, <1>4

LEMMA TakeStep ==
  ASSUME WaveInv, TakeCancel
  PROVE  WaveInv'
<1> DEFINE m == Head(cancels).mid
<1>1. cancels \in Seq(CancelRequest) /\ cancels # << >> /\ unasked \in BOOLEAN
  BY DEF TakeCancel, WaveInv, WaveTypes
<1>2. cancels' = Tail(cancels) /\ UNCHANGED serverOnly /\ unasked' = unasked BY DEF TakeCancel
<1>3. /\ cancels' \in Seq(CancelRequest)
      /\ \A c \in DOMAIN cancels' : \E d \in DOMAIN cancels : cancels'[c] = cancels[d]
      /\ 1 \in DOMAIN cancels /\ m = cancels[1].mid
  <2>1. cancels' \in Seq(CancelRequest) /\ 1 \in DOMAIN cancels /\ m = cancels[1].mid
    BY <1>1, <1>2
  <2>2. \A c \in DOMAIN cancels' : c + 1 \in DOMAIN cancels /\ cancels'[c] = cancels[c + 1]
    BY <1>1, <1>2
  <2> QED BY <2>1, <2>2
<1>4. UNCHANGED <<phase, out, pending, cancelled, returned, reads, faulty, unasked>>
  BY <1>2 DEF serverOnly, locals
<1>5. CASE Forget(m) /\ m \in DOMAIN server /\ \E credits \in Grants : Reply(m, "cancelled", credits)
  <2>1. PICK credits \in Grants : Reply(m, "cancelled", credits) BY <1>5
  <2>2. ~faulty => cancelled BY <1>3, <1>5 DEF WaveInv, Owed, Awaited, Asked
  <2>3. DOMAIN server' = DOMAIN server \ {m} /\ server' = [x \in DOMAIN server' |-> server'[x]]
    BY <1>5 DEF Forget, Restrict
  <2>4. "cancelled" \in {"pending"} \cup Statuses BY DEF Statuses
  <2>5. m \in DOMAIN server BY <1>5
  <2> HIDE DEF m
  <2> QED BY <1>1, <1>2, <1>3, <2>1, <2>2, <2>3, <2>4, <2>5, ReplyStep
<1>6. CASE UNCHANGED <<server, inbox>>
  <2>1. WaveTypes' BY <1>3, <1>4, <1>6 DEF WaveInv, WaveTypes
  <2>2. Owed' BY <1>4, <1>6 DEF WaveInv, Owed, Awaited, Outstanding
  <2>3. Between' BY <1>4 DEF WaveInv, Between, AllDone, Outstanding
  <2>4. Placed' BY <1>4 DEF WaveInv, Placed
  <2>5. Asked' BY <1>3, <1>4, <1>6 DEF WaveInv, Asked, Outstanding
  <2> QED BY <2>1, <2>2, <2>3, <2>4, <2>5 DEF WaveInv
<1> QED BY <1>5, <1>6 DEF TakeCancel

-----------------------------------------------------------------------------
LEMMA WaveInit == WavesInit => WaveInv
<1> SUFFICES ASSUME WavesInit PROVE WaveInv OBVIOUS
<1> USE DEF WavesInit
<1>1. /\ DOMAIN pending = {} /\ DOMAIN inbox = {} /\ DOMAIN cancels = {} /\ DOMAIN out = {}
      /\ DOMAIN server = {} /\ Len(out) = 0
  OBVIOUS
<1>2. server = [m \in DOMAIN server |-> server[m]] BY <1>1
<1>3. WaveTypes
  <2>1. out \in Seq(Nat) /\ pending \in Seq(PendingRead) BY DEF WavesInit
  <2>2. inbox \in Seq(Response) /\ cancels \in Seq(CancelRequest) BY DEF WavesInit
  <2> QED BY <1>1, <1>2, <2>1, <2>2 DEF WaveTypes
<1>4. Owed BY <1>1 DEF Owed
<1>5. Between BY <1>1 DEF Between, AllDone
<1>6. Placed BY <1>1, CancelLimits DEF Placed
<1>7. Asked BY <1>1 DEF Asked
<1> QED BY <1>3, <1>4, <1>5, <1>6, <1>7 DEF WaveInv

LEMMA WaveStep == WaveInv /\ [WavesNext]_wavesVars => WaveInv'
<1> SUFFICES ASSUME WaveInv, [WavesNext]_wavesVars PROVE WaveInv' OBVIOUS
<1>1. CASE UNCHANGED <<phase, out, pending, cancelled, returned, reads, server, cancels, inbox,
                       unasked, faulty>>
  <2>1. WaveTypes' BY <1>1 DEF WaveInv, WaveTypes
  <2>2. Owed' BY <1>1 DEF WaveInv, Owed, Awaited, Outstanding
  <2>3. Between' BY <1>1 DEF WaveInv, Between, AllDone, Outstanding
  <2>4. Placed' BY <1>1 DEF WaveInv, Placed
  <2>5. Asked' BY <1>1 DEF WaveInv, Asked, Outstanding
  <2> QED BY <2>1, <2>2, <2>3, <2>4, <2>5 DEF WaveInv
<1>2. CASE UNCHANGED wavesVars BY <1>1, <1>2 DEF wavesVars, locals, wire
<1>3. CASE Advance \/ Notify BY <1>1, <1>3 DEF Advance, Notify, locals, wire
<1>4. CASE \E mine \in 0 .. tokenGen : StartCall(mine) BY <1>4, StartStep
<1>5. CASE ClientStep
  BY <1>5, BeginStep, SendStep, FillStep, CheckStep, WaitSteps, InterimStep, FinalStep, EndStep
     DEF ClientStep
<1>6. CASE TransportFails BY <1>6, FaultStep
<1>7. CASE TakeCancel BY <1>7, TakeStep
<1>8. CASE \E m \in DOMAIN server : GoAsync(m) \/ Answer(m) \/ CancelUnasked(m)
  BY <1>8, AnswerSteps
<1> QED BY <1>2, <1>3, <1>4, <1>5, <1>6, <1>7, <1>8 DEF WavesNext

LEMMA WaveAlways == WavesSpec => []WaveInv
<1>1. WavesInit => WaveInv BY WaveInit
<1>2. WaveInv /\ [WavesNext]_wavesVars => WaveInv' BY WaveStep
<1> QED BY <1>1, <1>2, PTL DEF WavesSpec

(***************************************************************************)
(* "drains every final READ response before returning": whatever the       *)
(* interleaving of seeks, CANCELs, interim and final answers, and for      *)
(* every limit, size, grant and number of calls, a call that returns       *)
(* without a transport fault leaves no READ with the server and no answer  *)
(* under way, and what it hands out is one run of chunks from its offset,  *)
(* complete when it says so.                                               *)
(***************************************************************************)
THEOREM DrainCorrect == WavesSpec => []CleanReturn
<1>1. WaveInv => CleanReturn
  <2> SUFFICES ASSUME WaveInv, phase = "idle" PROVE CleanReturn BY DEF CleanReturn
  <2>1. AllDone BY DEF WaveInv, Between
  <2>2. ~faulty => server = << >>
    <3>1. ~faulty => DOMAIN server = {} BY <2>1, NothingOwed
    <3>2. server = [m \in DOMAIN server |-> server[m]] BY DEF WaveInv, WaveTypes
    <3> QED BY <3>1, <3>2
  <2>3. ~faulty => inbox = << >>
    <3>1. ~faulty => DOMAIN inbox = {} BY <2>1, NothingOwed
    <3>2. inbox \in Seq(Response) BY DEF WaveInv, WaveTypes
    <3> QED BY <3>1, <3>2
  <2> QED BY <2>2, <2>3 DEF CleanReturn, WaveInv, Placed
<1> QED BY WaveAlways, <1>1, PTL

(***************************************************************************)
(* "SMB2 CANCEL is sent for every outstanding READ": while a call whose    *)
(* generation has moved on waits, every READ it waits for was asked to be  *)
(* cancelled in the form the client knows it by, however CANCEL and        *)
(* STATUS_PENDING cross, unless the server cancelled a READ by itself.     *)
(***************************************************************************)
THEOREM CancelsCorrect == WavesSpec => []CancelledWhenAsked
<1>1. WaveInv => CancelledWhenAsked
  BY DEF WaveInv, WaveTypes, Between, Asked, CancelledWhenAsked, OutstandingCancelled
<1> QED BY WaveAlways, <1>1, PTL
=============================================================================
