------------------------ MODULE AndroidHandles_proof ------------------------
(***************************************************************************)
(* Proofs about the handles of the Android engine: the editable files of   *)
(* FileHandles, for any number of threads, file lengths and calls, and the *)
(* directories of Directories, for any number of threads and calls and any *)
(* directory trees.                                                        *)
(*                                                                         *)
(* Files.  SafeTraffic alone is not inductive: why a waiter cannot send    *)
(* after CLOSE follows from how far the closing thread has come.  Claimed  *)
(* says that the one thread that removed the handle has raised `closing`   *)
(* before it may take the lock, and Closed that CLOSE came from such a     *)
(* thread.                                                                 *)
(*                                                                         *)
(* Directories.  The loops (decoding a page, adding up its entries, what a *)
(* tree holds) are recursive functions.  What they compute is proved by    *)
(* the smallest counterexample (NatMin), first that the function exists.   *)
(* SizeExact is about a walk that is over; Good says what is true on the   *)
(* way: counted, owed and left make up the size.                           *)
(***************************************************************************)
EXTENDS FileHandles, Directories, SequenceTheorems, FiniteSetTheorems, WellFoundedInduction,
        TLAPS

Closes(t) == thread[t].op = "close"

\* A request is on the wire only under the lock.
Locked == \A t \in Threads : At(t, "io") => lock = t

\* What is known of a thread that took the handle out of the table.
Claimed ==
  \A t \in Threads : Closes(t) =>
    /\ ~listed
    /\ ~At(t, "idle")
    /\ closes = IF At(t, "io") THEN 1 ELSE 0
    /\ kind = "random" /\ ~At(t, "removed") => closing
    /\ \A u \in Threads : Closes(u) => u = t

RemovedCloses == \A t \in Threads : At(t, "removed") => Closes(t)

Closed ==
  /\ closes \in {0, 1}
  /\ closes = 1 => ~listed /\ (kind = "random" => closing)

NotYetOpen ==
  kind = "none" => ~listed /\ closes = 0 /\ \A t \in Threads : At(t, "idle")

Poisons == broken => poisoned

\* A resize asks for no more than the signed length.
Ranged == \A t \in Threads : thread[t].op = "resize" => thread[t].size <= MaxLen

Requests == Locked /\ Claimed /\ RemovedCloses /\ Closed /\ NotYetOpen /\ Poisons

IInv == TypeOK /\ Ranged /\ Requests /\ SafeTraffic /\ CachedLength

\* It holds initially.
LEMMA InitInv == Init => IInv
<1> SUFFICES ASSUME Init PROVE IInv
  OBVIOUS
<1>1. thread = [t \in Threads |-> Idle]
  BY DEF Init
<1>2. Idle \in CallRecord
  BY DEF Idle, Ops, CallRecord
<1>3. FlagTypes
  BY DEF Init, FlagTypes
<1>4. FileTypes
  BY <1>1, <1>2, HandleLimits DEF Init, FileTypes
<1>5. \A t \in Threads : At(t, "idle") /\ thread[t].op = "none"
  BY <1>1 DEF At, Idle
<1>6. Ranged
  BY <1>5 DEF Ranged
<1>7. Requests /\ SafeTraffic
  BY <1>5 DEF Init, Requests, Locked, Claimed, RemovedCloses, Closed, NotYetOpen,
     Poisons, SafeTraffic, Closes, At
<1>8. CachedLength
  BY DEF Init, CachedLength
<1> QED
  BY <1>3, <1>4, <1>6, <1>7, <1>8 DEF IInv, TypeOK

USE DEF vars, session, file

\* The flags, by the few actions that set one.
LEMMA StepFlags == FlagTypes /\ [Next]_vars => FlagTypes'
<1> SUFFICES ASSUME FlagTypes, [Next]_vars PROVE FlagTypes'
  OBVIOUS
<1> USE DEF FlagTypes
<1>1. CASE OpenRandom
  BY <1>1 DEF OpenRandom
<1>2. CASE OpenWritable
  BY <1>2 DEF OpenWritable
<1>3. ASSUME NEW t \in Threads, ThreadStep(t) PROVE FlagTypes'
  <2>1. CASE RemoveHandle(t)
    BY <2>1 DEF RemoveHandle
  <2>2. CASE MarkClosing(t)
    BY <2>2, Zenon DEF MarkClosing
  <2>3. CASE FailIo(t)
    BY <2>3 DEF FailIo
  <2>4. CASE UNCHANGED <<listed, closing, poisoned, broken>>
    BY <2>4
  <2> QED
    BY <1>3, <2>1, <2>2, <2>3, <2>4 DEF ThreadStep, GetRead, GetWrite, GetResize,
       GetFlush, Get, Refuse, StartIo, StartClose, EndQuiet, EndWrite, EndResize, Succeed
<1>4. CASE UNCHANGED vars
  BY <1>4
<1> QED
  BY <1>1, <1>2, <1>3, <1>4 DEF Next

\* Types and ranges, action by action.
LEMMA StepFile == FileTypes /\ Ranged /\ [Next]_vars => FileTypes' /\ Ranged'
<1> SUFFICES ASSUME FileTypes, Ranged, [Next]_vars PROVE FileTypes' /\ Ranged'
  OBVIOUS
<1> USE HandleLimits DEF FileTypes, CallRecord, Ranged, Ops
<1>1. CASE OpenRandom
  BY <1>1 DEF OpenRandom
<1>2. CASE OpenWritable
  BY <1>2 DEF OpenWritable
<1>3. ASSUME NEW t \in Threads, ThreadStep(t) PROVE FileTypes' /\ Ranged'
  <2>1. ASSUME NEW off \in 0 .. MaxLen, NEW size \in 0 .. MaxLen, GetRead(t, off, size)
        PROVE FileTypes' /\ Ranged'
    BY <2>1 DEF GetRead, Get, Call
  <2>2. ASSUME NEW off \in 0 .. MaxLen, NEW size \in 0 .. MaxLen + 1, GetWrite(t, off, size)
        PROVE FileTypes' /\ Ranged'
    BY <2>2 DEF GetWrite, Get, Call
  <2>3. ASSUME NEW size \in 0 .. MaxLen + 1, GetResize(t, size)
        PROVE FileTypes' /\ Ranged'
    BY <2>3 DEF GetResize, Get, Call
  <2>4. CASE GetFlush(t)
    BY <2>4 DEF GetFlush, Get, Call
  <2>5. CASE RemoveHandle(t)
    BY <2>5 DEF RemoveHandle, Call
  <2>6. CASE MarkClosing(t)
    BY <2>6 DEF MarkClosing, Goto
  <2>7. CASE Refuse(t)
    BY <2>7 DEF Refuse, Done, Idle
  <2>8. CASE StartIo(t)
    BY <2>8 DEF StartIo, Goto
  <2>9. CASE StartClose(t)
    BY <2>9 DEF StartClose, Goto
  <2>10. CASE EndQuiet(t)
    BY <2>10 DEF EndQuiet, Succeed, Done, Idle
  <2>11. CASE EndWrite(t)
    <3>1. thread[t].off + thread[t].size \in 0 .. MaxLen
      BY <2>11 DEF EndWrite
    <3>2. len' \in 0 .. MaxLen /\ eof' \in 0 .. MaxLen
      BY <2>11, <3>1 DEF EndWrite, Larger, RecordWrite, Succeed
    <3> QED
      BY <2>11, <3>2 DEF EndWrite, Succeed, Done, Idle
  <2>12. CASE EndResize(t)
    BY <2>12 DEF EndResize, Succeed, Done, Idle
  <2>13. CASE FailIo(t)
    <3>1. eof' \in 0 .. MaxLen
      BY <2>13 DEF FailIo, MayHaveApplied, Larger
    <3> QED
      BY <2>13, <3>1 DEF FailIo, Done, Idle
  <2> QED
    BY <1>3, <2>1, <2>2, <2>3, <2>4, <2>5, <2>6, <2>7, <2>8, <2>9, <2>10, <2>11,
       <2>12, <2>13 DEF ThreadStep
<1>4. CASE UNCHANGED vars
  BY <1>4
<1> QED
  BY <1>1, <1>2, <1>3, <1>4 DEF Next

\* Who may send what, action by action.
LEMMA StepRequests ==
  TypeOK /\ Requests /\ SafeTraffic /\ [Next]_vars => Requests' /\ SafeTraffic'
<1> SUFFICES ASSUME TypeOK, Requests, SafeTraffic, [Next]_vars
             PROVE Requests' /\ SafeTraffic'
  OBVIOUS
<1> USE HandleLimits DEF TypeOK, FlagTypes, FileTypes, CallRecord, Requests, Locked, Claimed,
        RemovedCloses, Closed, NotYetOpen, Poisons, SafeTraffic, At, Closes
<1>1. CASE OpenRandom
  BY <1>1 DEF OpenRandom
<1>2. CASE OpenWritable
  BY <1>2 DEF OpenWritable
<1>3. ASSUME NEW t \in Threads, ThreadStep(t) PROVE Requests' /\ SafeTraffic'
  <2>1. ASSUME NEW what \in Ops \ {"close"}, NEW off \in Nat, NEW size \in Nat,
               Get(t, what, off, size)
        PROVE Requests' /\ SafeTraffic'
    BY <2>1 DEF Get, Call, Ops
  <2>2. CASE RemoveHandle(t)
    BY <2>2 DEF RemoveHandle, Call
  <2>3. CASE MarkClosing(t)
    BY <2>3 DEF MarkClosing, Goto
  <2>4. CASE Refuse(t)
    BY <2>4 DEF Refuse, Done, Idle
  <2>5. CASE StartIo(t)
    BY <2>5 DEF StartIo, Goto, Nobody
  <2>6. CASE StartClose(t)
    BY <2>6 DEF StartClose, Goto, Nobody
  <2>7. CASE EndQuiet(t)
    BY <2>7 DEF EndQuiet, Succeed, Done, Idle
  <2>8. CASE EndWrite(t)
    BY <2>8 DEF EndWrite, Succeed, Done, Idle
  <2>9. CASE EndResize(t)
    BY <2>9 DEF EndResize, Succeed, Done, Idle
  <2>10. CASE FailIo(t)
    BY <2>10 DEF FailIo, Done, Idle
  <2> QED
    BY <1>3, <2>1, <2>2, <2>3, <2>4, <2>5, <2>6, <2>7, <2>8, <2>9, <2>10
    DEF ThreadStep, GetRead, GetWrite, GetResize, GetFlush, Ops
<1>4. CASE UNCHANGED vars
  BY <1>4
<1> QED
  BY <1>1, <1>2, <1>3, <1>4 DEF Next

\* The cached length, which only four actions touch.
LEMMA StepLength ==
  TypeOK /\ Requests /\ CachedLength /\ [Next]_vars => CachedLength'
<1> SUFFICES ASSUME TypeOK, Requests, CachedLength, [Next]_vars PROVE CachedLength'
  OBVIOUS
<1> USE DEF CachedLength
<1>1. CASE OpenRandom
  BY <1>1 DEF OpenRandom
<1>2. CASE OpenWritable
  BY <1>2 DEF OpenWritable
<1>3. ASSUME NEW t \in Threads, ThreadStep(t) PROVE CachedLength'
  <2>1. CASE EndWrite(t)
    BY <2>1 DEF EndWrite, Succeed, RecordWrite
  <2>2. CASE EndResize(t)
    BY <2>2 DEF EndResize, Succeed
  <2>3. CASE FailIo(t)
    BY <2>3 DEF FailIo
  <2>4. CASE UNCHANGED <<kind, poisoned, len, eof>>
    BY <2>4
  <2> QED
    BY <1>3, <2>1, <2>2, <2>3, <2>4 DEF ThreadStep, GetRead, GetWrite, GetResize,
       GetFlush, Get, RemoveHandle, MarkClosing, Refuse, StartIo, StartClose, EndQuiet, Succeed
<1>4. CASE UNCHANGED vars
  BY <1>4
<1> QED
  BY <1>1, <1>2, <1>3, <1>4 DEF Next

\* Every step preserves it.
LEMMA StepInv == IInv /\ [Next]_vars => IInv'
  BY StepFlags, StepFile, StepRequests, StepLength DEF IInv, TypeOK

\* It is an invariant of the specification.
LEMMA Invariance == Spec => []IInv
  BY InitInv, StepInv, PTL DEF Spec

(***************************************************************************)
(* The handle's state keeps its type, and neither the cached nor the       *)
(* remote end of file passes i64::MAX, whichever calls the threads make.   *)
(***************************************************************************)
THEOREM HandleTypes == Spec => []TypeOK
  BY Invariance, PTL DEF IInv

(***************************************************************************)
(* No request follows a failed one, and none follows CLOSE on a            *)
(* random-access handle, for any number of threads waiting for the lock.   *)
(***************************************************************************)
THEOREM HandleTraffic == Spec => []SafeTraffic
  BY Invariance, PTL DEF IInv

(***************************************************************************)
(* CLOSE is sent by one thread only, with nothing else on the wire.        *)
(***************************************************************************)
THEOREM HandleClosedAlone == Spec => []ClosedAlone
<1>1. IInv => ClosedAlone
  BY HandleLimits DEF IInv, TypeOK, FileTypes, Requests, Locked, Closed, ClosedAlone, At
<1> QED
  BY <1>1, Invariance, PTL

(***************************************************************************)
(* The length that clips READs is the file's own until a call fails.       *)
(***************************************************************************)
THEOREM HandleLength == Spec => []CachedLength
  BY Invariance, PTL DEF IInv

-----------------------------------------------------------------------------
(***************************************************************************)
(* Directories: induction over numbers, and the sums, the decoder and the  *)
(* walk of Directories for every input.                                    *)
(***************************************************************************)
\* A set of numbers has a smallest one: every induction below is this, applied to
\* the set of counterexamples.
LEMMA NatMin ==
  ASSUME NEW T, T \subseteq Nat, T # {}
  PROVE  \E x \in T : \A y \in T : x <= y
<1> DEFINE R == OpToRel(<, Nat)
<1>1. IsWellFoundedOn(R, Nat)
  BY NatLessThanWellFounded
<1>2. PICK x \in T : \A y \in T : ~ (<<y, x>> \in R)
  <2> HIDE DEF R
  <2> QED BY <1>1, WFMin
<1>3. R = {ss \in Nat \X Nat : ss[1] < ss[2]}
  BY Zenon DEF OpToRel
<1>4. ASSUME NEW y \in T PROVE x <= y
  <2> HIDE DEF R
  <2>1. <<y, x>> \notin {ss \in Nat \X Nat : ss[1] < ss[2]}
    BY <1>2, <1>3
  <2> QED BY <2>1
<1> QED BY <1>4

LEMMA SetInduction ==
  ASSUME NEW S, 0 \in S, \A n \in Nat : n \in S => n + 1 \in S
  PROVE  Nat \subseteq S
<1> SUFFICES ASSUME Nat \ S # {} PROVE FALSE
  OBVIOUS
<1>1. PICK x \in Nat \ S : \A y \in Nat \ S : x <= y
  BY NatMin
<1>2. x # 0 /\ x - 1 \in Nat
  BY <1>1
<1>3. x - 1 \in S
  BY <1>1, <1>2
<1>4. x \in S
  BY <1>2, <1>3
<1> QED BY <1>1, <1>4

IsStep(step, N, V) == step \in [1 .. N -> [V -> V]]

IsLoop(F, N, V, base, step) ==
  /\ F \in [0 .. N -> V]
  /\ F[0] = base
  /\ \A k \in 1 .. N : F[k] = step[k][F[k - 1]]

\* A loop whose body is a function of the state has a sequence of states.
LEMMA LoopExists ==
  ASSUME NEW N \in Nat, NEW V, NEW base \in V, NEW step, IsStep(step, N, V)
  PROVE  \E F : IsLoop(F, N, V, base, step)
<1> USE DEF IsStep, IsLoop
<1> DEFINE Is(F, n) == IsLoop(F, n, V, base, step)
           Has(n) == n <= N => \E F : Is(F, n)
           S == {n \in Nat : Has(n)}
<1>1. Has(0)
  <2>1. Is([k \in 0 .. 0 |-> base], 0)
    OBVIOUS
  <2> QED BY <2>1
<1>2. ASSUME NEW n \in Nat, Has(n) PROVE Has(n + 1)
  <2> SUFFICES ASSUME n + 1 <= N PROVE \E F : Is(F, n + 1)
    OBVIOUS
  <2>1. PICK F : Is(F, n)
    BY <1>2
  <2> DEFINE G == [k \in 0 .. n + 1 |-> IF k = n + 1 THEN step[n + 1][F[n]] ELSE F[k]]
  <2>2. step[n + 1][F[n]] \in V
    <3>1. F[n] \in V
      BY <2>1
    <3> QED BY <3>1
  <2>3. G \in [0 .. n + 1 -> V]
    BY <2>1, <2>2
  <2>4. G[0] = base
    BY <2>1
  <2>5. ASSUME NEW k \in 1 .. n + 1 PROVE G[k] = step[k][G[k - 1]]
    BY <2>1
  <2> HIDE DEF G
  <2>6. Is(G, n + 1)
    BY <2>3, <2>4, <2>5
  <2> QED BY <2>6
<1> HIDE DEF Has
<1>3. 0 \in S /\ \A n \in Nat : n \in S => n + 1 \in S
  BY <1>1, <1>2
<1>4. N \in S
  <2> HIDE DEF S
  <2> QED BY <1>3, SetInduction
<1>5. PICK F : Is(F, N)
  BY <1>4 DEF Has
<1> QED BY <1>5

\* The sums of a sequence, one number at a time.
LEMMA PartialSumsDef ==
  ASSUME NEW w \in Seq(Nat)
  PROVE  /\ PartialSums(w) \in [0 .. Len(w) -> Nat]
         /\ PartialSums(w)[0] = 0
         /\ \A k \in 1 .. Len(w) : PartialSums(w)[k] = PartialSums(w)[k - 1] + w[k]
<1> DEFINE N == Len(w)
           step == [k \in 1 .. N |-> [v \in Nat |-> v + w[k]]]
           Eq(f) == f = [k \in 0 .. N |-> IF k = 0 THEN 0 ELSE f[k - 1] + w[k]]
<1>1. N \in Nat /\ \A k \in 1 .. N : w[k] \in Nat
  OBVIOUS
<1>2. step \in [1 .. N -> [Nat -> Nat]]
  BY <1>1
<1>3. PICK F : IsLoop(F, N, Nat, 0, step)
  <2>1. 0 \in Nat /\ IsStep(step, N, Nat)
    BY <1>2 DEF IsStep
  <2> HIDE DEF step, N
  <2> QED BY <1>1, <2>1, LoopExists
<1>3a. F \in [0 .. N -> Nat] /\ F[0] = 0 /\ \A k \in 1 .. N : F[k] = step[k][F[k - 1]]
  <2> HIDE DEF step, N
  <2> QED BY <1>3 DEF IsLoop
<1>4. ASSUME NEW k \in 1 .. N PROVE F[k] = F[k - 1] + w[k]
  <2>1. k - 1 \in 0 .. N
    BY <1>1
  <2>2. F[k - 1] \in Nat
    BY <2>1, <1>3a
  <2> QED BY <2>2, <1>3a
<1>5. Eq(F)
  <2>1. \A k \in 0 .. N : F[k] = IF k = 0 THEN 0 ELSE F[k - 1] + w[k]
    BY <1>3a, <1>4, <1>1
  <2> QED BY <1>3a, <2>1
<1>6. PartialSums(w) = CHOOSE f : Eq(f)
  BY DEF PartialSums
<1>7. Eq(PartialSums(w))
  <2> HIDE DEF Eq
  <2> QED BY <1>5, <1>6
<1>8. /\ PartialSums(w)[0] = 0
      /\ \A k \in 1 .. N : PartialSums(w)[k] = PartialSums(w)[k - 1] + w[k]
  <2> DEFINE p == PartialSums(w)
  <2>1. p = [k \in 0 .. N |-> IF k = 0 THEN 0 ELSE p[k - 1] + w[k]]
    BY <1>7
  <2> HIDE DEF p
  <2>2. p[0] = 0 /\ \A k \in 1 .. N : p[k] = p[k - 1] + w[k]
    BY <2>1, <1>1
  <2> QED BY <2>2 DEF p
<1>9. PartialSums(w) \in [0 .. N -> Nat]
  <2> DEFINE p == PartialSums(w)
             S == {k \in Nat : k <= N => p[k] \in Nat}
  <2>1. p[0] = 0 /\ (\A k \in 1 .. N : p[k] = p[k - 1] + w[k]) /\ DOMAIN p = 0 .. N
        /\ p = [k \in DOMAIN p |-> p[k]]
    BY <1>7, <1>8
  <2> HIDE DEF p
  <2>2. 0 \in S
    BY <2>1
  <2>3. ASSUME NEW k \in Nat, k \in S PROVE k + 1 \in S
    <3> SUFFICES ASSUME k + 1 <= N PROVE p[k + 1] \in Nat
      OBVIOUS
    <3>1. k + 1 \in 1 .. N /\ (k + 1) - 1 = k /\ p[k] \in Nat
      BY <1>1, <2>3
    <3>2. p[k + 1] = p[k] + w[k + 1] /\ w[k + 1] \in Nat
      BY <1>1, <2>1, <3>1
    <3> QED BY <3>1, <3>2
  <2>4. Nat \subseteq S
    <3> HIDE DEF S
    <3> QED BY <2>2, <2>3, SetInduction
  <2>5. \A k \in 0 .. N : p[k] \in Nat
    BY <1>1, <2>4
  <2> QED BY <2>1, <2>5 DEF p
<1> QED BY <1>8, <1>9

\* Two sequences that agree on their first numbers agree on the sums of these.
LEMMA PartialSumsPrefix ==
  ASSUME NEW w \in Seq(Nat), NEW x \in Seq(Nat), NEW n \in Nat, n <= Len(w), n <= Len(x),
         \A i \in 1 .. n : w[i] = x[i]
  PROVE  \A k \in 0 .. n : PartialSums(w)[k] = PartialSums(x)[k]
<1> DEFINE p == PartialSums(w)
           q == PartialSums(x)
           S == {k \in Nat : k <= n => p[k] = q[k]}
<1>1. p \in [0 .. Len(w) -> Nat] /\ p[0] = 0 /\ \A k \in 1 .. Len(w) : p[k] = p[k - 1] + w[k]
  BY PartialSumsDef
<1>2. q \in [0 .. Len(x) -> Nat] /\ q[0] = 0 /\ \A k \in 1 .. Len(x) : q[k] = q[k - 1] + x[k]
  BY PartialSumsDef
<1> HIDE DEF p, q
<1>3. 0 \in S
  BY <1>1, <1>2
<1>4. ASSUME NEW k \in Nat, k \in S PROVE k + 1 \in S
  <2> SUFFICES ASSUME k + 1 <= n PROVE p[k + 1] = q[k + 1]
    OBVIOUS
  <2>1. p[k] = q[k] /\ k + 1 \in 1 .. Len(w) /\ k + 1 \in 1 .. Len(x) /\ k + 1 \in 1 .. n
    BY <1>4
  <2>2. p[k + 1] = p[k] + w[k + 1]
    BY <1>1, <2>1
  <2>3. q[k + 1] = q[k] + x[k + 1]
    BY <1>2, <2>1
  <2> QED BY <2>1, <2>2, <2>3
<1>5. Nat \subseteq S
  <2> HIDE DEF S
  <2> QED BY <1>3, <1>4, SetInduction
<1>6. \A k \in 0 .. n : p[k] = q[k]
  BY <1>5
<1> QED BY <1>6 DEF p, q

\* A sum of positive numbers grows with each of them.
LEMMA PartialSumsGrow ==
  ASSUME NEW w \in Seq(Nat), \A i \in 1 .. Len(w) : w[i] > 0
  PROVE  \A i, j \in 0 .. Len(w) : i < j => PartialSums(w)[i] < PartialSums(w)[j]
<1> DEFINE p == PartialSums(w)
           S == {j \in Nat : j <= Len(w) => \A i \in 0 .. j - 1 : p[i] < p[j]}
<1>1. p \in [0 .. Len(w) -> Nat] /\ \A k \in 1 .. Len(w) : p[k] = p[k - 1] + w[k]
  BY PartialSumsDef
<1> HIDE DEF p
<1>2. Len(w) \in Nat /\ \A i \in 1 .. Len(w) : w[i] \in Nat
  OBVIOUS
<1>3. 0 \in S
  OBVIOUS
<1>4. ASSUME NEW j \in Nat, j \in S PROVE j + 1 \in S
  <2> SUFFICES ASSUME j + 1 <= Len(w), NEW i \in 0 .. j PROVE p[i] < p[j + 1]
    OBVIOUS
  <2>0. j + 1 \in 1 .. Len(w) /\ j \in 0 .. Len(w) /\ i \in 0 .. Len(w)
    BY <1>2
  <2>1. j + 1 \in 1 .. Len(w) /\ p[j] \in Nat /\ p[i] \in Nat
    BY <1>1, <2>0
  <2>2. p[j + 1] = p[j] + w[j + 1] /\ w[j + 1] > 0 /\ w[j + 1] \in Nat
    BY <1>1, <1>2, <2>1
  <2>3. i = j \/ p[i] < p[j]
    BY <1>2, <1>4
  <2> QED BY <2>1, <2>2, <2>3
<1>5. Nat \subseteq S
  <2> HIDE DEF S
  <2> QED BY <1>3, <1>4, SetInduction
<1>6. \A i, j \in 0 .. Len(w) : i < j => p[i] < p[j]
  BY <1>2, <1>5
<1> QED BY <1>6 DEF p

\* The sum of a sequence and of one number more.
LEMMA SumOfAppend ==
  ASSUME NEW w \in Seq(Nat), NEW x \in Nat
  PROVE  SumOf(Append(w, x)) = SumOf(w) + x /\ SumOf(w) \in Nat
<1> DEFINE u == Append(w, x)
<1>1. u \in Seq(Nat) /\ Len(u) = Len(w) + 1 /\ u[Len(u)] = x /\ \A i \in 1 .. Len(w) : w[i] = u[i]
  OBVIOUS
<1>2. Len(w) \in Nat
  OBVIOUS
<1> HIDE DEF u
<1>3. PartialSums(w)[Len(w)] = PartialSums(u)[Len(w)]
  <2>1. Len(w) <= Len(w) /\ Len(w) <= Len(u) /\ Len(w) \in 0 .. Len(w)
    BY <1>1, <1>2
  <2> QED BY <1>1, <1>2, <2>1, PartialSumsPrefix
<1>4. PartialSums(u)[Len(u)] = PartialSums(u)[Len(u) - 1] + u[Len(u)]
  <2>1. Len(u) \in 1 .. Len(u)
    BY <1>1, <1>2
  <2> QED BY <1>1, <2>1, PartialSumsDef
<1>5. PartialSums(w)[Len(w)] \in Nat
  <2>1. PartialSums(w) \in [0 .. Len(w) -> Nat]
    BY PartialSumsDef
  <2> QED BY <1>2, <2>1
<1>6. Len(u) - 1 = Len(w)
  BY <1>1, <1>2
<1> QED BY <1>1, <1>3, <1>4, <1>5, <1>6 DEF SumOf, u

\* A slot is a positive multiple of eight with room for its entry.
LEMMA SlotLenFacts ==
  ASSUME NEW e, e.name \in Nat
  PROVE  /\ NameBytes(e) \in Nat /\ NameBytes(e) % 2 = 0
         /\ SlotLen(e) \in Nat /\ SlotLen(e) % 8 = 0
         /\ SlotLen(e) >= Fixed + NameBytes(e)
         /\ SlotLen(e) + 1 > 0 /\ (SlotLen(e) + 1) % 8 # 0
<1>1. PICK n \in Nat : n = e.name
  OBVIOUS
<1>2. PICK m \in Nat : m = (16 + 2 * n + 7) \div 8
  OBVIOUS
<1>3. 8 * m <= 16 + 2 * n + 7 /\ 16 + 2 * n + 7 < 8 * m + 8
  BY <1>2
<1>4. (8 * m) % 8 = 0 /\ (8 * m + 1) % 8 = 1 /\ (2 * n) % 2 = 0
  OBVIOUS
<1>5. SlotLen(e) = m * 8 /\ NameBytes(e) = 2 * n
  BY <1>1, <1>2 DEF SlotLen, NameBytes, Fixed
<1> HIDE DEF SlotLen, NameBytes
<1>6. m * 8 = 8 * m
  OBVIOUS
<1> QED BY <1>3, <1>4, <1>5, <1>6 DEF Fixed

-----------------------------------------------------------------------------
\* The decoder's loop is the one sequence of states that starts and goes on as it does.
IsRun(T, buffer, n) ==
  T = [k \in 0 .. n |-> IF k = 0 THEN DecodeStart ELSE DecodeTurn(buffer, T[k - 1])]

LEMMA DecodeLoopIs ==
  ASSUME NEW buffer, NEW n \in Nat, n = Len(buffer.slots), NEW T, IsRun(T, buffer, n)
  PROVE  \A k \in 0 .. n : DecodeLoop(buffer)[k] = T[k]
<1> USE DEF IsRun
<1> DEFINE Eq(f) == IsRun(f, buffer, n)
           L == DecodeLoop(buffer)
           S == {k \in Nat : k <= n => L[k] = T[k]}
<1>1. L = CHOOSE f : Eq(f)
  BY DEF DecodeLoop
<1>2. Eq(L)
  <2>1. Eq(T)
    OBVIOUS
  <2> HIDE DEF Eq, L
  <2> QED BY <1>1, <2>1
<1> HIDE DEF L
<1>3. 0 \in S
  BY <1>2
<1>4. ASSUME NEW k \in Nat, k \in S PROVE k + 1 \in S
  <2> SUFFICES ASSUME k + 1 <= n PROVE L[k + 1] = T[k + 1]
    OBVIOUS
  <2>1. L[k] = T[k] /\ k + 1 \in 0 .. n /\ k + 1 # 0 /\ (k + 1) - 1 = k
    BY <1>4
  <2>2. L[k + 1] = DecodeTurn(buffer, L[k])
    BY <1>2, <2>1
  <2>3. T[k + 1] = DecodeTurn(buffer, T[k])
    BY <2>1
  <2> QED BY <2>1, <2>2, <2>3
<1>5. Nat \subseteq S
  <2> HIDE DEF S
  <2> QED BY <1>3, <1>4, SetInduction
<1>6. ASSUME NEW k \in 0 .. n PROVE L[k] = T[k]
  <2>1. k \in Nat /\ k <= n
    OBVIOUS
  <2>2. k \in S
    BY <1>5, <2>1
  <2> QED BY <2>1, <2>2
<1> QED BY <1>6 DEF L

\* What the decoder may take for an entry.
Plain(e) == e.name \in Nat /\ e.size \in Nat

\* The offsets of an honest buffer.
LEMMA OffsetFacts ==
  ASSUME NEW E, NEW s \in Seq(E), \A e \in E : Plain(e)
  PROVE  /\ \A i \in 1 .. Len(s) : OffsetOf(s, i) \in Nat
         /\ OffsetOf(s, 1) = 0
         /\ \A i \in 1 .. Len(s) - 1 : OffsetOf(s, i + 1) = OffsetOf(s, i) + SlotLen(s[i])
         /\ \A i, j \in 1 .. Len(s) : i < j => OffsetOf(s, i) < OffsetOf(s, j)
<1> DEFINE w == SlotLens(s)
           p == PartialSums(w)
           n == Len(s)
<1>1. n \in Nat /\ \A i \in 1 .. n : s[i] \in E
  OBVIOUS
<1>2. \A i \in 1 .. n : SlotLen(s[i]) \in Nat /\ SlotLen(s[i]) > 0
  <2> TAKE i \in 1 .. n
  <2>1. s[i].name \in Nat
    BY <1>1 DEF Plain
  <2>2. SlotLen(s[i]) \in Nat /\ SlotLen(s[i]) >= 16 + NameBytes(s[i]) /\ NameBytes(s[i]) \in Nat
    BY <2>1, SlotLenFacts DEF Fixed
  <2> QED BY <2>2
<1>3. w \in Seq(Nat) /\ Len(w) = n /\ \A i \in 1 .. n : w[i] = SlotLen(s[i])
  BY <1>2 DEF SlotLens
<1>4. p \in [0 .. n -> Nat] /\ p[0] = 0 /\ \A k \in 1 .. n : p[k] = p[k - 1] + w[k]
  <2> HIDE DEF w, n
  <2> QED BY <1>3, PartialSumsDef
<1>5. \A i, j \in 0 .. n : i < j => p[i] < p[j]
  <2>1. \A i \in 1 .. Len(w) : w[i] > 0
    BY <1>2, <1>3
  <2> HIDE DEF w, n
  <2> QED BY <1>3, <2>1, PartialSumsGrow
<1>6. \A i : OffsetOf(s, i) = p[i - 1]
  BY DEF OffsetOf
<1> HIDE DEF w, p, n
<1>7. ASSUME NEW i \in 1 .. n PROVE OffsetOf(s, i) \in Nat
  <2>1. i - 1 \in 0 .. n
    BY <1>1
  <2> QED BY <1>4, <1>6, <2>1
<1>8. OffsetOf(s, 1) = 0
  BY <1>4, <1>6
<1>9. \A i \in 1 .. n - 1 : OffsetOf(s, i + 1) = OffsetOf(s, i) + SlotLen(s[i])
  <2> TAKE i \in 1 .. n - 1
  <2>1. i \in 1 .. n /\ (i + 1) - 1 = i
    BY <1>1
  <2>2. p[i] = p[i - 1] + w[i]
    BY <1>4, <2>1
  <2> QED BY <1>3, <1>6, <2>1, <2>2
<1>10. \A i, j \in 1 .. n : i < j => OffsetOf(s, i) < OffsetOf(s, j)
  <2> TAKE i, j \in 1 .. n
  <2>1. i - 1 \in 0 .. n /\ j - 1 \in 0 .. n /\ (i < j => i - 1 < j - 1)
    BY <1>1
  <2> QED BY <1>5, <1>6, <2>1
<1> QED BY <1>7, <1>8, <1>9, <1>10 DEF n

\* An honest buffer and its slots.
LEMMA BufferFacts ==
  ASSUME NEW E, NEW s \in Seq(E), \A e \in E : Plain(e), NEW n \in Nat, n = Len(s), n > 0,
         NEW b, b = Buffer(s)
  PROVE  /\ b.len = OffsetOf(s, n) + 16 + NameBytes(s[n]) /\ b.len \in Nat
         /\ b.slots \in Seq(Range(b.slots)) /\ Len(b.slots) = n
         /\ \A i \in 1 .. n : /\ b.slots[i].at = OffsetOf(s, i)
                              /\ b.slots[i].entry = s[i]
                              /\ b.slots[i].name = NameBytes(s[i])
                              /\ b.slots[i].next = IF i = n THEN 0 ELSE SlotLen(s[i])
         /\ DOMAIN b.slots = 1 .. n
<1>1. n \in 1 .. n /\ DOMAIN s = 1 .. n
  OBVIOUS
<1>2. OffsetOf(s, n) \in Nat
  BY <1>1, OffsetFacts
<1>3. NameBytes(s[n]) \in Nat
  <2>1. s[n].name \in Nat
    BY <1>1 DEF Plain
  <2> QED BY <2>1, SlotLenFacts
<1>4. Last(s) = s[n]
  BY DEF Last
<1>5. b.len = OffsetOf(s, n) + 16 + NameBytes(s[n])
  BY <1>4 DEF Buffer, Fixed
<1>6. b.slots = [i \in 1 .. n |->
        [at |-> OffsetOf(s, i), entry |-> s[i], name |-> NameBytes(s[i]),
         next |-> IF i = n THEN 0 ELSE SlotLen(s[i])]]
  BY <1>1 DEF Buffer
<1>7. DOMAIN b.slots = 1 .. n
  BY <1>6
<1>8. Range(b.slots) = {b.slots[i] : i \in 1 .. n}
  BY <1>7 DEF Range
<1>9. b.slots \in Seq(Range(b.slots)) /\ Len(b.slots) = n
  <2> DEFINE q == b.slots
  <2>1. q = [i \in 1 .. n |-> q[i]]
    BY <1>6
  <2>2. \A i \in 1 .. n : q[i] \in Range(q)
    BY <1>8
  <2> HIDE DEF q
  <2>3. q \in Seq(Range(q)) /\ Len(q) = n
    BY <2>1, <2>2
  <2> QED BY <2>3 DEF q
<1>10. b.len \in Nat
  BY <1>2, <1>3, <1>5
<1> QED BY <1>5, <1>6, <1>7, <1>9, <1>10

\* What one turn of the decoder makes of the slot it is at.
Running(offset, entries) == [offset |-> offset, entries |-> entries, ok |-> TRUE, more |-> TRUE]
Ended(offset, entries) == [offset |-> offset, entries |-> entries, ok |-> TRUE, more |-> FALSE]
Refused(offset, entries) == [offset |-> offset, entries |-> entries, ok |-> FALSE, more |-> FALSE]

SlotFits(b, o, slot) ==
  /\ ~(o >= b.len) /\ ~(b.len - o < 16) /\ ~(slot.entry.size < 0)
  /\ slot.name % 2 = 0 /\ ~(16 + slot.name > b.len - o)

NextFits(b, o, slot) ==
  /\ slot.next # 0 /\ slot.next % 8 = 0
  /\ ~(slot.next < 16 + slot.name) /\ ~(slot.next > b.len - o)

LEMMA TurnEnds ==
  ASSUME NEW b, NEW o, NEW es, SlotFits(b, o, SlotAt(b, o)), SlotAt(b, o).next = 0
  PROVE  DecodeTurn(b, Running(o, es)) = Ended(o, Append(es, SlotAt(b, o).entry))
BY DEF DecodeTurn, Fixed, SlotFits, Running, Ended

LEMMA TurnGoesOn ==
  ASSUME NEW b, NEW o, NEW es, SlotFits(b, o, SlotAt(b, o)), NextFits(b, o, SlotAt(b, o))
  PROVE  DecodeTurn(b, Running(o, es)) =
           Running(o + SlotAt(b, o).next, Append(es, SlotAt(b, o).entry))
BY DEF DecodeTurn, Fixed, SlotFits, NextFits, Running

LEMMA TurnRefuses ==
  ASSUME NEW b, NEW o, NEW es, ~(o >= b.len),
         ~SlotFits(b, o, SlotAt(b, o)) \/ ~(SlotAt(b, o).next = 0 \/ NextFits(b, o, SlotAt(b, o)))
  PROVE  DecodeTurn(b, Running(o, es)) = Refused(o, es)
BY DEF DecodeTurn, Fixed, SlotFits, NextFits, Running, Refused

LEMMA TurnRests ==
  ASSUME NEW b, NEW o, NEW es
  PROVE  /\ DecodeTurn(b, Ended(o, es)) = Ended(o, es)
         /\ DecodeTurn(b, Refused(o, es)) = Refused(o, es)
BY DEF DecodeTurn, Ended, Refused

\* The decoder finds the slot of an honest buffer by its offset.
LEMMA HonestSlot ==
  ASSUME NEW E, NEW s \in Seq(E), \A e \in E : Plain(e), NEW n \in Nat, n = Len(s), n > 0,
         NEW b, b = Buffer(s), NEW i \in 1 .. n
  PROVE  SlotAt(b, OffsetOf(s, i)) = b.slots[i]
<1>1. /\ \A j \in 1 .. n : b.slots[j].at = OffsetOf(s, j)
      /\ Range(b.slots) = {b.slots[j] : j \in 1 .. n}
  <2>1. \A j \in 1 .. n : b.slots[j].at = OffsetOf(s, j)
    BY BufferFacts
  <2>2. DOMAIN b.slots = 1 .. n
    BY BufferFacts
  <2> QED BY <2>1, <2>2 DEF Range
<1>2. /\ \A j \in 1 .. n : OffsetOf(s, j) \in Nat
      /\ \A j, k \in 1 .. n : j < k => OffsetOf(s, j) < OffsetOf(s, k)
  BY OffsetFacts
<1>3. ASSUME NEW slot \in Range(b.slots), slot.at = OffsetOf(s, i) PROVE slot = b.slots[i]
  <2>1. PICK j \in 1 .. n : slot = b.slots[j]
    BY <1>1
  <2>2. OffsetOf(s, j) = OffsetOf(s, i)
    BY <1>1, <1>3, <2>1
  <2>3. i = j \/ i < j \/ j < i
    OBVIOUS
  <2> QED BY <1>2, <2>1, <2>2, <2>3
<1>4. b.slots[i] \in Range(b.slots) /\ b.slots[i].at = OffsetOf(s, i)
  BY <1>1
<1> QED BY <1>3, <1>4, Zenon DEF SlotAt

Honest(s, k) ==
  IF k < Len(s) THEN Running(OffsetOf(s, k + 1), SubSeq(s, 1, k)) ELSE Ended(OffsetOf(s, Len(s)), s)

LEMMA HonestTurn ==
  ASSUME NEW E, NEW s \in Seq(E), \A e \in E : Plain(e), NEW n \in Nat, n = Len(s), n > 0,
         NEW b, b = Buffer(s), NEW k \in 0 .. n - 1
  PROVE  DecodeTurn(b, Honest(s, k)) = Honest(s, k + 1)
<1>1. PICK i \in 1 .. n : i = k + 1
  OBVIOUS
<1> DEFINE slot == b.slots[i]
           o == OffsetOf(s, i)
           es == SubSeq(s, 1, k)
<1>2. Honest(s, k) = Running(o, es)
  BY <1>1 DEF Honest
<1>3. slot = SlotAt(b, o)
  BY HonestSlot
<1>4. /\ slot.entry = s[i] /\ slot.name = NameBytes(s[i])
      /\ slot.next = IF i = n THEN 0 ELSE SlotLen(s[i])
      /\ b.len = OffsetOf(s, n) + 16 + NameBytes(s[n])
  BY BufferFacts
<1>5. s[i].name \in Nat /\ s[i].size \in Nat /\ s[n].name \in Nat
  <2>1. s[i] \in E /\ s[n] \in E
    OBVIOUS
  <2> QED BY <2>1 DEF Plain
<1>6. NameBytes(s[n]) \in Nat
  BY <1>5, SlotLenFacts
<1>7. /\ NameBytes(s[i]) \in Nat /\ NameBytes(s[i]) % 2 = 0
      /\ SlotLen(s[i]) \in Nat /\ SlotLen(s[i]) % 8 = 0
      /\ SlotLen(s[i]) >= 16 + NameBytes(s[i])
  BY <1>5, SlotLenFacts DEF Fixed
<1>8. /\ o \in Nat /\ OffsetOf(s, n) \in Nat
      /\ i < n => OffsetOf(s, i + 1) = o + SlotLen(s[i])
      /\ i < n => OffsetOf(s, i + 1) <= OffsetOf(s, n)
  <2>1. /\ \A j \in 1 .. n : OffsetOf(s, j) \in Nat
        /\ \A j \in 1 .. n - 1 : OffsetOf(s, j + 1) = OffsetOf(s, j) + SlotLen(s[j])
        /\ \A j, m \in 1 .. n : j < m => OffsetOf(s, j) < OffsetOf(s, m)
    BY OffsetFacts
  <2>2. ASSUME i < n PROVE i \in 1 .. n - 1 /\ i + 1 \in 1 .. n /\ (i + 1 = n \/ i + 1 < n)
    BY <2>2
  <2>3. n \in 1 .. n
    OBVIOUS
  <2> QED BY <2>1, <2>2, <2>3
<1>9. Append(es, s[i]) = SubSeq(s, 1, i)
  BY <1>1
<1>10. CASE i = n
  <2>1. Honest(s, k + 1) = Ended(o, Append(es, slot.entry))
    <3>1. SubSeq(s, 1, i) = s
      BY <1>10
    <3>2. Honest(s, i) = Ended(o, s)
      BY <1>10 DEF Honest
    <3>3. Append(es, slot.entry) = s
      BY <3>1, <1>4, <1>9
    <3> QED BY <3>2, <3>3, <1>1
  <2>2. SlotFits(b, o, slot)
    BY <1>4, <1>5, <1>6, <1>7, <1>8, <1>10 DEF SlotFits
  <2>3. DecodeTurn(b, Running(o, es)) = Ended(o, Append(es, slot.entry))
    <3>1. slot.next = 0
      BY <1>4, <1>10
    <3> HIDE DEF slot, o, es
    <3> QED BY <2>2, <3>1, <1>3, TurnEnds
  <2> QED BY <2>1, <2>3, <1>2
<1>11. CASE i < n
  <2>1. Honest(s, k + 1) = Running(o + slot.next, Append(es, slot.entry))
    <3>1. Honest(s, i) = Running(OffsetOf(s, i + 1), SubSeq(s, 1, i))
      BY <1>11 DEF Honest
    <3>2. o + slot.next = OffsetOf(s, i + 1)
      BY <1>4, <1>8, <1>11
    <3>3. Append(es, slot.entry) = SubSeq(s, 1, i)
      BY <1>4, <1>9
    <3> QED BY <3>1, <3>2, <3>3, <1>1
  <2>2. SlotFits(b, o, slot) /\ NextFits(b, o, slot)
    <3>1. slot.next = SlotLen(s[i])
      BY <1>4, <1>11
    <3>2. PICK last \in Nat : last = OffsetOf(s, n) + NameBytes(s[n])
      BY <1>6, <1>8
    <3>3. o + SlotLen(s[i]) <= last /\ b.len = last + 16
      <4>1. PICK x, y, z : x = OffsetOf(s, n) /\ y = NameBytes(s[n]) /\ z = o + SlotLen(s[i])
        OBVIOUS
      <4>2. x \in Nat /\ y \in Nat /\ z \in Nat /\ z <= x
        <5>1. o \in Nat /\ SlotLen(s[i]) \in Nat /\ x \in Nat /\ y \in Nat
          BY <1>6, <1>7, <1>8, <4>1
        <5>2. OffsetOf(s, i + 1) = z /\ OffsetOf(s, i + 1) <= x
          BY <1>8, <1>11, <4>1
        <5>3. z \in Nat
          BY ONLY <4>1, <5>1
        <5> QED BY ONLY <5>1, <5>2, <5>3
      <4>3. last = x + y /\ b.len = (x + 16) + y
        BY <1>4, <3>2, <4>1
      <4>4. z <= last /\ b.len = last + 16
        BY ONLY <4>2, <4>3
      <4> QED BY <4>1, <4>4
    <3> HIDE DEF slot, o, es
    <3>4. /\ ~(o >= b.len) /\ ~(b.len - o < 16) /\ ~(16 + slot.name > b.len - o)
          /\ ~(slot.next < 16 + slot.name) /\ ~(slot.next > b.len - o)
      <4>1. PICK x, y, z : x = SlotLen(s[i]) /\ y = slot.name /\ z = b.len
        OBVIOUS
      <4>2. x \in Nat /\ y \in Nat /\ x >= 16 + y /\ o \in Nat
        BY <1>4, <1>7, <1>8, <4>1 DEF slot
      <4>3. last \in Nat /\ o + x <= last /\ z = last + 16
        BY <3>3, <4>1
      <4>4. ~(o >= z) /\ ~(z - o < 16) /\ ~(16 + y > z - o) /\ ~(x < 16 + y) /\ ~(x > z - o)
        BY ONLY <4>2, <4>3
      <4> QED BY <3>1, <4>1, <4>4
    <3>5. slot.next # 0 /\ slot.next % 8 = 0 /\ slot.name % 2 = 0 /\ ~(slot.entry.size < 0)
      BY <3>1, <1>4, <1>5, <1>7
    <3> QED BY <3>4, <3>5 DEF SlotFits, NextFits
  <2>3. DecodeTurn(b, Running(o, es)) = Running(o + slot.next, Append(es, slot.entry))
    <3> HIDE DEF slot, o, es
    <3> QED BY <2>2, <1>3, TurnGoesOn
  <2> QED BY <2>1, <2>3, <1>2
<1> QED BY <1>10, <1>11

\* An honest buffer of any length is decoded to its entries.
LEMMA HonestDecode ==
  ASSUME NEW E, NEW s \in Seq(E), \A e \in E : Plain(e), s # <<>>
  PROVE  Decode(Buffer(s)) = [ok |-> TRUE, entries |-> s]
<1> DEFINE n == Len(s)
           b == Buffer(s)
           T == [k \in 0 .. n |-> Honest(s, k)]
<1>1. n \in Nat /\ n > 0
  OBVIOUS
<1>2. Len(b.slots) = n
  <2> HIDE DEF n, b
  <2>1. n = Len(s) /\ b = Buffer(s)
    BY DEF n, b
  <2> QED BY <1>1, <2>1, BufferFacts
<1>3. \A k \in 0 .. n - 1 : DecodeTurn(b, Honest(s, k)) = Honest(s, k + 1)
  <2> HIDE DEF n, b
  <2>1. n = Len(s) /\ b = Buffer(s)
    BY DEF n, b
  <2> QED BY <1>1, <2>1, HonestTurn
<1> HIDE DEF b
<1>4. Honest(s, 0) = DecodeStart
  <2>1. OffsetOf(s, 1) = 0
    BY OffsetFacts
  <2>2. SubSeq(s, 1, 0) = <<>>
    OBVIOUS
  <2>3. Honest(s, 0) = Running(OffsetOf(s, 1), SubSeq(s, 1, 0))
    BY <1>1 DEF Honest
  <2> QED BY <2>1, <2>2, <2>3 DEF Running, DecodeStart
<1>5. ASSUME NEW k \in 0 .. n
      PROVE  T[k] = IF k = 0 THEN DecodeStart ELSE DecodeTurn(b, T[k - 1])
  <2>1. CASE k = 0
    BY <1>4, <2>1
  <2>2. CASE k # 0
    <3>1. k - 1 \in 0 .. n - 1 /\ k - 1 \in 0 .. n /\ (k - 1) + 1 = k
      BY <1>1, <2>2
    <3>2. DecodeTurn(b, Honest(s, k - 1)) = Honest(s, k)
      BY <1>3, <3>1
    <3> QED BY <2>2, <3>1, <3>2
  <2> QED BY <2>1, <2>2
<1>6. IsRun(T, b, n)
  <2>1. T = [k \in 0 .. n |-> T[k]]
    OBVIOUS
  <2> HIDE DEF T
  <2> QED BY <1>5, <2>1 DEF IsRun
<1>7. DecodeLoop(b)[n] = T[n]
  <2>1. n \in 0 .. n
    BY <1>1
  <2> HIDE DEF T, n
  <2>2. n = Len(b.slots)
    BY <1>2
  <2>3. \A k \in 0 .. n : DecodeLoop(b)[k] = T[k]
    BY <1>1, <1>6, <2>2, DecodeLoopIs
  <2> QED BY <2>1, <2>3
<1>8. T[n] = Ended(OffsetOf(s, n), s)
  BY <1>1 DEF Honest
<1>9. Decode(b) = [ok |-> TRUE, entries |-> s]
  <2>1. DecodeLoop(b)[Len(b.slots)] = Ended(OffsetOf(s, n), s)
    BY <1>2, <1>7, <1>8
  <2>2. Ended(OffsetOf(s, n), s).ok = TRUE /\ Ended(OffsetOf(s, n), s).entries = s
    BY DEF Ended
  <2> QED BY <2>1, <2>2 DEF Decode
<1> QED BY <1>9 DEF b

\* A buffer whose first slot does not fit is refused.
LEMMA RefusedDecode ==
  ASSUME NEW b, NEW n \in Nat, n > 0, n = Len(b.slots), ~(0 >= b.len),
         \/ ~SlotFits(b, 0, SlotAt(b, 0))
         \/ ~(SlotAt(b, 0).next = 0 \/ NextFits(b, 0, SlotAt(b, 0)))
  PROVE  Decode(b).ok = FALSE
<1> DEFINE T == [k \in 0 .. n |-> IF k = 0 THEN DecodeStart ELSE Refused(0, <<>>)]
<1>1. DecodeStart = Running(0, <<>>)
  BY DEF DecodeStart, Running
<1>2. DecodeTurn(b, DecodeStart) = Refused(0, <<>>)
  BY <1>1, TurnRefuses
<1>3. DecodeTurn(b, Refused(0, <<>>)) = Refused(0, <<>>)
  BY TurnRests
<1>4. ASSUME NEW k \in 0 .. n
      PROVE  T[k] = IF k = 0 THEN DecodeStart ELSE DecodeTurn(b, T[k - 1])
  <2>1. CASE k = 0
    BY <2>1
  <2>2. CASE k # 0
    <3>1. k - 1 \in 0 .. n
      BY <2>2
    <3>2. T[k - 1] = DecodeStart \/ T[k - 1] = Refused(0, <<>>)
      BY <3>1
    <3>3. DecodeTurn(b, T[k - 1]) = Refused(0, <<>>)
      BY <1>2, <1>3, <3>2
    <3> QED BY <2>2, <3>3
  <2> QED BY <2>1, <2>2
<1>5. IsRun(T, b, n)
  <2>1. T = [k \in 0 .. n |-> T[k]]
    OBVIOUS
  <2> HIDE DEF T
  <2> QED BY <1>4, <2>1 DEF IsRun
<1>6. T[n] = Refused(0, <<>>)
  OBVIOUS
<1>7. DecodeLoop(b)[n] = T[n]
  <2>1. n \in 0 .. n
    OBVIOUS
  <2> HIDE DEF T
  <2> QED BY <1>5, <2>1, DecodeLoopIs
<1> QED BY <1>6, <1>7 DEF Decode, Refused

LEMMA FirstSlot ==
  ASSUME NEW d, NEW n \in Nat, n > 0, DOMAIN d.slots = 1 .. n, d.slots[1].at = 0,
         \A i \in 1 .. n : i # 1 => d.slots[i].at # 0
  PROVE  SlotAt(d, 0) = d.slots[1]
<1>1. Range(d.slots) = {d.slots[i] : i \in 1 .. n}
  BY DEF Range
<1>2. d.slots[1] \in Range(d.slots)
  BY <1>1
<1>3. ASSUME NEW slot \in Range(d.slots), slot.at = 0 PROVE slot = d.slots[1]
  BY <1>1, <1>3
<1> QED BY <1>2, <1>3, Zenon DEF SlotAt

\* A buffer whose first slot is replaced by one that cannot be right is refused.
Replaces(d, b, x) == x.at = 0 /\ d.len = b.len /\ d.slots = [b.slots EXCEPT ![1] = x]

Unfit(x, size) ==
  \/ x.entry.size < 0
  \/ x.name % 2 # 0
  \/ 16 + x.name > size
  \/ x.next # 0 /\ (x.next < 16 + x.name \/ x.next > size \/ x.next % 8 # 0)

LEMMA ReplacedSlot ==
  ASSUME NEW E, NEW s \in Seq(E), \A e \in E : Plain(e), NEW n \in Nat, n = Len(s), n > 0,
         NEW b, b = Buffer(s), NEW x, NEW d, Replaces(d, b, x), Unfit(x, b.len)
  PROVE  Decode(d).ok = FALSE
<1> USE DEF Replaces
<1>1. /\ DOMAIN b.slots = 1 .. n /\ b.len \in Nat
      /\ b.len = OffsetOf(s, n) + 16 + NameBytes(s[n])
      /\ \A i \in 1 .. n : b.slots[i].at = OffsetOf(s, i)
  BY BufferFacts
<1>2. OffsetOf(s, 1) = 0 /\ \A i, j \in 1 .. n : i < j => OffsetOf(s, i) < OffsetOf(s, j)
  BY OffsetFacts
<1>3. \A i \in 1 .. n : OffsetOf(s, i) \in Nat
  BY OffsetFacts
<1>4. \A i \in 1 .. n : i # 1 => b.slots[i].at # 0
  BY <1>1, <1>2, <1>3
<1>5. /\ DOMAIN d.slots = 1 .. n /\ d.slots[1] = x
      /\ \A i \in 1 .. n : i # 1 => d.slots[i] = b.slots[i]
  BY <1>1
<1>6. SlotAt(d, 0) = x
  BY <1>4, <1>5, FirstSlot
<1>7. NameBytes(s[n]) \in Nat
  <2>1. n \in 1 .. n /\ s[n].name \in Nat
    BY DEF Plain
  <2> QED BY <2>1, SlotLenFacts
<1>8. b.len > 0 /\ b.len - 0 = b.len
  <2>1. OffsetOf(s, n) \in Nat
    BY <1>3
  <2> QED BY <1>1, <1>7, <2>1
<1>9. Len(d.slots) = n
  <2>1. d.slots = [i \in 1 .. n |-> d.slots[i]]
    BY <1>5
  <2> QED BY <2>1
<1>10. ~SlotFits(d, 0, x) \/ ~(x.next = 0 \/ NextFits(d, 0, x))
  BY <1>8 DEF SlotFits, NextFits, Unfit
<1>11. ~(0 >= d.len)
  BY <1>1, <1>8
<1> QED
  <2>1. n = Len(d.slots)
    BY <1>9
  <2>2. \/ ~SlotFits(d, 0, SlotAt(d, 0))
        \/ ~(SlotAt(d, 0).next = 0 \/ NextFits(d, 0, SlotAt(d, 0)))
    BY <1>6, <1>10
  <2> HIDE DEF Replaces
  <2> QED BY <1>11, <2>1, <2>2, RefusedDecode

\* Each way to break the first entry of a page is noticed.
LEMMA DamagedRefused ==
  ASSUME NEW D, NEW s \in Seq(Entry(D)), s # <<>>, NEW d \in Damaged(Buffer(s))
  PROVE  Decode(d).ok = FALSE
<1> DEFINE E == Entry(D)
<1>1. \A e \in E : Plain(e)
  BY DEF Entry, Plain
<1>2. PICK n \in Nat : n = Len(s) /\ n > 0
  OBVIOUS
<1>3. PICK b : b = Buffer(s)
  OBVIOUS
<1>4. 1 \in 1 .. n /\ s[1] \in E
  BY <1>2
<1>5. /\ b = [len |-> b.len, slots |-> b.slots]
      /\ DOMAIN b.slots = 1 .. n
      /\ b.slots[1] = [at |-> b.slots[1].at, entry |-> b.slots[1].entry,
                       name |-> b.slots[1].name, next |-> b.slots[1].next]
  BY <1>2, <1>3, <1>4 DEF Buffer
<1>6. /\ b.slots[1].at = 0 /\ b.slots[1].entry = s[1] /\ b.slots[1].name = NameBytes(s[1])
      /\ b.len \in Nat
  <2> HIDE DEF E
  <2>1. OffsetOf(s, 1) = 0
    BY <1>1, OffsetFacts DEF E
  <2>2. b.slots[1].at = OffsetOf(s, 1) /\ b.slots[1].entry = s[1]
        /\ b.slots[1].name = NameBytes(s[1])
    BY <1>1, <1>2, <1>3, <1>4, BufferFacts DEF E
  <2>3. b.len \in Nat
    BY <1>1, <1>2, <1>3, BufferFacts DEF E
  <2> QED BY <2>1, <2>2, <2>3
<1>7. NameBytes(s[1]) \in Nat /\ SlotLen(s[1]) \in Nat /\ SlotLen(s[1]) + 1 > 0
      /\ (SlotLen(s[1]) + 1) % 8 # 0
  <2>1. s[1].name \in Nat
    BY <1>1, <1>4 DEF Plain
  <2> QED BY <2>1, SlotLenFacts
<1>8. ASSUME NEW m \in {8, SlotLen(b.slots[1].entry) + 1, b.len + 8},
             d = [b EXCEPT !.slots[1].next = m]
      PROVE  Decode(d).ok = FALSE
  <2> DEFINE x == [b.slots[1] EXCEPT !.next = m]
  <2>1. d.len = b.len /\ d.slots = [b.slots EXCEPT ![1] = x]
    BY <1>5, <1>8
  <2>2. x.at = 0 /\ x.name = NameBytes(s[1]) /\ x.next = m
    BY <1>5, <1>6
  <2>3. m # 0 /\ (m < 16 + NameBytes(s[1]) \/ m > b.len \/ m % 8 # 0)
    <3>1. m = 8 \/ m = SlotLen(s[1]) + 1 \/ m = b.len + 8
      BY <1>6
    <3>2. PICK y, z, l : y = NameBytes(s[1]) /\ z = SlotLen(s[1]) + 1 /\ l = b.len
      OBVIOUS
    <3>3. y \in Nat /\ z > 0 /\ z % 8 # 0 /\ l \in Nat /\ z \in Nat /\ (m = 8 \/ m = z \/ m = l + 8)
      BY <1>6, <1>7, <3>1, <3>2
    <3>4. m # 0 /\ (m < 16 + y \/ m > l \/ m % 8 # 0)
      BY ONLY <3>3
    <3> QED BY <3>2, <3>4
  <2> HIDE DEF x, E
  <2>4. Replaces(d, b, x) /\ Unfit(x, b.len)
    BY <2>1, <2>2, <2>3 DEF Replaces, Unfit
  <2> QED BY <1>1, <1>2, <1>3, <2>4, ReplacedSlot DEF E
<1>9. ASSUME NEW m \in {3, b.len}, d = [b EXCEPT !.slots[1].name = m]
      PROVE  Decode(d).ok = FALSE
  <2> DEFINE x == [b.slots[1] EXCEPT !.name = m]
  <2>1. d.len = b.len /\ d.slots = [b.slots EXCEPT ![1] = x]
    BY <1>5, <1>9
  <2>2. x.at = 0 /\ x.name = m
    BY <1>5, <1>6
  <2>3. m % 2 # 0 \/ 16 + m > b.len
    BY <1>6
  <2> HIDE DEF x, E
  <2>4. Replaces(d, b, x) /\ Unfit(x, b.len)
    BY <2>1, <2>2, <2>3 DEF Replaces, Unfit
  <2> QED BY <1>1, <1>2, <1>3, <2>4, ReplacedSlot DEF E
<1>10. ASSUME d = [b EXCEPT !.slots[1].entry.size = -1] PROVE Decode(d).ok = FALSE
  <2> DEFINE y == [s[1] EXCEPT !.size = -1]
             x == [b.slots[1] EXCEPT !.entry = y]
  <2>1. d.len = b.len /\ d.slots = [b.slots EXCEPT ![1] = x]
    BY <1>5, <1>6, <1>10
  <2>2. y.size < 0
    BY <1>4 DEF Entry
  <2>3. x.at = 0 /\ x.entry.size < 0
    BY <1>5, <1>6, <2>2
  <2> HIDE DEF x, y, E
  <2>4. Replaces(d, b, x) /\ Unfit(x, b.len)
    BY <2>1, <2>3 DEF Replaces, Unfit
  <2> QED BY <1>1, <1>2, <1>3, <2>4, ReplacedSlot DEF E
<1>11. ASSUME d = [b EXCEPT !.len = Fixed - 1] PROVE Decode(d).ok = FALSE
  <2>1. d.len = 15 /\ d.slots = b.slots
    BY <1>5, <1>11 DEF Fixed
  <2>2. Len(d.slots) = n
    <3> HIDE DEF E
    <3> QED BY <2>1, <1>1, <1>2, <1>3, BufferFacts DEF E
  <2>3. ~SlotFits(d, 0, SlotAt(d, 0)) /\ ~(0 >= d.len)
    BY <2>1 DEF SlotFits
  <2> QED BY <1>2, <2>2, <2>3, RefusedDecode
<1> QED BY <1>3, <1>8, <1>9, <1>10, <1>11 DEF Damaged

\* An answer of the server that decodes is the slice of the listing it stands for.
LEMMA PageDecoded ==
  ASSUME NEW D, NEW s \in Seq(Entry(D)), s # <<>>,
         NEW buffer \in {Buffer(s)} \cup Damaged(Buffer(s)), Decode(buffer).ok
  PROVE  Decode(buffer).entries = s
<1>1. \A e \in Entry(D) : Plain(e)
  BY DEF Entry, Plain
<1>2. Decode(Buffer(s)) = [ok |-> TRUE, entries |-> s]
  BY <1>1, HonestDecode
<1>3. buffer \notin Damaged(Buffer(s))
  BY DamagedRefused
<1> QED BY <1>2, <1>3

-----------------------------------------------------------------------------
SumOfType == \A w \in Seq(Nat) : SumOf(w) \in Nat

LEMMA SumsAreNumbers == SumOfType
<1> SUFFICES ASSUME NEW w \in Seq(Nat) PROVE SumOf(w) \in Nat
  BY DEF SumOfType
<1>1. PartialSums(w) \in [0 .. Len(w) -> Nat]
  BY PartialSumsDef
<1>2. Len(w) \in 0 .. Len(w)
  OBVIOUS
<1> QED BY <1>1, <1>2 DEF SumOf

\* The numbers a directory adds up.
LEMMA WeightsType ==
  ASSUME NEW D, NEW listing \in Seq(Entry(D)), SubDirs(listing) \subseteq D, NEW held \in [D -> Nat]
  PROVE  /\ Weights(listing, held) \in Seq(Nat)
         /\ Len(Weights(listing, held)) = Len(listing)
         /\ \A i \in 1 .. Len(listing) : Weights(listing, held)[i] = Weight(listing[i], held)
<1>1. DOMAIN listing = 1 .. Len(listing) /\ Len(listing) \in Nat
  OBVIOUS
<1>2. ASSUME NEW i \in 1 .. Len(listing) PROVE Weight(listing[i], held) \in Nat
  <2>1. listing[i] \in Entry(D)
    OBVIOUS
  <2>2. listing[i].size \in Nat
    BY <2>1 DEF Entry
  <2>3. listing[i].kind = "dir" => listing[i].to \in D
    BY <1>1 DEF SubDirs
  <2> QED BY <2>2, <2>3 DEF Weight
<1> DEFINE f(i) == Weight(listing[i], held)
<1>3. Weights(listing, held) = [i \in 1 .. Len(listing) |-> f(i)]
  BY <1>1 DEF Weights
<1> HIDE DEF f
<1>4. \A i \in 1 .. Len(listing) : f(i) \in Nat
  BY <1>2 DEF f
<1>5. /\ Weights(listing, held) \in Seq(Nat)
      /\ Len(Weights(listing, held)) = Len(listing)
      /\ \A i \in 1 .. Len(listing) : Weights(listing, held)[i] = f(i)
  BY <1>1, <1>3, <1>4
<1> QED BY <1>5 DEF f

\* The rounds of the reference, one after the other.
LEMMA RoundsDef ==
  ASSUME NEW t, IsTree(t)
  PROVE  LET D == DOMAIN t
             N == Cardinality(DOMAIN t)
         IN /\ N \in Nat /\ N > 0
            /\ Rounds(t) \in [0 .. N -> [D -> Nat]]
            /\ \A k \in 1 .. N : \A d \in D :
                 Rounds(t)[k][d] = SumOf(Weights(t[d], Rounds(t)[k - 1]))
<1> DEFINE D == DOMAIN t
           N == Cardinality(D)
           V == [D -> Nat]
           Round(v) == [d \in D |-> SumOf(Weights(t[d], v))]
           step == [k \in 1 .. N |-> [v \in V |-> Round(v)]]
           zero == [d \in D |-> 0]
           Eq(f) == f = [k \in 0 .. N |-> IF k = 0 THEN zero ELSE Round(f[k - 1])]
<1>1. N \in Nat /\ N > 0
  <2>1. IsFiniteSet(D) /\ D # {}
    BY DEF IsTree
  <2> HIDE DEF D
  <2> QED BY <2>1, FS_CardinalityType, FS_EmptySet
<1>2. \A v \in V : Round(v) \in V
  <2> SUFFICES ASSUME NEW v \in V, NEW d \in D PROVE SumOf(Weights(t[d], v)) \in Nat
    OBVIOUS
  <2>1. t[d] \in Seq(Entry(D)) /\ SubDirs(t[d]) \subseteq D
    BY DEF IsTree
  <2>2. Weights(t[d], v) \in Seq(Nat)
    <3> HIDE DEF D
    <3> QED BY <2>1, WeightsType
  <2> QED BY <2>2, SumsAreNumbers DEF SumOfType
<1> HIDE DEF Round, D, V, N
<1>3. IsStep(step, N, V)
  BY <1>2 DEF IsStep
<1>4. zero \in V
  BY DEF V
<1>5. PICK F : IsLoop(F, N, V, zero, step)
  <2> HIDE DEF step, zero
  <2> QED BY <1>1, <1>3, <1>4, LoopExists
<1>6. F \in [0 .. N -> V] /\ F[0] = zero /\ \A k \in 1 .. N : F[k] = step[k][F[k - 1]]
  <2> HIDE DEF step, zero
  <2> QED BY <1>5 DEF IsLoop
<1> HIDE DEF zero
<1>7. ASSUME NEW k \in 1 .. N PROVE F[k] = Round(F[k - 1])
  <2>1. k - 1 \in 0 .. N
    BY <1>1
  <2>2. F[k - 1] \in V
    BY <1>6, <2>1
  <2> QED BY <1>6, <2>2
<1>8. Eq(F)
  <2>1. \A k \in 0 .. N : F[k] = IF k = 0 THEN zero ELSE Round(F[k - 1])
    BY <1>1, <1>6, <1>7
  <2> QED BY <1>6, <2>1
<1>9. Rounds(t) = CHOOSE f : Eq(f)
  BY DEF Rounds, Round, D, N, zero
<1>10. Eq(Rounds(t))
  <2> HIDE DEF Eq
  <2> QED BY <1>8, <1>9
<1>11. PICK R : R = Rounds(t)
  OBVIOUS
<1>12. R = [k \in 0 .. N |-> IF k = 0 THEN zero ELSE Round(R[k - 1])]
  BY <1>10, <1>11
<1>13. \A k \in 1 .. N : R[k] = Round(R[k - 1])
  BY <1>1, <1>12
<1>14. R \in [0 .. N -> V]
  <2> DEFINE S == {k \in Nat : k <= N => R[k] \in V}
  <2>1. 0 \in S
    BY <1>1, <1>4, <1>12
  <2>2. ASSUME NEW k \in Nat, k \in S PROVE k + 1 \in S
    <3> SUFFICES ASSUME k + 1 <= N PROVE R[k + 1] \in V
      OBVIOUS
    <3>1. R[k] \in V /\ k + 1 \in 1 .. N /\ (k + 1) - 1 = k
      BY <2>2, <1>1
    <3>2. R[k + 1] = Round(R[k])
      BY <1>13, <3>1
    <3> QED BY <1>2, <3>1, <3>2
  <2>3. Nat \subseteq S
    <3> HIDE DEF S
    <3> QED BY <2>1, <2>2, SetInduction
  <2>4. \A k \in 0 .. N : R[k] \in V
    <3> TAKE k \in 0 .. N
    <3>1. k \in Nat /\ k <= N
      BY <1>1
    <3> QED BY <2>3, <3>1
  <2> QED BY <1>12, <2>4
<1>15. \A k \in 1 .. N : \A d \in D : R[k][d] = SumOf(Weights(t[d], R[k - 1]))
  BY <1>13 DEF Round
<1> QED BY <1>1, <1>11, <1>14, <1>15 DEF D, N, V

\* A directory's numbers depend on what its subdirectories hold, and on nothing else.
LEMMA WeightsAgree ==
  ASSUME NEW D, NEW listing \in Seq(Entry(D)), NEW v, NEW u,
         \A sub \in SubDirs(listing) : v[sub] = u[sub]
  PROVE  Weights(listing, v) = Weights(listing, u)
<1>1. ASSUME NEW i \in DOMAIN listing PROVE Weight(listing[i], v) = Weight(listing[i], u)
  <2>1. listing[i].kind = "dir" => listing[i].to \in SubDirs(listing)
    BY DEF SubDirs
  <2> QED BY <2>1 DEF Weight
<1> QED BY <1>1 DEF Weights

\* In a tree the last round changes nothing: Below is what the tree holds.
LEMMA BelowIsHeld ==
  ASSUME NEW t, IsTree(t)
  PROVE  /\ Below(t) \in [DOMAIN t -> Nat]
         /\ \A d \in DOMAIN t : Below(t)[d] = SumOf(Weights(t[d], Below(t)))
<1>1. PICK D : D = DOMAIN t
  OBVIOUS
<1>2. PICK N : N = Cardinality(DOMAIN t)
  OBVIOUS
<1>3. PICK R : R = Rounds(t)
  OBVIOUS
<1>4. N \in Nat /\ N > 0 /\ R \in [0 .. N -> [D -> Nat]]
  BY <1>1, <1>2, <1>3, RoundsDef
<1>5. \A k \in 1 .. N : \A d \in D : R[k][d] = SumOf(Weights(t[d], R[k - 1]))
  BY <1>1, <1>2, <1>3, RoundsDef
<1>6. PICK height \in [D -> 0 .. N - 1] :
        \A d \in D : \A sub \in SubDirs(t[d]) : sub \in D /\ height[sub] < height[d]
  BY <1>1, <1>2 DEF IsTree
<1>7. \A d \in D : t[d] \in Seq(Entry(D)) /\ height[d] \in Nat /\ height[d] < N
  <2>1. t \in [D -> Seq(Entry(D))]
    BY <1>1 DEF IsTree
  <2> QED BY <1>4, <1>6, <2>1
<1> DEFINE Same(k) == \A d \in D : height[d] < k => R[k][d] = R[k + 1][d]
           S == {k \in Nat : k + 1 <= N => Same(k)}
<1>8. ASSUME NEW k \in Nat, Same(k), NEW d \in D, height[d] < k + 1
      PROVE  Weights(t[d], R[k]) = Weights(t[d], R[k + 1])
  <2>1. ASSUME NEW sub \in SubDirs(t[d]) PROVE R[k][sub] = R[k + 1][sub]
    <3>1. sub \in D /\ height[sub] < height[d]
      BY <1>6
    <3>2. height[sub] \in Nat /\ height[d] \in Nat
      BY <1>7, <3>1
    <3>3. height[sub] < k
      BY <1>8, <3>1, <3>2
    <3> QED BY <1>8, <3>1, <3>3
  <2>2. t[d] \in Seq(Entry(D))
    BY <1>7
  <2> QED BY <2>1, <2>2, WeightsAgree
<1>9. 0 \in S
  <2>1. Same(0)
    BY <1>7
  <2> QED BY <2>1
<1>10. ASSUME NEW k \in Nat, k \in S PROVE k + 1 \in S
  <2> SUFFICES ASSUME (k + 1) + 1 <= N, NEW d \in D, height[d] < k + 1
               PROVE  R[k + 1][d] = R[(k + 1) + 1][d]
    OBVIOUS
  <2>1. /\ Same(k) /\ k + 1 \in 1 .. N /\ (k + 1) + 1 \in 1 .. N
        /\ (k + 1) - 1 = k /\ ((k + 1) + 1) - 1 = k + 1
    BY <1>4, <1>10
  <2>2. Weights(t[d], R[k]) = Weights(t[d], R[k + 1])
    <3> HIDE DEF Same
    <3> QED BY <1>8, <2>1
  <2>3. R[k + 1][d] = SumOf(Weights(t[d], R[k]))
    BY <1>5, <2>1
  <2>4. R[(k + 1) + 1][d] = SumOf(Weights(t[d], R[k + 1]))
    BY <1>5, <2>1
  <2> QED BY <2>2, <2>3, <2>4
<1>11. Nat \subseteq S
  <2> HIDE DEF S
  <2> QED BY <1>9, <1>10, SetInduction
<1>12. PICK m \in Nat : m + 1 = N
  <2>1. N - 1 \in Nat /\ (N - 1) + 1 = N
    BY <1>4
  <2> QED BY <2>1
<1>13. Same(m)
  <2> HIDE DEF Same
  <2> QED BY <1>4, <1>11, <1>12
<1>14. ASSUME NEW d \in D PROVE R[N][d] = SumOf(Weights(t[d], R[N]))
  <2>1. height[d] < m + 1
    BY <1>7, <1>12
  <2>2. Weights(t[d], R[m]) = Weights(t[d], R[N])
    <3> HIDE DEF Same
    <3> QED BY <1>8, <1>12, <1>13, <2>1
  <2>3. N \in 1 .. N /\ N - 1 = m
    BY <1>4, <1>12
  <2> QED BY <1>5, <2>2, <2>3
<1>15. Below(t) = R[N]
  BY <1>2, <1>3 DEF Below
<1>16. R[N] \in [D -> Nat]
  BY <1>4
<1> QED BY <1>1, <1>14, <1>15, <1>16

\* A slice of a sequence adds up to the difference of two sums.
LEMMA SumOfSlice ==
  ASSUME NEW w \in Seq(Nat), NEW x \in Seq(Nat), NEW a \in Nat, NEW n \in Nat,
         a + n <= Len(w), Len(x) = n, \A i \in 1 .. n : x[i] = w[a + i]
  PROVE  \A k \in 0 .. n : PartialSums(w)[a + k] = PartialSums(w)[a] + PartialSums(x)[k]
<1> DEFINE p == PartialSums(w)
           q == PartialSums(x)
           S == {k \in Nat : k <= n => p[a + k] = p[a] + q[k]}
<1>0. Len(w) \in Nat /\ x \in [1 .. n -> Nat]
  OBVIOUS
<1>1. p \in [0 .. Len(w) -> Nat] /\ \A k \in 1 .. Len(w) : p[k] = p[k - 1] + w[k]
  BY PartialSumsDef
<1>2. q \in [0 .. n -> Nat] /\ q[0] = 0 /\ \A k \in 1 .. n : q[k] = q[k - 1] + x[k]
  BY PartialSumsDef
<1> HIDE DEF p, q
<1>3. a \in 0 .. Len(w) /\ p[a] \in Nat
  <2>1. a \in 0 .. Len(w)
    BY <1>0
  <2> QED BY <1>1, <2>1
<1>4. 0 \in S
  BY <1>2, <1>3
<1>5. ASSUME NEW k \in Nat, k \in S PROVE k + 1 \in S
  <2> SUFFICES ASSUME k + 1 <= n PROVE p[a + (k + 1)] = p[a] + q[k + 1]
    OBVIOUS
  <2>1. /\ p[a + k] = p[a] + q[k] /\ k + 1 \in 1 .. n /\ k \in 0 .. n
        /\ a + (k + 1) \in 1 .. Len(w) /\ (a + (k + 1)) - 1 = a + k /\ (k + 1) - 1 = k
    BY <1>0, <1>5
  <2>2. p[a + (k + 1)] = p[a + k] + w[a + (k + 1)]
    BY <1>1, <2>1
  <2>3. q[k + 1] = q[k] + x[k + 1] /\ q[k] \in Nat
    BY <1>2, <2>1
  <2>4. x[k + 1] = w[a + (k + 1)] /\ x[k + 1] \in Nat
    <3>1. PICK i \in 1 .. n : i = k + 1
      BY <2>1
    <3>2. x[i] = w[a + i]
      OBVIOUS
    <3>3. x[i] \in Nat
      BY ONLY <1>0, <3>1
    <3> QED BY <3>1, <3>2, <3>3, Zenon
  <2>5. PICK f \in Nat : f = p[a]
    BY <1>3
  <2>6. PICK g \in Nat : g = q[k]
    BY <2>3
  <2>7. PICK h \in Nat : h = x[k + 1]
    BY <2>4
  <2>8. (f + g) + h = f + (g + h)
    OBVIOUS
  <2>9. p[a + (k + 1)] = (f + g) + h
    BY <2>1, <2>2, <2>4, <2>5, <2>6, <2>7, Zenon
  <2>10. q[k + 1] = g + h
    BY <2>3, <2>6, <2>7, Zenon
  <2> QED BY <2>5, <2>8, <2>9, <2>10, Zenon
<1>6. Nat \subseteq S
  <2> HIDE DEF S
  <2> QED BY <1>4, <1>5, SetInduction
<1>7. ASSUME NEW k \in 0 .. n PROVE p[a + k] = p[a] + q[k]
  <2>1. k \in Nat /\ k <= n
    OBVIOUS
  <2> QED BY <1>6, <2>1
<1> QED BY <1>7 DEF p, q

-----------------------------------------------------------------------------
\* What the directories still to be visited hold.
Owed(pending, held) == SumOf([i \in DOMAIN pending |-> held[pending[i]]])

LEMMA OwedNothing == \A held : Owed(<<>>, held) = 0
<1> TAKE held
<1> DEFINE w == [i \in DOMAIN << >> |-> held[<< >>[i]]]
<1>1. w = << >> /\ << >> \in Seq(Nat) /\ Len(<< >>) = 0
  OBVIOUS
<1> HIDE DEF w
<1>2. PartialSums(<< >>)[0] = 0
  BY <1>1, PartialSumsDef
<1> QED BY <1>1, <1>2 DEF Owed, SumOf, w

LEMMA OwedAppend ==
  ASSUME NEW D, NEW held \in [D -> Nat], NEW p \in Seq(D), NEW x \in D
  PROVE  /\ Owed(p, held) \in Nat
         /\ Owed(Append(p, x), held) = Owed(p, held) + held[x]
<1> DEFINE w == [i \in DOMAIN p |-> held[p[i]]]
           u == [i \in DOMAIN Append(p, x) |-> held[Append(p, x)[i]]]
<1>1. w \in Seq(Nat)
  OBVIOUS
<1>2. held[x] \in Nat
  OBVIOUS
<1>3. u = Append(w, held[x])
  <2> DEFINE v == Append(w, held[x])
  <2>1. Len(p) \in Nat /\ DOMAIN Append(p, x) = 1 .. Len(p) + 1 /\ Len(w) = Len(p)
    OBVIOUS
  <2>2. v = [i \in 1 .. Len(p) + 1 |-> v[i]]
    BY <1>1, <1>2, <2>1
  <2>3. ASSUME NEW i \in 1 .. Len(p) + 1 PROVE v[i] = held[Append(p, x)[i]]
    <3>1. CASE i = Len(p) + 1
      BY <3>1, <2>1
    <3>2. CASE i # Len(p) + 1
      <4>1. i \in 1 .. Len(p)
        BY <2>1, <3>2
      <4>2. Append(p, x)[i] = p[i] /\ w[i] = held[p[i]]
        BY <4>1
      <4>3. v[i] = w[i]
        BY <1>1, <4>1, <2>1
      <4> QED BY <4>2, <4>3
    <3> QED BY <3>1, <3>2
  <2> HIDE DEF v
  <2>4. u = [i \in 1 .. Len(p) + 1 |-> held[Append(p, x)[i]]]
    BY <2>1
  <2> HIDE DEF u
  <2>5. u = v
    BY <2>2, <2>3, <2>4
  <2> QED BY <2>5 DEF v
<1> HIDE DEF w, u
<1>4. SumOf(Append(w, held[x])) = SumOf(w) + held[x] /\ SumOf(w) \in Nat
  BY <1>1, <1>2, SumOfAppend
<1>5. Owed(p, held) = SumOf(w) /\ Owed(Append(p, x), held) = SumOf(u)
  BY DEF Owed, w, u
<1> QED BY <1>3, <1>4, <1>5

\* The last of the directories to be visited.
LEMMA OwedLast ==
  ASSUME NEW D, NEW held \in [D -> Nat], NEW p \in Seq(D), p # <<>>
  PROVE  /\ Front(p) \in Seq(D) /\ Last(p) \in D
         /\ Owed(Front(p), held) \in Nat /\ held[Last(p)] \in Nat
         /\ Owed(p, held) = Owed(Front(p), held) + held[Last(p)]
<1>1. Front(p) \in Seq(D) /\ Last(p) \in D
  BY DEF Front, Last
<1>2. p = Append(Front(p), Last(p))
  BY DEF Front, Last
<1>3. held[Last(p)] \in Nat
  BY <1>1
<1>4. PICK f \in Seq(D) : f = Front(p)
  BY <1>1
<1>5. PICK l \in D : l = Last(p)
  BY <1>1
<1>6. Owed(f, held) \in Nat /\ Owed(Append(f, l), held) = Owed(f, held) + held[l]
  BY OwedAppend
<1> QED BY <1>1, <1>2, <1>3, <1>4, <1>5, <1>6

\* Sums that are cut off at i64::MAX, early or late.
LEMMA SaturatedTwice ==
  ASSUME NEW a \in Nat, NEW b \in Nat, NEW c \in Nat
  PROVE  /\ Saturated(a) \in 0 .. MaxLong
         /\ Saturated(Saturated(a + b) + c) = Saturated((a + c) + b)
BY DirectoryLimits DEF Saturated

\* The locals of accumulate_directory_entries.
Sums(D) == [pending : Seq(D), total : 0 .. MaxLong]

LEMMA AccumulateEntryType ==
  ASSUME NEW D, NEW e \in Entry(D), e.kind = "dir" => e.to \in D, NEW sum \in Sums(D)
  PROVE  AccumulateEntry(e, sum) \in Sums(D)
<1>1. e.size \in Nat
  BY DEF Entry
<1>2. sum.pending \in Seq(D) /\ sum.total \in 0 .. MaxLong
  BY DEF Sums
<1>3. Saturated(sum.total + e.size) \in 0 .. MaxLong
  BY <1>1, <1>2, DirectoryLimits DEF Saturated
<1>4. CASE e.kind = "dir"
  <2>1. Append(sum.pending, e.to) \in Seq(D)
    BY <1>2, <1>4
  <2>2. AccumulateEntry(e, sum) = [sum EXCEPT !.pending = Append(sum.pending, e.to)]
    BY <1>4 DEF AccumulateEntry
  <2> QED BY <2>1, <2>2 DEF Sums
<1>5. CASE e.kind # "dir"
  BY <1>3, <1>5 DEF AccumulateEntry, Sums
<1> QED BY <1>4, <1>5

LEMMA AccumulateDef ==
  ASSUME NEW D, NEW entries \in Seq(Entry(D)), SubDirs(entries) \subseteq D,
         NEW start \in Sums(D)
  PROVE  /\ AccumulateLoop(entries, start) \in [0 .. Len(entries) -> Sums(D)]
         /\ AccumulateLoop(entries, start)[0] = start
         /\ \A k \in 1 .. Len(entries) : AccumulateLoop(entries, start)[k] =
              AccumulateEntry(entries[k], AccumulateLoop(entries, start)[k - 1])
<1> DEFINE N == Len(entries)
           V == Sums(D)
           step == [k \in 1 .. N |-> [v \in V |-> AccumulateEntry(entries[k], v)]]
           Eq(f) == f = [k \in 0 .. N |-> IF k = 0 THEN start
                                           ELSE AccumulateEntry(entries[k], f[k - 1])]
<1>1. N \in Nat
  OBVIOUS
<1>2. ASSUME NEW k \in 1 .. N, NEW v \in V PROVE AccumulateEntry(entries[k], v) \in V
  <2>1. entries[k] \in Entry(D) /\ k \in DOMAIN entries
    OBVIOUS
  <2>2. entries[k].kind = "dir" => entries[k].to \in D
    BY <2>1 DEF SubDirs
  <2> QED BY <2>1, <2>2, AccumulateEntryType
<1> HIDE DEF N, V
<1>3. IsStep(step, N, V)
  BY <1>2 DEF IsStep
<1>4. PICK F : IsLoop(F, N, V, start, step)
  <2>1. start \in V
    BY DEF V
  <2> HIDE DEF step
  <2> QED BY <1>1, <1>3, <2>1, LoopExists
<1>5. F \in [0 .. N -> V] /\ F[0] = start /\ \A k \in 1 .. N : F[k] = step[k][F[k - 1]]
  <2> HIDE DEF step
  <2> QED BY <1>4 DEF IsLoop
<1>6. ASSUME NEW k \in 1 .. N PROVE F[k] = AccumulateEntry(entries[k], F[k - 1])
  <2>1. k - 1 \in 0 .. N
    BY <1>1
  <2>2. F[k - 1] \in V
    BY <1>5, <2>1
  <2> QED BY <1>5, <2>2
<1>7. Eq(F)
  <2>1. \A k \in 0 .. N : F[k] = IF k = 0 THEN start ELSE AccumulateEntry(entries[k], F[k - 1])
    BY <1>1, <1>5, <1>6
  <2> QED BY <1>5, <2>1
<1>8. AccumulateLoop(entries, start) = CHOOSE f : Eq(f)
  BY DEF AccumulateLoop, N
<1>9. Eq(AccumulateLoop(entries, start))
  <2> HIDE DEF Eq
  <2> QED BY <1>7, <1>8
<1>10. PICK L : L = AccumulateLoop(entries, start)
  OBVIOUS
<1>11. L = [k \in 0 .. N |-> IF k = 0 THEN start ELSE AccumulateEntry(entries[k], L[k - 1])]
  BY <1>9, <1>10
<1>12. L[0] = start /\ \A k \in 1 .. N : L[k] = AccumulateEntry(entries[k], L[k - 1])
  BY <1>1, <1>11
<1>13. L \in [0 .. N -> V]
  <2> DEFINE S == {k \in Nat : k <= N => L[k] \in V}
  <2>1. 0 \in S
    BY <1>12 DEF V
  <2>2. ASSUME NEW k \in Nat, k \in S PROVE k + 1 \in S
    <3> SUFFICES ASSUME k + 1 <= N PROVE L[k + 1] \in V
      OBVIOUS
    <3>1. L[k] \in V /\ k + 1 \in 1 .. N /\ (k + 1) - 1 = k
      BY <2>2, <1>1
    <3>2. L[k + 1] = AccumulateEntry(entries[k + 1], L[k])
      BY <1>12, <3>1
    <3> QED BY <1>2, <3>1, <3>2
  <2>3. Nat \subseteq S
    <3> HIDE DEF S
    <3> QED BY <2>1, <2>2, SetInduction
  <2>4. ASSUME NEW k \in 0 .. N PROVE L[k] \in V
    <3>1. k \in Nat /\ k <= N
      BY <1>1
    <3> QED BY <2>3, <3>1
  <2> QED BY <1>11, <2>4
<1> QED BY <1>10, <1>12, <1>13 DEF N, V

\* One entry moves its number into the total, or into what is owed.
LEMMA AccumulateOne ==
  ASSUME NEW D, NEW held \in [D -> Nat], NEW e \in Entry(D), e.kind = "dir" => e.to \in D,
         NEW sum \in Sums(D), NEW r \in Sums(D), r = AccumulateEntry(e, sum)
  PROVE  /\ Owed(sum.pending, held) \in Nat /\ Weight(e, held) \in Nat
         /\ Saturated(r.total + Owed(r.pending, held)) =
              Saturated((sum.total + Owed(sum.pending, held)) + Weight(e, held))
<1>1. e.size \in Nat
  BY DEF Entry
<1>2. sum.pending \in Seq(D) /\ sum.total \in Nat
      /\ sum = [pending |-> sum.pending, total |-> sum.total]
  BY DirectoryLimits DEF Sums
<1>3. PICK o : o = Owed(sum.pending, held)
  OBVIOUS
<1>4. CASE e.kind = "dir"
  <2>1. o \in Nat /\ Owed(Append(sum.pending, e.to), held) = o + held[e.to] /\ held[e.to] \in Nat
    BY <1>2, <1>3, <1>4, OwedAppend
  <2>2. r.total = sum.total /\ r.pending = Append(sum.pending, e.to) /\ Weight(e, held) = held[e.to]
    BY <1>2, <1>4 DEF AccumulateEntry, Weight
  <2>3. sum.total + (o + held[e.to]) = (sum.total + o) + held[e.to]
    BY <1>2, <2>1
  <2> QED BY <1>3, <2>1, <2>2, <2>3
<1>5. ASSUME e.kind # "dir" PROVE o \in Nat
  <2>1. CASE sum.pending = <<>>
    BY <2>1, <1>3, OwedNothing
  <2>2. CASE sum.pending # <<>>
    <3>1. PICK f \in Nat, l \in Nat : o = f + l
      BY <1>2, <1>3, <2>2, OwedLast
    <3> QED BY <3>1
  <2> QED BY <2>1, <2>2
<1>6. CASE e.kind = "file"
  <2>1. r.total = Saturated(sum.total + e.size) /\ r.pending = sum.pending
        /\ Weight(e, held) = e.size
    BY <1>2, <1>6 DEF AccumulateEntry, Weight
  <2>2. Saturated(Saturated(sum.total + e.size) + o) = Saturated((sum.total + o) + e.size)
    BY <1>1, <1>2, <1>5, <1>6, SaturatedTwice
  <2> QED BY <1>1, <1>3, <1>5, <1>6, <2>1, <2>2
<1>7. CASE e.kind # "dir" /\ e.kind # "file"
  <2>1. r = sum /\ Weight(e, held) = 0
    BY <1>7 DEF AccumulateEntry, Weight
  <2>2. (sum.total + o) + 0 = sum.total + o
    BY <1>2, <1>5, <1>7
  <2> QED BY <1>3, <1>5, <1>7, <2>1, <2>2
<1> QED BY <1>4, <1>6, <1>7

\* After k entries of a page the total and what is owed have grown by the page's
\* first k numbers.
LEMMA AccumulateSums ==
  ASSUME NEW D, NEW held \in [D -> Nat], NEW entries \in Seq(Entry(D)),
         SubDirs(entries) \subseteq D, NEW start \in Sums(D),
         NEW L, L = AccumulateLoop(entries, start)
  PROVE  \A k \in 0 .. Len(entries) :
           Saturated(L[k].total + Owed(L[k].pending, held)) =
             Saturated((start.total + Owed(start.pending, held))
                         + PartialSums(Weights(entries, held))[k])
<1>1. PICK n : n = Len(entries)
  OBVIOUS
<1>2. PICK w : w = Weights(entries, held)
  OBVIOUS
<1>3. n \in Nat /\ w \in Seq(Nat) /\ Len(w) = n /\ \A i \in 1 .. n : w[i] = Weight(entries[i], held)
  BY <1>1, <1>2, WeightsType
<1>4. PICK p : p = PartialSums(w)
  OBVIOUS
<1>5. p \in [0 .. n -> Nat] /\ p[0] = 0 /\ \A k \in 1 .. n : p[k] = p[k - 1] + w[k]
  BY <1>3, <1>4, PartialSumsDef
<1>6. /\ L \in [0 .. n -> Sums(D)] /\ L[0] = start
      /\ \A k \in 1 .. n : L[k] = AccumulateEntry(entries[k], L[k - 1])
  BY <1>1, AccumulateDef
<1> DEFINE Now(k) == L[k].total + Owed(L[k].pending, held)
           first == start.total + Owed(start.pending, held)
           S == {k \in Nat : k <= n => Saturated(Now(k)) = Saturated(first + p[k])}
<1>7. ASSUME NEW sum \in Sums(D) PROVE sum.total + Owed(sum.pending, held) \in Nat
  <2>1. sum.pending \in Seq(D) /\ sum.total \in Nat
    BY DirectoryLimits DEF Sums
  <2>2. Owed(sum.pending, held) \in Nat
    <3>1. CASE sum.pending = <<>>
      BY <3>1, OwedNothing
    <3>2. CASE sum.pending # <<>>
      <4>1. PICK f \in Nat, l \in Nat : Owed(sum.pending, held) = f + l
        BY <2>1, <3>2, OwedLast
      <4> QED BY <4>1
    <3> QED BY <3>1, <3>2
  <2> QED BY <2>1, <2>2
<1>8. first \in Nat
  BY <1>7
<1>9. 0 \in S
  <2>1. Now(0) = first /\ first + p[0] = first
    <3> HIDE DEF first
    <3>1. Now(0) = first
      BY <1>6 DEF first
    <3> QED BY <1>5, <1>8, <3>1
  <2> HIDE DEF Now, first
  <2> QED BY <2>1
<1>10. ASSUME NEW k \in Nat, k \in S PROVE k + 1 \in S
  <2> SUFFICES ASSUME k + 1 <= n PROVE Saturated(Now(k + 1)) = Saturated(first + p[k + 1])
    OBVIOUS
  <2>1. /\ Saturated(Now(k)) = Saturated(first + p[k])
        /\ k + 1 \in 1 .. n /\ k \in 0 .. n /\ k + 1 \in 0 .. n /\ (k + 1) - 1 = k
    BY <1>3, <1>10
  <2>2. L[k] \in Sums(D) /\ L[k + 1] \in Sums(D) /\ L[k + 1] = AccumulateEntry(entries[k + 1], L[k])
    BY <1>6, <2>1
  <2>3. entries[k + 1] \in Entry(D) /\ (entries[k + 1].kind = "dir" => entries[k + 1].to \in D)
    <3>1. k + 1 \in DOMAIN entries /\ entries[k + 1] \in Entry(D)
      BY <1>1, <2>1
    <3> QED BY <3>1 DEF SubDirs
  <2>4. PICK x : x = Weight(entries[k + 1], held)
    OBVIOUS
  <2>5. x \in Nat /\ Saturated(Now(k + 1)) = Saturated(Now(k) + x)
    BY <2>2, <2>3, <2>4, AccumulateOne
  <2>6. Now(k) \in Nat
    BY <1>7, <2>2
  <2>7. p[k] \in Nat /\ p[k + 1] = p[k] + x
    BY <1>3, <1>5, <2>1, <2>4
  <2> HIDE DEF Now, first
  <2>8. PICK a \in Nat : a = Now(k)
    BY <2>6
  <2>9. PICK b \in Nat : b = p[k]
    BY <2>7
  <2>10. Saturated(a + x) = Saturated(first + (b + x))
    <3>1. Saturated(a) = Saturated(first + b)
      BY <2>1, <2>8, <2>9
    <3> QED BY <3>1, <1>8, <2>5, DirectoryLimits DEF Saturated
  <2> QED BY <2>5, <2>7, <2>8, <2>9, <2>10
<1>11. Nat \subseteq S
  <2> HIDE DEF S
  <2> QED BY <1>9, <1>10, SetInduction
<1>12. ASSUME NEW k \in 0 .. n PROVE Saturated(Now(k)) = Saturated(first + p[k])
  <2>1. k \in Nat /\ k <= n
    BY <1>3
  <2> HIDE DEF Now, first
  <2> QED BY <1>11, <2>1
<1> QED BY <1>1, <1>2, <1>4, <1>12

-----------------------------------------------------------------------------
\* What a directory still holds behind its first entries.
Rest(t, dir, k) == Below(t)[dir] - PartialSums(Weights(t[dir], Below(t)))[k]

LEMMA RestFacts ==
  ASSUME NEW t, IsTree(t), NEW dir \in DOMAIN t
  PROVE  /\ Rest(t, dir, 0) = Below(t)[dir]
         /\ Rest(t, dir, Len(t[dir])) = 0
         /\ Below(t)[dir] \in Nat
         /\ \A k \in 0 .. Len(t[dir]) : PartialSums(Weights(t[dir], Below(t)))[k] \in Nat
<1>1. PICK D : D = DOMAIN t
  OBVIOUS
<1>2. PICK held : held = Below(t)
  OBVIOUS
<1>3. held \in [D -> Nat] /\ held[dir] = SumOf(Weights(t[dir], held))
  BY <1>1, <1>2, BelowIsHeld
<1>4. PICK listing : listing = t[dir]
  OBVIOUS
<1>5. listing \in Seq(Entry(D)) /\ SubDirs(listing) \subseteq D
  BY <1>1, <1>4 DEF IsTree
<1>6. PICK w : w = Weights(listing, held)
  OBVIOUS
<1>7. w \in Seq(Nat) /\ Len(w) = Len(listing) /\ Len(listing) \in Nat
  BY <1>3, <1>5, <1>6, WeightsType
<1>8. PartialSums(w) \in [0 .. Len(listing) -> Nat] /\ PartialSums(w)[0] = 0
  BY <1>7, PartialSumsDef
<1>9. held[dir] = PartialSums(w)[Len(listing)] /\ held[dir] \in Nat
  BY <1>1, <1>3, <1>4, <1>6, <1>7 DEF SumOf
<1>10. held[dir] - 0 = held[dir] /\ held[dir] - held[dir] = 0
  BY <1>9
<1>11. Rest(t, dir, 0) = held[dir]
  BY <1>2, <1>4, <1>6, <1>8, <1>10 DEF Rest
<1>12. Rest(t, dir, Len(t[dir])) = 0
  BY <1>2, <1>4, <1>6, <1>9, <1>10 DEF Rest
<1> QED BY <1>2, <1>4, <1>6, <1>8, <1>9, <1>11, <1>12

(***************************************************************************)
(* Below is the only way to say what the directories of a tree hold: any   *)
(* assignment that gives every directory the sum of its files and of its   *)
(* subdirectories is the one SizeExact measures directory_size against.    *)
(***************************************************************************)
THEOREM DirectoryReference ==
  ASSUME NEW t, IsTree(t), NEW held \in [DOMAIN t -> Nat],
         \A d \in DOMAIN t : held[d] = SumOf(Weights(t[d], held))
  PROVE  held = Below(t)
<1>1. PICK D, below : D = DOMAIN t /\ below = Below(t)
  OBVIOUS
<1>2. below \in [D -> Nat] /\ \A d \in D : below[d] = SumOf(Weights(t[d], below))
  BY <1>1, BelowIsHeld
<1>3. PICK height \in [D -> 0 .. Cardinality(D) - 1] :
        \A d \in D : \A sub \in SubDirs(t[d]) : sub \in D /\ height[sub] < height[d]
  BY <1>1 DEF IsTree
<1>4. \A d \in D : t[d] \in Seq(Entry(D)) /\ height[d] \in Nat
  <2>1. \A d \in D : t[d] \in Seq(Entry(D))
    BY <1>1 DEF IsTree
  <2>2. Cardinality(D) \in Nat
    BY <1>1, FS_CardinalityType DEF IsTree
  <2> QED BY <1>3, <2>1, <2>2
<1>5. PICK bad : bad = {height[d] : d \in {e \in D : held[e] # below[e]}}
  OBVIOUS
<1>6. bad = {}
  <2>1. SUFFICES ASSUME bad # {} PROVE FALSE
    OBVIOUS
  <2>2. bad \subseteq Nat
    BY <1>4, <1>5
  <2>3. PICK x \in bad : \A y \in bad : x <= y
    BY <2>1, <2>2, NatMin
  <2>4. PICK d \in D : held[d] # below[d] /\ x = height[d]
    BY <1>5, <2>3
  <2>5. ASSUME NEW sub \in SubDirs(t[d]) PROVE held[sub] = below[sub]
    <3>1. sub \in D /\ height[sub] < x /\ height[sub] \in Nat /\ x \in Nat
      BY <1>3, <1>4, <2>4
    <3>2. height[sub] \notin bad
      BY <2>3, <3>1
    <3> QED BY <1>5, <3>1, <3>2
  <2>6. Weights(t[d], held) = Weights(t[d], below)
    BY <1>4, <2>4, <2>5, WeightsAgree
  <2> QED BY <1>1, <1>2, <2>4, <2>6
<1>7. ASSUME NEW d \in D PROVE held[d] = below[d]
  <2>1. CASE held[d] # below[d]
    <3>1. height[d] \in bad
      BY <1>5, <2>1
    <3> QED BY <1>6, <3>1
  <2> QED BY <2>1
<1> QED BY <1>1, <1>2, <1>7

(***************************************************************************)
(* The decoder of directory pages (decode_file_id_full_directory_metadata) *)
(* returns the entries of a well-formed page, all of them and in order,    *)
(* whatever their number and their names, and refuses the page as a whole  *)
(* when the first entry is broken: a next offset into the entry, past the  *)
(* buffer or off its alignment, a name that is odd or too long, a negative *)
(* length, a buffer that ends within the entry.                            *)
(***************************************************************************)
THEOREM DirectoryDecoder ==
  ASSUME NEW D, NEW s \in Seq(Entry(D)), s # <<>>
  PROVE  /\ Decode(Buffer(s)) = [ok |-> TRUE, entries |-> s]
         /\ \A d \in Damaged(Buffer(s)) : Decode(d).ok = FALSE
<1>1. \A e \in Entry(D) : Plain(e)
  BY DEF Entry, Plain
<1> QED BY <1>1, HonestDecode, DamagedRefused

-----------------------------------------------------------------------------
(***************************************************************************)
(* Directories: the lock of a handle.                                      *)
(***************************************************************************)
Walking == {"pop", "list", "closing"}
Inside == {"page", "capacity", "close"} \cup Walking

\* The lock: one thread is inside a call, and it is the holder.
Locking ==
  /\ holder \in Callers \cup {None}
  /\ op \in [Callers -> {"page", "capacity", "size", "close", None}]
  /\ pc \in [Callers -> Inside \cup {"idle", "lock"}]
  /\ \A t \in Callers :
       /\ pc[t] \in Inside <=> holder = t
       /\ pc[t] \in Walking => op[t] = "size"
       /\ pc[t] \in {"page", "capacity", "close"} => op[t] = pc[t]
       /\ pc[t] = "lock" => op[t] # None

Returns(t) ==
  /\ pc[t] \in Inside /\ pc' = [pc EXCEPT ![t] = "idle"]
  /\ holder' = None /\ UNCHANGED op

Stays(t) ==
  /\ pc[t] \in Walking /\ \E p \in Walking : pc' = [pc EXCEPT ![t] = p]
  /\ UNCHANGED <<holder, op>>

LEMMA StepMoves ==
  ASSUME Locking, NEW t \in Callers, Step(t)
  PROVE  Lock(t) \/ Returns(t) \/ Stays(t)
<1> USE DEF Walking, Inside
<1>1. CASE PageExhausted(t) \/ PageEnd(t) \/ PageFails(t)
  BY <1>1 DEF PageExhausted, PageEnd, PageFails, Return, Returns
<1>2. ASSUME NEW n \in 1 .. MaxPage, PageAnswer(t, n) PROVE Returns(t)
  <2>1. pc[t] = "page" /\ op' = op
    BY <1>2 DEF PageAnswer
  <2>2. PICK v : Return(t, v)
    BY <1>2 DEF PageAnswer
  <2> QED BY <2>1, <2>2 DEF Return, Returns
<1>3. ASSUME NEW u, Capacity(t, u, 2) PROVE Returns(t)
  BY <1>3 DEF Capacity, Return, Returns
<1>4. CASE CapacityFails(t) \/ CloseDirectory(t) \/ CloseFails(t)
  BY <1>4 DEF CapacityFails, CloseDirectory, CloseFails, Return, Returns
<1>5. CASE WalkDone(t) \/ WalkOpenFails(t) \/ WalkCloseFails(t)
  BY <1>5 DEF WalkDone, WalkOpenFails, WalkCloseFails, Return, Returns
<1>6. CASE WalkOpen(t)
  BY <1>6 DEF WalkOpen, Stays
<1>7. CASE WalkQueryFails(t)
  BY <1>7 DEF WalkQueryFails, Stays
<1>8. ASSUME NEW n \in 0 .. MaxPage, WalkAnswer(t, n) PROVE Stays(t)
  <2>1. pc[t] = "list" /\ holder' = holder /\ op' = op
    BY <1>8 DEF WalkAnswer
  <2>2. pc' = pc \/ pc' = [pc EXCEPT ![t] = "closing"]
    BY <1>8 DEF WalkAnswer
  <2>3. pc = [pc EXCEPT ![t] = "list"]
    BY <2>1 DEF Locking
  <2> QED BY <2>1, <2>2, <2>3 DEF Stays
<1>9. CASE WalkClose(t)
  <2>1. CASE walk.failed
    BY <1>9, <2>1 DEF WalkClose, Return, Returns
  <2>2. CASE ~walk.failed
    BY <1>9, <2>2 DEF WalkClose, Stays
  <2> QED BY <2>1, <2>2
<1> QED BY <1>1, <1>2, <1>3, <1>4, <1>5, <1>6, <1>7, <1>8, <1>9 DEF Step

LEMMA LockingKept ==
  ASSUME Locking, NEW t \in Callers,
         Step(t) \/ \E what \in {"page", "capacity", "size", "close"} : Lookup(t, what)
  PROVE  Locking'
<1> USE DEF Walking, Inside
<1>1. ASSUME NEW what \in {"page", "capacity", "size", "close"}, Lookup(t, what) PROVE Locking'
  BY <1>1 DEF Lookup, Locking, None
<1>2. CASE Lock(t)
  <2>1. holder = None /\ holder' = t /\ op' = op /\ pc[t] = "lock"
    BY <1>2 DEF Lock
  <2>2. PICK p : p = IF op[t] = "size" THEN "pop" ELSE op[t]
    OBVIOUS
  <2>3. pc' = [pc EXCEPT ![t] = p]
    BY <1>2, <2>2 DEF Lock
  <2>4. op[t] \in {"page", "capacity", "size", "close"}
    BY <2>1 DEF Locking
  <2>5. p \in Inside /\ (p \in Walking => op[t] = "size")
        /\ (p \in {"page", "capacity", "close"} => op[t] = p)
    BY <2>2, <2>4
  <2>6. \A u \in Callers : pc[u] \notin Inside
    BY <2>1, DirectoryLimits DEF Locking
  <2> QED BY <2>1, <2>3, <2>5, <2>6 DEF Locking
<1>3. CASE Returns(t)
  <2>1. holder = t
    BY <1>3 DEF Returns, Locking
  <2> QED BY <1>3, <2>1, DirectoryLimits DEF Returns, Locking
<1>4. CASE Stays(t)
  <2>1. PICK p \in Walking : pc' = [pc EXCEPT ![t] = p]
    BY <1>4 DEF Stays
  <2>2. holder = t /\ holder' = holder /\ op' = op /\ op[t] = "size"
    BY <1>4 DEF Stays, Locking
  <2> QED BY <2>1, <2>2 DEF Locking
<1> QED BY <1>1, <1>2, <1>3, <1>4, StepMoves

-----------------------------------------------------------------------------
\* The scan and the pages: what was returned is a prefix, and as long as the
\* session answers it is all the server has handed out.
Scanned ==
  /\ tree \in Trees
  /\ scan = [open |-> scan.open, returned |-> scan.returned]
  /\ scan.returned \in 0 .. Len(tree[Root])
  /\ pages \in Seq(Entry(DOMAIN tree))
  /\ ~lost => /\ Len(pages) <= Len(tree[Root])
              /\ pages = SubSeq(tree[Root], 1, Len(pages))
              /\ exhausted => Len(pages) = Len(tree[Root])
              /\ ~stale => Len(pages) = scan.returned

\* A step that leaves the pages alone and hands nothing out while the session answers.
Idles ==
  /\ UNCHANGED <<tree, exhausted, pages, lost>>
  /\ scan' = [scan EXCEPT !.open = scan'.open]
  /\ stale => stale'

LEMMA StaleStays == Fails => (stale => stale')
<1> SUFFICES ASSUME Fails, stale PROVE stale'
  OBVIOUS
<1>1. CASE stale' = stale
  BY <1>1
<1>2. CASE stale' = TRUE
  BY <1>2
<1> QED BY <1>1, <1>2 DEF Fails

LEMMA IdlesKeeps == Scanned /\ Idles => Scanned'
<1> SUFFICES ASSUME Scanned, Idles PROVE Scanned'
  OBVIOUS
<1>1. scan'.returned = scan.returned /\ scan' = [open |-> scan'.open, returned |-> scan'.returned]
  BY DEF Scanned, Idles
<1> QED BY <1>1 DEF Scanned, Idles

LEMMA ListingType ==
  ASSUME tree \in Trees, NEW d \in DOMAIN tree
  PROVE  /\ IsTree(tree) /\ Root \in DOMAIN tree
         /\ tree[d] \in Seq(Entry(DOMAIN tree)) /\ SubDirs(tree[d]) \subseteq DOMAIN tree
BY TreesAreTrees DEF IsTree

LEMMA RootType == tree \in Trees => Root \in DOMAIN tree
BY TreesAreTrees DEF IsTree

LEMMA SubSeqFacts ==
  ASSUME NEW E, NEW w \in Seq(E), NEW a \in Nat, NEW m \in Nat, a + m <= Len(w)
  PROVE  /\ SubSeq(w, a + 1, a + m) \in Seq(E) /\ Len(SubSeq(w, a + 1, a + m)) = m
         /\ \A i \in 1 .. m : SubSeq(w, a + 1, a + m)[i] = w[a + i]
OBVIOUS

\* The entries of one page.
LEMMA SliceFacts ==
  ASSUME NEW E, NEW l \in Seq(E), NEW r \in Nat, NEW n \in Nat, n > 0, r + n <= Len(l)
  PROVE  /\ Slice(l, r, n) \in Seq(E) /\ Len(Slice(l, r, n)) = n /\ Slice(l, r, n) # <<>>
         /\ \A i \in 1 .. n : Slice(l, r, n)[i] = l[r + i]
         /\ SubSeq(l, 1, r) \o Slice(l, r, n) = SubSeq(l, 1, r + n)
<1>1. /\ Slice(l, r, n) \in Seq(E) /\ Len(Slice(l, r, n)) = n
      /\ \A i \in 1 .. n : Slice(l, r, n)[i] = l[r + i]
  BY SubSeqFacts DEF Slice
<1>2. SubSeq(l, 1, r) \o SubSeq(l, r + 1, r + n) = SubSeq(l, 1, r + n)
  <2>1. 1 \in 1 .. Len(l) + 1 /\ r \in 1 - 1 .. Len(l) /\ r + n \in r .. Len(l)
    OBVIOUS
  <2> QED BY <2>1, ConcatAdjacentSubSeq
<1>3. Slice(l, r, n) # <<>>
  BY <1>1
<1> QED BY <1>1, <1>2, <1>3 DEF Slice

LEMMA ConcatType ==
  ASSUME NEW E, NEW a \in Seq(E), NEW b \in Seq(E)
  PROVE  a \o b \in Seq(E) /\ Len(a \o b) = Len(a) + Len(b)
OBVIOUS

\* A page that is returned is the next part of the listing.
LEMMA PageAnswerKeeps ==
  ASSUME Scanned, NEW t \in Callers, NEW n \in 1 .. MaxPage, PageAnswer(t, n)
  PROVE  Scanned'
<1> DEFINE l == tree[Root]
           r == scan.returned
           s == Slice(l, r, n)
           D == DOMAIN tree
<1>1. l \in Seq(Entry(D)) /\ Len(l) \in Nat /\ r \in Nat /\ n \in Nat /\ n > 0
  <2>1. l \in Seq(Entry(D))
    BY RootType, ListingType DEF Scanned
  <2> QED BY <2>1, DirectoryLimits DEF Scanned
<1>2. r + n <= Len(l)
  BY DEF PageAnswer, Pages
<1>3. /\ s \in Seq(Entry(D)) /\ Len(s) = n /\ s # <<>>
      /\ SubSeq(l, 1, r) \o s = SubSeq(l, 1, r + n)
  <2> HIDE DEF l, r, s, D
  <2>1. s = Slice(l, r, n)
    BY DEF s
  <2> QED BY <1>1, <1>2, <2>1, SliceFacts
<1>4. /\ ~stale /\ ~exhausted /\ tree' = tree /\ exhausted' = exhausted /\ stale' = stale
      /\ scan' = [scan EXCEPT !.returned = r + n]
  BY DEF PageAnswer, Answers
<1>5. scan' = [open |-> scan'.open, returned |-> scan'.returned] /\ scan'.returned = r + n
  BY <1>4 DEF Scanned
<1>6. PICK buffer \in {Buffer(s)} \cup Damaged(Buffer(s)) :
        IF Decode(buffer).ok /\ Len(Decode(buffer).entries) <= MaxResult
          THEN pages' = pages \o Decode(buffer).entries /\ UNCHANGED lost
          ELSE lost' = TRUE /\ UNCHANGED pages
  BY DEF PageAnswer
<1>7. CASE pages' = pages \o Decode(buffer).entries /\ lost' = lost /\ Decode(buffer).ok
  <2>1. Decode(buffer).entries = s
    <3> HIDE DEF s, D
    <3> QED BY <1>3, <1>7, PageDecoded
  <2>2. pages' = pages \o s
    BY <1>7, <2>1
  <2>3. pages \in Seq(Entry(D)) /\ pages' \in Seq(Entry(D)) /\ Len(pages') = Len(pages) + n
    <3>1. pages \in Seq(Entry(D))
      BY DEF Scanned
    <3>2. pages \o s \in Seq(Entry(D)) /\ Len(pages \o s) = Len(pages) + Len(s)
      <4> HIDE DEF s, D
      <4> QED BY <1>3, <3>1, ConcatType
    <3> QED BY <1>3, <2>2, <3>1, <3>2
  <2>4. ASSUME ~lost PROVE pages' = SubSeq(l, 1, r + n) /\ Len(pages') = r + n
    <3>1. Len(pages) = r /\ pages = SubSeq(l, 1, r)
      BY <1>4, <2>4 DEF Scanned
    <3> QED BY <1>3, <2>2, <2>3, <3>1
  <2> HIDE DEF l, r, s, D
  <2>5. r + n \in 0 .. Len(l)
    BY <1>1, <1>2
  <2> QED BY <1>2, <1>4, <1>5, <1>7, <2>3, <2>4, <2>5 DEF Scanned, l, D
<1>8. CASE lost' = TRUE /\ pages' = pages
  <2>1. r + n \in 0 .. Len(l)
    BY <1>1, <1>2
  <2> QED BY <1>4, <1>5, <1>8, <2>1 DEF Scanned
<1> QED BY <1>6, <1>7, <1>8

LEMMA PageEndKeeps ==
  ASSUME Scanned, NEW t \in Callers, PageEnd(t)
  PROVE  Scanned'
<1>1. ~stale /\ scan.returned = Len(tree[Root])
  BY DEF PageEnd, Answers, Pages
<1>2. UNCHANGED <<tree, scan, stale, pages, lost>>
  BY DEF PageEnd
<1> QED BY <1>1, <1>2 DEF Scanned

LEMMA PageFailsKeeps ==
  ASSUME Scanned, NEW t \in Callers, PageFails(t)
  PROVE  Scanned'
<1>1. UNCHANGED <<tree, exhausted, pages, lost>> /\ (stale => stale')
  BY StaleStays DEF PageFails
<1>2. PICK n : /\ n \in IF stale' /\ scan.open THEN Pages(tree[Root], scan.returned) ELSE {0}
               /\ scan' = [scan EXCEPT !.returned = scan.returned + n]
  BY DEF PageFails
<1>3. scan.returned \in Nat /\ Len(tree[Root]) \in Nat /\ scan.returned <= Len(tree[Root])
  <2>1. tree[Root] \in Seq(Entry(DOMAIN tree))
    BY RootType, ListingType DEF Scanned
  <2> QED BY <2>1 DEF Scanned
<1>4. n \in Nat /\ scan.returned + n <= Len(tree[Root]) /\ (~stale' => n = 0)
  BY <1>2, <1>3, DirectoryLimits DEF Pages
<1>5. scan' = [open |-> scan'.open, returned |-> scan'.returned]
      /\ scan'.returned = scan.returned + n
  BY <1>2 DEF Scanned
<1> QED BY <1>1, <1>3, <1>4, <1>5 DEF Scanned

LEMMA ScannedKept ==
  ASSUME Scanned, NEW t \in Callers,
         Step(t) \/ \E what \in {"page", "capacity", "size", "close"} : Lookup(t, what)
  PROVE  Scanned'
<1>0. scan = [scan EXCEPT !.open = scan.open]
  BY DEF Scanned
<1>1. ASSUME NEW what, Lookup(t, what) PROVE Idles
  BY <1>0, <1>1 DEF Lookup, Idles
<1>2. CASE Lock(t) \/ PageExhausted(t)
  BY <1>0, <1>2, IdlesKeeps DEF Lock, PageExhausted, Idles
<1>3. ASSUME NEW u, Capacity(t, u, 2) PROVE Idles
  BY <1>0, <1>3 DEF Capacity, Idles
<1>4. CASE CapacityFails(t)
  BY <1>0, <1>4, IdlesKeeps, StaleStays DEF CapacityFails, Idles
<1>5. CASE CloseDirectory(t)
  <2>1. scan' = [scan EXCEPT !.open = FALSE]
    BY <1>5 DEF CloseDirectory
  <2>2. scan' = [scan EXCEPT !.open = scan'.open]
    BY <2>1 DEF Scanned
  <2>3. Idles
    BY <1>5, <2>2 DEF CloseDirectory, Idles
  <2> QED BY <2>3, IdlesKeeps
<1>6. CASE CloseFails(t)
  <2>1. scan' = scan \/ scan' = [scan EXCEPT !.open = FALSE]
    BY <1>6 DEF CloseFails
  <2>2. scan' = [scan EXCEPT !.open = scan'.open]
    BY <2>1 DEF Scanned
  <2>3. Idles
    BY <1>6, <2>2, StaleStays DEF CloseFails, Idles
  <2> QED BY <2>3, IdlesKeeps
<1>7. CASE WalkDone(t) \/ WalkOpen(t)
  BY <1>0, <1>7, IdlesKeeps DEF WalkDone, WalkOpen, Idles
<1>8. CASE WalkOpenFails(t) \/ WalkQueryFails(t) \/ WalkCloseFails(t)
  <2>1. stale => stale'
    BY <1>8, StaleStays DEF WalkOpenFails, WalkQueryFails, WalkCloseFails
  <2>2. Idles
    BY <1>0, <1>8, <2>1 DEF WalkOpenFails, WalkQueryFails, WalkCloseFails, Idles
  <2> QED BY <2>2, IdlesKeeps
<1>9. ASSUME NEW n, WalkAnswer(t, n) PROVE Idles
  BY <1>0, <1>9 DEF WalkAnswer, Idles
<1>10. CASE WalkClose(t)
  BY <1>0, <1>10, IdlesKeeps DEF WalkClose, Idles
<1> QED BY <1>1, <1>2, <1>3, <1>4, <1>5, <1>6, <1>7, <1>8, <1>9, <1>10,
           IdlesKeeps, PageAnswerKeeps, PageEndKeeps, PageFailsKeeps DEF Step

-----------------------------------------------------------------------------
(***************************************************************************)
(* Directories: the size walk.                                             *)
(***************************************************************************)
\* What the walk has counted, what the directories it still has to open hold and
\* what is left of the one it is in make up the size, cut off at i64::MAX.
Goal(t) == Saturated(Below(t)[Root])

Account(t, pending, total, rest) ==
  Saturated((total + Owed(pending, Below(t))) + rest) = Goal(t)

Fields(w) ==
  w = [pending |-> w.pending, total |-> w.total, dir |-> w.dir, listed |-> w.listed,
       failed |-> w.failed]

Counts(t, w) == w.pending \in Seq(DOMAIN t) /\ w.total \in 0 .. MaxLong

InDir(t, w) == w.dir \in DOMAIN t /\ w.listed \in 0 .. Len(t[w.dir])

\* What is known of the locals w of directory_size at a place of the walk.
Good(t, w, place) ==
  /\ Fields(w) /\ Counts(t, w)
  /\ place = "pop" => ~w.failed /\ Account(t, w.pending, w.total, 0)
  /\ place = "list" => ~w.failed
  /\ place \in {"list", "closing"} =>
       /\ InDir(t, w)
       /\ ~w.failed => Account(t, w.pending, w.total, Rest(t, w.dir, w.listed))
  /\ place = "closing" /\ ~w.failed => w.listed = Len(t[w.dir])

\* Equal up to i64::MAX is equal up to i64::MAX after adding the same.
LEMMA SaturatedSum ==
  ASSUME NEW a \in Nat, NEW b \in Nat, NEW c \in Nat, Saturated(a) = Saturated(b)
  PROVE  Saturated(a + c) = Saturated(b + c)
BY DirectoryLimits DEF Saturated

LEMMA OwedType ==
  ASSUME NEW D, NEW held \in [D -> Nat], NEW p \in Seq(D)
  PROVE  Owed(p, held) \in Nat
<1>1. CASE p = <<>>
  BY <1>1, OwedNothing
<1>2. CASE p # <<>>
  <2>1. PICK f, h : f = Owed(Front(p), held) /\ h = held[Last(p)]
    OBVIOUS
  <2>2. f \in Nat /\ h \in Nat /\ Owed(p, held) = f + h
    BY <1>2, <2>1, OwedLast
  <2> QED BY <2>2
<1> QED BY <1>1, <1>2

LEMMA TreeFacts ==
  ASSUME NEW t, IsTree(t)
  PROVE  /\ Root \in DOMAIN t /\ None \notin DOMAIN t /\ Below(t) \in [DOMAIN t -> Nat]
         /\ \A d \in DOMAIN t : t[d] \in Seq(Entry(DOMAIN t)) /\ SubDirs(t[d]) \subseteq DOMAIN t
BY BelowIsHeld DEF IsTree

\* A walk starts owing what the root holds.
LEMMA GoodStart ==
  ASSUME NEW t, IsTree(t)
  PROVE  Good(t, [NoWalk EXCEPT !.pending = <<Root>>], "pop")
<1>1. PICK w : w = [NoWalk EXCEPT !.pending = <<Root>>]
  OBVIOUS
<1>2. w = [pending |-> <<Root>>, total |-> 0, dir |-> None, listed |-> 0, failed |-> FALSE]
  BY <1>1 DEF NoWalk
<1>3. Fields(w) /\ w.pending = <<Root>> /\ w.total = 0 /\ w.failed = FALSE
  BY <1>2 DEF Fields
<1>4. Counts(t, w)
  BY <1>3, TreeFacts, DirectoryLimits DEF Counts
<1>5. PICK h, held, D : held = Below(t) /\ h = held[Root] /\ D = DOMAIN t
  OBVIOUS
<1>6. Root \in D /\ held \in [D -> Nat] /\ h \in Nat
  BY <1>5, TreeFacts
<1>7. Owed(<<Root>>, held) = h
  <2>1. <<>> \in Seq(D) /\ <<Root>> = Append(<<>>, Root)
    OBVIOUS
  <2>2. Owed(<<Root>>, held) = Owed(<<>>, held) + h
    BY <1>5, <1>6, <2>1, OwedAppend
  <2> QED BY <1>6, <2>2, OwedNothing
<1>8. Account(t, <<Root>>, 0, 0)
  <2>1. (0 + h) + 0 = h
    BY <1>6
  <2> QED BY <1>5, <1>7, <2>1 DEF Account, Goal
<1> QED BY <1>1, <1>3, <1>4, <1>8 DEF Good

\* Opening the last pending directory turns what is owed for it into what is left.
LEMMA GoodOpen ==
  ASSUME NEW t, IsTree(t), NEW w, Good(t, w, "pop"), w.pending # <<>>,
         NEW v, v = [w EXCEPT !.pending = Front(w.pending), !.dir = Last(w.pending), !.listed = 0]
  PROVE  Good(t, v, "list")
<1>1. PICK p, q, d, n : p = w.pending /\ q = Front(p) /\ d = Last(p) /\ n = w.total
  OBVIOUS
<1>2. Fields(v) /\ v.pending = q /\ v.total = n /\ v.dir = d /\ v.listed = 0 /\ v.failed = w.failed
  BY <1>1 DEF Good, Fields
<1>3. p \in Seq(DOMAIN t) /\ p # <<>> /\ n \in 0 .. MaxLong /\ n \in Nat /\ ~w.failed
      /\ Account(t, p, n, 0)
  BY <1>1, DirectoryLimits DEF Good, Counts
<1>4. PICK held, D : held = Below(t) /\ D = DOMAIN t
  OBVIOUS
<1>5. held \in [D -> Nat] /\ p \in Seq(D)
  BY <1>3, <1>4, TreeFacts
<1>6. PICK f, h : f = Owed(q, held) /\ h = held[d]
  OBVIOUS
<1>7. q \in Seq(D) /\ d \in D /\ f \in Nat /\ h \in Nat /\ Owed(p, held) = f + h
  BY <1>1, <1>3, <1>5, <1>6, OwedLast
<1>8. Counts(t, v) /\ InDir(t, v)
  <2>1. t[d] \in Seq(Entry(D))
    BY <1>4, <1>7, TreeFacts
  <2>2. 0 \in 0 .. Len(t[d])
    BY <2>1
  <2> QED BY <1>2, <1>3, <1>4, <1>7, <2>2 DEF Counts, InDir
<1>9. Account(t, q, n, Rest(t, d, 0))
  <2>1. Rest(t, d, 0) = h
    BY <1>4, <1>6, <1>7, RestFacts
  <2>2. (n + (f + h)) + 0 = (n + f) + h
    BY <1>3, <1>7
  <2>3. Saturated((n + (f + h)) + 0) = Goal(t)
    BY <1>3, <1>4, <1>7 DEF Account
  <2> QED BY <1>4, <1>6, <2>1, <2>2, <2>3 DEF Account
<1> QED BY <1>2, <1>3, <1>8, <1>9 DEF Good

\* A listing that came to its end has nothing left.
LEMMA GoodClose ==
  ASSUME NEW t, IsTree(t), NEW w, Good(t, w, "closing"), ~w.failed,
         NEW v, v = [w EXCEPT !.dir = None]
  PROVE  Good(t, v, "pop")
<1>1. Fields(v) /\ v.pending = w.pending /\ v.total = w.total /\ v.failed = w.failed
  BY DEF Good, Fields
<1>2. Counts(t, w) /\ InDir(t, w) /\ w.listed = Len(t[w.dir])
      /\ Account(t, w.pending, w.total, Rest(t, w.dir, w.listed))
  BY DEF Good
<1>3. Rest(t, w.dir, w.listed) = 0
  <2>1. PICK d : d = w.dir
    OBVIOUS
  <2>2. d \in DOMAIN t /\ w.listed = Len(t[d])
    BY <1>2, <2>1 DEF InDir
  <2>3. Rest(t, d, Len(t[d])) = 0
    BY <2>2, RestFacts
  <2> QED BY <2>1, <2>2, <2>3
<1>4. Account(t, w.pending, w.total, 0)
  BY <1>2, <1>3
<1>5. Counts(t, v)
  BY <1>1, <1>2 DEF Counts
<1> QED BY <1>1, <1>4, <1>5 DEF Good

LEMMA GoodEnd ==
  ASSUME NEW t, NEW w, Good(t, w, "list"), w.listed = Len(t[w.dir])
  PROVE  Good(t, w, "closing")
BY DEF Good

LEMMA GoodFail ==
  ASSUME NEW t, NEW w, Good(t, w, "list"), NEW v, v = [w EXCEPT !.failed = TRUE]
  PROVE  Good(t, v, "closing")
<1>1. /\ v.pending = w.pending /\ v.total = w.total /\ v.dir = w.dir /\ v.listed = w.listed
      /\ v.failed = TRUE /\ Fields(v)
  BY DEF Good, Fields
<1>2. Counts(t, w) /\ InDir(t, w)
  BY DEF Good
<1>3. Counts(t, v) /\ InDir(t, v)
  BY <1>1, <1>2 DEF Counts, InDir
<1> QED BY <1>1, <1>3 DEF Good

\* Nothing pending: the total is the size.
LEMMA GoodDone ==
  ASSUME NEW t, NEW w, Good(t, w, "pop"), w.pending = <<>>
  PROVE  w.total = Goal(t)
<1>1. PICK n : n = w.total
  OBVIOUS
<1>2. n \in 0 .. MaxLong /\ n \in Nat /\ Account(t, <<>>, n, 0)
  BY <1>1, DirectoryLimits DEF Good, Counts
<1>3. Saturated((n + 0) + 0) = Goal(t)
  BY <1>2, OwedNothing DEF Account
<1>4. (n + 0) + 0 = n /\ Saturated(n) = n
  BY <1>2, DirectoryLimits DEF Saturated
<1> QED BY <1>1, <1>3, <1>4

\* What follows the first z numbers adds up to the rest of the sum.
LEMMA SumOfTail ==
  ASSUME NEW w \in Seq(Nat), NEW z \in 0 .. Len(w)
  PROVE  \E e \in Nat : PartialSums(w)[Len(w)] = PartialSums(w)[z] + e
<1>1. PICK m : m = Len(w) - z
  OBVIOUS
<1>2. m \in Nat /\ z \in Nat /\ z + m = Len(w) /\ z + m <= Len(w)
  BY <1>1
<1>3. PICK y : y = SubSeq(w, z + 1, z + m)
  OBVIOUS
<1>4. y \in Seq(Nat) /\ Len(y) = m /\ \A i \in 1 .. m : y[i] = w[z + i]
  <2>1. /\ SubSeq(w, z + 1, z + m) \in Seq(Nat) /\ Len(SubSeq(w, z + 1, z + m)) = m
        /\ \A i \in 1 .. m : SubSeq(w, z + 1, z + m)[i] = w[z + i]
    BY ONLY <1>2, w \in Seq(Nat)
  <2> QED BY ONLY <1>3, <2>1, Zenon
<1>5. \A k \in 0 .. m : PartialSums(w)[z + k] = PartialSums(w)[z] + PartialSums(y)[k]
  BY ONLY <1>2, <1>4, w \in Seq(Nat), SumOfSlice
<1>6. m \in 0 .. m /\ PartialSums(y)[m] \in Nat
  <2>1. PartialSums(y) \in [0 .. m -> Nat]
    BY <1>2, <1>4, PartialSumsDef
  <2>2. m \in 0 .. m
    BY <1>2
  <2> QED BY <2>1, <2>2
<1>7. PartialSums(w)[z + m] = PartialSums(w)[z] + PartialSums(y)[m]
  BY <1>5, <1>6
<1> QED BY <1>2, <1>6, <1>7

\* What is left shrinks by what is listed.
LEMMA RestSlice ==
  ASSUME NEW t, IsTree(t), NEW d \in DOMAIN t, NEW r \in Nat, NEW n \in Nat, n > 0,
         r + n <= Len(t[d]), NEW s, s = Slice(t[d], r, n)
  PROVE  /\ s \in Seq(Entry(DOMAIN t)) /\ SubDirs(s) \subseteq DOMAIN t /\ Len(s) = n
         /\ Rest(t, d, r + n) \in Nat
         /\ PartialSums(Weights(s, Below(t)))[n] \in Nat
         /\ Rest(t, d, r) = Rest(t, d, r + n) + PartialSums(Weights(s, Below(t)))[n]
<1>1. PICK D, held, l : D = DOMAIN t /\ held = Below(t) /\ l = t[d]
  OBVIOUS
<1>2. held \in [D -> Nat] /\ l \in Seq(Entry(D)) /\ SubDirs(l) \subseteq D /\ Len(l) \in Nat
  BY <1>1, TreeFacts
<1>3. s \in Seq(Entry(D)) /\ Len(s) = n /\ \A i \in 1 .. n : s[i] = l[r + i]
  BY <1>1, <1>2, SliceFacts
<1>4. SubDirs(s) \subseteq D
  <2>1. DOMAIN s = 1 .. n /\ DOMAIN l = 1 .. Len(l) /\ r + n <= Len(l)
    BY <1>1, <1>2, <1>3
  <2>2. \A i \in 1 .. n : r + i \in 1 .. Len(l)
    BY <1>2, <2>1
  <2>3. ASSUME NEW sub \in SubDirs(s) PROVE sub \in SubDirs(l)
    <3>1. PICK i \in 1 .. n : s[i].kind = "dir" /\ sub = s[i].to
      BY <2>1 DEF SubDirs
    <3>2. PICK j : j = r + i
      OBVIOUS
    <3>3. j \in DOMAIN l /\ l[j].kind = "dir" /\ sub = l[j].to
      BY <1>3, <2>1, <2>2, <3>1, <3>2
    <3> QED BY <3>3 DEF SubDirs
  <2> QED BY <1>2, <2>3
<1>5. PICK w, x : w = Weights(l, held) /\ x = Weights(s, held)
  OBVIOUS
<1>6. w \in Seq(Nat) /\ Len(w) = Len(l) /\ \A i \in 1 .. Len(l) : w[i] = Weight(l[i], held)
  BY <1>2, <1>5, WeightsType
<1>7. x \in Seq(Nat) /\ Len(x) = n /\ \A i \in 1 .. n : x[i] = Weight(s[i], held)
  BY <1>2, <1>3, <1>4, <1>5, WeightsType
<1>8. \A i \in 1 .. n : x[i] = w[r + i]
  <2>1. \A i \in 1 .. n : r + i \in 1 .. Len(l)
    BY <1>1, <1>2
  <2> QED BY <1>3, <1>6, <1>7, <2>1
<1>9. r + n <= Len(w)
  BY <1>1, <1>6
<1>10. PICK a, b, c : a = PartialSums(w)[r] /\ b = PartialSums(w)[r + n] /\ c = PartialSums(x)[n]
  OBVIOUS
<1>11. a \in Nat /\ b \in Nat /\ c \in Nat
  <2>1. PartialSums(w) \in [0 .. Len(w) -> Nat] /\ PartialSums(x) \in [0 .. Len(x) -> Nat]
    BY <1>6, <1>7, PartialSumsDef
  <2>2. r \in 0 .. Len(w) /\ r + n \in 0 .. Len(w) /\ n \in 0 .. Len(x)
    BY <1>2, <1>6, <1>7, <1>9
  <2> QED BY <1>10, <2>1, <2>2
<1>12. b = a + c
  <2>1. \A k \in 0 .. n : PartialSums(w)[r + k] = PartialSums(w)[r] + PartialSums(x)[k]
    BY <1>6, <1>7, <1>8, <1>9, SumOfSlice
  <2>2. n \in 0 .. n
    OBVIOUS
  <2> QED BY <1>10, <2>1, <2>2
<1>13. PICK g : g = PartialSums(w)[Len(w)]
  OBVIOUS
<1>14. PICK e \in Nat : g = b + e
  <2>1. r + n \in 0 .. Len(w)
    BY <1>2, <1>6, <1>9
  <2> QED BY <1>6, <1>10, <1>13, <2>1, SumOfTail
<1>15. held[d] = g
  <2>1. held[d] = SumOf(w)
    BY <1>1, <1>5, BelowIsHeld
  <2> QED BY <1>13, <2>1 DEF SumOf
<1>16. Rest(t, d, r) = g - a /\ Rest(t, d, r + n) = g - b
  BY <1>1, <1>5, <1>10, <1>15 DEF Rest
<1>17. g - b \in Nat /\ g - a = (g - b) + c
  BY <1>11, <1>12, <1>14
<1> QED BY <1>1, <1>3, <1>4, <1>5, <1>10, <1>11, <1>16, <1>17

\* A page moves its part of what is left into the total and into what is owed.
LEMMA GoodPage ==
  ASSUME NEW t, IsTree(t), NEW w, Good(t, w, "list"), NEW n \in Nat, n > 0,
         w.listed + n <= Len(t[w.dir]), NEW sum,
         sum = Accumulate(Slice(t[w.dir], w.listed, n), w.pending, w.total),
         NEW v, v = [w EXCEPT !.listed = w.listed + n, !.total = sum.total, !.pending = sum.pending]
  PROVE  Good(t, v, "list")
<1>1. PICK d, r, p, c : d = w.dir /\ r = w.listed /\ p = w.pending /\ c = w.total
  OBVIOUS
<1>2. /\ v.pending = sum.pending /\ v.total = sum.total /\ v.dir = d /\ v.listed = r + n
      /\ v.failed = w.failed /\ Fields(v)
  BY <1>1 DEF Good, Fields
<1>3. ~w.failed /\ d \in DOMAIN t /\ r \in 0 .. Len(t[d]) /\ p \in Seq(DOMAIN t)
      /\ c \in 0 .. MaxLong /\ Account(t, p, c, Rest(t, d, r))
  BY <1>1 DEF Good, InDir, Counts
<1>4. PICK s, D, held : s = Slice(t[d], r, n) /\ D = DOMAIN t /\ held = Below(t)
  OBVIOUS
<1>5. r \in Nat /\ Len(t[d]) \in Nat /\ r + n <= Len(t[d]) /\ c \in Nat
  <2>1. t[d] \in Seq(Entry(DOMAIN t))
    BY <1>3, TreeFacts
  <2>2. Len(t[d]) \in Nat
    BY <2>1
  <2> QED BY <1>1, <1>3, <2>2, DirectoryLimits
<1>6. PICK R, Q, f : /\ R = Rest(t, d, r + n) /\ Q = PartialSums(Weights(s, held))[n]
                     /\ f = Owed(p, held)
  OBVIOUS
<1>7. s \in Seq(Entry(D)) /\ SubDirs(s) \subseteq D /\ Len(s) = n /\ R \in Nat /\ Q \in Nat
      /\ Rest(t, d, r) = R + Q
  BY <1>3, <1>4, <1>5, <1>6, RestSlice
<1>8. held \in [D -> Nat] /\ p \in Seq(D) /\ f \in Nat
  BY <1>3, <1>4, <1>6, TreeFacts, OwedType
<1>9. PICK start, L : start = [pending |-> p, total |-> c] /\ L = AccumulateLoop(s, start)
  OBVIOUS
<1>10. start \in Sums(D) /\ start.pending = p /\ start.total = c
  BY <1>3, <1>8, <1>9 DEF Sums
<1>11. sum = L[n]
  BY <1>1, <1>4, <1>7, <1>9 DEF Accumulate
<1>12. sum \in Sums(D)
  <2>1. L \in [0 .. Len(s) -> Sums(D)]
    BY <1>7, <1>9, <1>10, AccumulateDef
  <2>2. n \in 0 .. Len(s)
    BY <1>7
  <2> QED BY <1>11, <2>1, <2>2
<1>13. PICK q, e : q = sum.pending /\ e = sum.total
  OBVIOUS
<1>14. q \in Seq(D) /\ e \in 0 .. MaxLong /\ e \in Nat
  BY <1>12, <1>13, DirectoryLimits DEF Sums
<1>15. PICK g : g = Owed(q, held)
  OBVIOUS
<1>16. g \in Nat
  BY <1>8, <1>14, <1>15, OwedType
<1>17. Saturated(e + g) = Saturated((c + f) + Q)
  <2>1. n \in 0 .. Len(s)
    BY <1>7
  <2>2. \A k \in 0 .. Len(s) :
           Saturated(L[k].total + Owed(L[k].pending, held)) =
             Saturated((start.total + Owed(start.pending, held)) + PartialSums(Weights(s, held))[k])
    BY <1>7, <1>8, <1>9, <1>10, AccumulateSums
  <2>3. Saturated(L[n].total + Owed(L[n].pending, held)) =
             Saturated((start.total + Owed(start.pending, held)) + PartialSums(Weights(s, held))[n])
    BY <2>1, <2>2
  <2> QED BY <1>6, <1>10, <1>11, <1>13, <1>15, <2>3
<1>18. Saturated((e + g) + R) = Saturated(((c + f) + Q) + R)
  <2>1. PICK a, b : a = e + g /\ b = (c + f) + Q
    OBVIOUS
  <2>2. a \in Nat /\ b \in Nat
    <3>1. c \in Nat /\ f \in Nat /\ Q \in Nat /\ e \in Nat /\ g \in Nat
      BY <1>5, <1>7, <1>8, <1>14, <1>16
    <3> QED BY ONLY <2>1, <3>1
  <2>3. Saturated(a + R) = Saturated(b + R)
    BY <1>7, <1>17, <2>1, <2>2, SaturatedSum
  <2> QED BY <2>1, <2>3
<1>19. Account(t, q, e, R)
  <2>1. Saturated((c + f) + (R + Q)) = Goal(t)
    BY <1>3, <1>4, <1>6, <1>7 DEF Account
  <2>2. (c + f) + (R + Q) = ((c + f) + Q) + R
    BY <1>5, <1>7, <1>8
  <2> QED BY <1>4, <1>15, <1>18, <2>1, <2>2 DEF Account
<1>20. Counts(t, v) /\ InDir(t, v)
  <2>1. r + n \in 0 .. Len(t[d])
    BY <1>5
  <2> QED BY <1>2, <1>3, <1>4, <1>13, <1>14, <2>1 DEF Counts, InDir
<1> QED BY <1>2, <1>3, <1>6, <1>13, <1>19, <1>20 DEF Good

-----------------------------------------------------------------------------
(***************************************************************************)
(* Directories: the inductive invariant and its steps.                     *)
(***************************************************************************)
\* The places where the walk has a directory open.
Listing == {"list", "closing"}

\* The walk in progress owes what it has to.
Counted == \A t \in Callers : pc[t] \in Walking => Good(tree, walk, pc[t])

\* What the walk has open on the server.
Opened ==
  \/ stale
  \/ /\ \A t \in Callers : pc[t] \in Listing => openDirs = {walk.dir}
     /\ openDirs = {} \/ \E t \in Callers : pc[t] \in Listing

\* What size calls have returned.
Sized ==
  /\ result = [t \in Callers |-> result[t]]
  /\ \A t \in Callers :
       op[t] = "size" /\ pc[t] = "idle" /\ result[t].ok => result[t].value = Goal(tree)

\* The inductive invariant.
DirectoryInv == Locking /\ Scanned /\ Counted /\ Opened /\ Sized

LEMMA DirectoryStarts == DirectoryInit => DirectoryInv
<1> SUFFICES ASSUME DirectoryInit PROVE DirectoryInv
  OBVIOUS
<1>1. Locking
  BY DirectoryLimits DEF DirectoryInit, Locking, Inside, Walking, None
<1>2. Scanned
  <2>1. tree[Root] \in Seq(Entry(DOMAIN tree)) /\ tree \in Trees
    BY RootType, ListingType DEF DirectoryInit
  <2>2. Len(tree[Root]) \in Nat /\ SubSeq(tree[Root], 1, 0) = <<>> /\ Len(<<>>) = 0
        /\ <<>> \in Seq(Entry(DOMAIN tree))
    BY <2>1
  <2>3. scan.returned = 0 /\ scan = [open |-> scan.open, returned |-> scan.returned]
        /\ pages = <<>> /\ exhausted = FALSE
    BY DEF DirectoryInit
  <2> QED BY <2>1, <2>2, <2>3 DEF Scanned
<1>3. Counted /\ Opened
  BY DEF DirectoryInit, Counted, Opened, Walking, Listing
<1>4. Sized
  BY DEF DirectoryInit, Sized, Failed, None
<1> QED BY <1>1, <1>2, <1>3, <1>4 DEF DirectoryInv

\* Only the holder of the lock walks.
LEMMA Alone ==
  ASSUME Locking, NEW t \in Callers, NEW u \in Callers, pc[t] \in Inside, pc[u] \in Inside
  PROVE  t = u
BY DEF Locking

LEMMA TreeIs == Scanned => IsTree(tree)
BY TreesAreTrees DEF Scanned

\* The moves of a walk.
LEMMA WalkMoves ==
  ASSUME Locking, Scanned, Counted, NEW t \in Callers,
         \/ WalkOpen(t) \/ WalkQueryFails(t) \/ \E n \in 0 .. MaxPage : WalkAnswer(t, n)
         \/ WalkClose(t) /\ ~walk.failed
  PROVE  pc[t] \in Walking /\ tree' = tree /\ pc' = [pc EXCEPT ![t] = pc'[t]]
         /\ pc'[t] \in Walking /\ Good(tree, walk', pc'[t])
<1> USE DEF Walking
<1>0. IsTree(tree) /\ pc \in [Callers -> Inside \cup {"idle", "lock"}]
  BY TreeIs DEF Locking
<1>1. CASE WalkOpen(t)
  <2>1. /\ pc[t] = "pop" /\ walk.pending # <<>> /\ tree' = tree
        /\ pc' = [pc EXCEPT ![t] = "list"]
        /\ walk' = [walk EXCEPT !.pending = Front(walk.pending), !.dir = Last(walk.pending),
                                !.listed = 0]
    BY <1>1 DEF WalkOpen
  <2>2. Good(tree, walk, "pop")
    BY <2>1 DEF Counted
  <2>3. Good(tree, walk', "list")
    BY <1>0, <2>1, <2>2, GoodOpen
  <2> QED BY <1>0, <2>1, <2>3
<1>2. CASE WalkQueryFails(t)
  <2>1. /\ pc[t] = "list" /\ tree' = tree /\ pc' = [pc EXCEPT ![t] = "closing"]
        /\ walk' = [walk EXCEPT !.failed = TRUE]
    BY <1>2 DEF WalkQueryFails
  <2>2. Good(tree, walk, "list")
    BY <2>1 DEF Counted
  <2>3. Good(tree, walk', "closing")
    BY <2>1, <2>2, GoodFail
  <2> QED BY <1>0, <2>1, <2>3
<1>3. ASSUME NEW n \in 0 .. MaxPage, WalkAnswer(t, n)
      PROVE  pc[t] \in Walking /\ tree' = tree /\ pc' = [pc EXCEPT ![t] = pc'[t]]
             /\ pc'[t] \in Walking /\ Good(tree, walk', pc'[t])
  <2>1. pc[t] = "list" /\ tree' = tree /\ n \in Pages(tree[walk.dir], walk.listed)
    BY <1>3 DEF WalkAnswer
  <2>2. Good(tree, walk, "list")
    BY <2>1 DEF Counted
  <2>3. CASE n = 0
    <3>1. pc' = [pc EXCEPT ![t] = "closing"] /\ walk' = walk
      BY <1>3, <2>3 DEF WalkAnswer
    <3>2. walk.listed = Len(tree[walk.dir])
      BY <2>1, <2>3 DEF Pages
    <3>3. Good(tree, walk, "closing")
      BY <2>2, <3>2, GoodEnd
    <3> QED BY <1>0, <2>1, <3>1, <3>3
  <2>4. CASE n # 0
    <3>1. PICK s : s = Slice(tree[walk.dir], walk.listed, n)
      OBVIOUS
    <3>2. PICK buffer \in {Buffer(s)} \cup Damaged(Buffer(s)) :
            IF Decode(buffer).ok
              THEN /\ walk' = [walk EXCEPT
                        !.listed = walk.listed + n,
                        !.total = Accumulate(Decode(buffer).entries, walk.pending, walk.total).total,
                        !.pending =
                          Accumulate(Decode(buffer).entries, walk.pending, walk.total).pending]
                   /\ pc' = pc
              ELSE /\ walk' = [walk EXCEPT !.failed = TRUE]
                   /\ pc' = [pc EXCEPT ![t] = "closing"]
      BY <1>3, <2>4, <3>1 DEF WalkAnswer
    <3>3. CASE Decode(buffer).ok
      <4>1. n \in Nat /\ n > 0 /\ walk.listed + n <= Len(tree[walk.dir])
        BY <2>1, <2>4, DirectoryLimits DEF Pages
      <4>2. PICK d, r, D : d = walk.dir /\ r = walk.listed /\ D = DOMAIN tree
        OBVIOUS
      <4>3. tree[d] \in Seq(Entry(D)) /\ r \in Nat
        <5>1. d \in D /\ r \in 0 .. Len(tree[d])
          BY <2>2, <4>2 DEF Good, InDir
        <5>2. tree[d] \in Seq(Entry(D))
          BY <1>0, <4>2, <5>1, TreeFacts
        <5> QED BY <5>1, <5>2
      <4>4. s \in Seq(Entry(D)) /\ s # <<>>
        BY <3>1, <4>1, <4>2, <4>3, SliceFacts
      <4>5. Decode(buffer).entries = s
        BY <3>3, <4>4, PageDecoded
      <4>6. PICK sum : sum = Accumulate(s, walk.pending, walk.total)
        OBVIOUS
      <4>7. /\ walk' = [walk EXCEPT !.listed = walk.listed + n, !.total = sum.total,
                                    !.pending = sum.pending]
            /\ pc' = pc
        BY <3>2, <3>3, <4>5, <4>6
      <4>8. Good(tree, walk', "list")
        BY <1>0, <2>2, <3>1, <4>1, <4>6, <4>7, GoodPage
      <4> QED BY <1>0, <2>1, <4>7, <4>8
    <3>4. CASE ~Decode(buffer).ok
      <4>1. walk' = [walk EXCEPT !.failed = TRUE] /\ pc' = [pc EXCEPT ![t] = "closing"]
        BY <3>2, <3>4
      <4>2. Good(tree, walk', "closing")
        BY <2>2, <4>1, GoodFail
      <4> QED BY <1>0, <2>1, <4>1, <4>2
    <3> QED BY <3>3, <3>4
  <2> QED BY <2>3, <2>4
<1>4. CASE WalkClose(t) /\ ~walk.failed
  <2>1. /\ pc[t] = "closing" /\ tree' = tree /\ pc' = [pc EXCEPT ![t] = "pop"]
        /\ walk' = [walk EXCEPT !.dir = None]
    BY <1>4 DEF WalkClose
  <2>2. Good(tree, walk, "closing")
    BY <2>1 DEF Counted
  <2>3. Good(tree, walk', "pop")
    BY <1>0, <1>4, <2>1, <2>2, GoodClose
  <2> QED BY <1>0, <2>1, <2>3
<1> QED BY <1>1, <1>2, <1>3, <1>4

\* A thread asks for the handle, takes its lock, goes on with a walk, or returns.
Asks(t) == \E what \in {"page", "capacity", "size", "close"} : Lookup(t, what)

Moves(t) == Step(t) \/ Asks(t)

WalkGoesOn(t) ==
  \/ WalkOpen(t) \/ WalkQueryFails(t) \/ \E n \in 0 .. MaxPage : WalkAnswer(t, n)
  \/ WalkClose(t) /\ ~walk.failed

LEMMA StepKinds ==
  ASSUME Locking, NEW t \in Callers, Moves(t)
  PROVE  Asks(t) \/ Lock(t) \/ Returns(t) \/ WalkGoesOn(t)
<1>1. CASE Step(t) /\ Stays(t)
  <2> USE DEF Stays, Walking
  <2>1. pc[t] \in Walking /\ holder' = holder /\ holder = t
    BY <1>1 DEF Stays, Locking, Inside
  <2>2. holder' # None
    BY <2>1, DirectoryLimits
  <2>3. ~(\E v : Return(t, v))
    BY <2>2 DEF Return
  <2>4. ~WalkDone(t) /\ ~WalkOpenFails(t) /\ ~WalkCloseFails(t)
    BY <2>3 DEF WalkDone, WalkOpenFails, WalkCloseFails
  <2>5. WalkClose(t) => ~walk.failed
    BY <2>3 DEF WalkClose
  <2>6. pc[t] \notin {"lock", "page", "capacity", "close"}
    BY <2>1
  <2>7. ~Lock(t) /\ ~PageExhausted(t) /\ ~PageEnd(t) /\ ~PageFails(t)
        /\ ~CapacityFails(t) /\ ~CloseDirectory(t) /\ ~CloseFails(t)
    BY <2>6 DEF Lock, PageExhausted, PageEnd, PageFails, CapacityFails, CloseDirectory, CloseFails
  <2>8. \A n : ~PageAnswer(t, n)
    BY <2>6 DEF PageAnswer
  <2>9. \A u : ~Capacity(t, u, 2)
    BY <2>6 DEF Capacity
  <2> QED BY <1>1, <2>4, <2>5, <2>7, <2>8, <2>9 DEF Step, WalkGoesOn
<1> QED BY <1>1, StepMoves DEF Moves, Asks

LEMMA TreeStays ==
  ASSUME NEW t \in Callers, Moves(t)
  PROVE  tree' = tree
<1>1. ASSUME NEW what, Lookup(t, what) PROVE tree' = tree
  BY <1>1 DEF Lookup
<1>2. ASSUME NEW n, PageAnswer(t, n) \/ WalkAnswer(t, n) \/ Capacity(t, n, 2) PROVE tree' = tree
  BY <1>2 DEF PageAnswer, WalkAnswer, Capacity
<1>3. CASE Lock(t) \/ PageExhausted(t) \/ PageEnd(t) \/ PageFails(t)
           \/ CapacityFails(t) \/ CloseDirectory(t) \/ CloseFails(t)
  BY <1>3 DEF Lock, PageExhausted, PageEnd, PageFails, CapacityFails, CloseDirectory, CloseFails
<1>4. CASE WalkDone(t) \/ WalkOpen(t) \/ WalkOpenFails(t) \/ WalkQueryFails(t)
           \/ WalkClose(t) \/ WalkCloseFails(t)
  BY <1>4 DEF WalkDone, WalkOpen, WalkOpenFails, WalkQueryFails, WalkClose, WalkCloseFails
<1> QED BY <1>1, <1>2, <1>3, <1>4 DEF Moves, Asks, Step

LEMMA CountedKept ==
  ASSUME Locking, Scanned, Counted, NEW t \in Callers, Moves(t)
  PROVE  Counted'
<1>0. tree' = tree /\ pc \in [Callers -> Inside \cup {"idle", "lock"}] /\ IsTree(tree)
  BY TreeStays, TreeIs DEF Locking
<1>1. CASE Asks(t)
  <2>1. pc' = [pc EXCEPT ![t] = "lock"] /\ walk' = walk
    BY <1>1 DEF Asks, Lookup
  <2> QED BY <1>0, <2>1 DEF Counted, Walking
<1>2. CASE Lock(t)
  <2>1. \A u \in Callers : pc[u] \notin Inside
    BY <1>2, DirectoryLimits DEF Lock, Locking
  <2>2. PICK p : p = IF op[t] = "size" THEN "pop" ELSE op[t]
    OBVIOUS
  <2>3. pc' = [pc EXCEPT ![t] = p]
    BY <1>2, <2>2 DEF Lock
  <2>4. ASSUME NEW u \in Callers, pc'[u] \in Walking PROVE u = t /\ p \in Walking
    BY <1>0, <2>1, <2>3, <2>4 DEF Inside
  <2>5. CASE op[t] = "size"
    <3>1. p = "pop" /\ walk' = [NoWalk EXCEPT !.pending = <<Root>>]
      BY <1>2, <2>2, <2>5 DEF Lock
    <3>2. Good(tree, walk', "pop")
      BY <1>0, <3>1, GoodStart
    <3>3. pc'[t] = "pop"
      BY <1>0, <2>3, <3>1
    <3> QED BY <1>0, <2>4, <3>2, <3>3 DEF Counted
  <2>6. CASE op[t] # "size"
    <3>1. p \notin Walking
      BY <1>2, <2>2, <2>6 DEF Locking, Lock, Walking, None
    <3> QED BY <2>4, <3>1 DEF Counted
  <2> QED BY <2>5, <2>6
<1>3. CASE Returns(t)
  <2>1. \A u \in Callers : pc'[u] \notin Walking
    <3>1. pc' = [pc EXCEPT ![t] = "idle"] /\ pc[t] \in Inside
      BY <1>3 DEF Returns
    <3>2. ASSUME NEW u \in Callers, u # t PROVE pc[u] \notin Inside
      BY <3>1, <3>2, Alone
    <3> QED BY <1>0, <3>1, <3>2 DEF Walking, Inside
  <2> QED BY <2>1 DEF Counted
<1>4. CASE WalkGoesOn(t)
  <2>1. pc[t] \in Walking /\ pc' = [pc EXCEPT ![t] = pc'[t]] /\ Good(tree, walk', pc'[t])
    BY <1>4, WalkMoves DEF WalkGoesOn
  <2>2. ASSUME NEW u \in Callers, pc'[u] \in Walking PROVE u = t
    <3>1. CASE u # t
      <4>1. pc[u] \in Walking
        BY <1>0, <2>1, <2>2, <3>1
      <4> QED BY <2>1, <4>1, Alone DEF Inside
    <3> QED BY <3>1
  <2> QED BY <1>0, <2>1, <2>2 DEF Counted
<1> QED BY <1>1, <1>2, <1>3, <1>4, StepKinds

-----------------------------------------------------------------------------
\* While the session answers, the walk has its own directory open and no other.
LEMMA OpenedKept ==
  ASSUME Locking, Opened, NEW t \in Callers, Moves(t)
  PROVE  Opened'
<1>0. pc \in [Callers -> Inside \cup {"idle", "lock"}]
  BY DEF Locking
<1>1. stale => stale'
  <2>1. ASSUME NEW what, Lookup(t, what) PROVE stale' = stale
    BY <2>1 DEF Lookup
  <2>2. ASSUME NEW n, PageAnswer(t, n) \/ WalkAnswer(t, n) \/ Capacity(t, n, 2)
        PROVE  stale' = stale
    BY <2>2 DEF PageAnswer, WalkAnswer, Capacity
  <2>3. CASE Lock(t) \/ PageExhausted(t) \/ PageEnd(t) \/ CloseDirectory(t)
             \/ WalkDone(t) \/ WalkOpen(t) \/ WalkClose(t)
    BY <2>3 DEF Lock, PageExhausted, PageEnd, CloseDirectory, WalkDone, WalkOpen, WalkClose
  <2>4. CASE PageFails(t) \/ CapacityFails(t) \/ CloseFails(t) \/ WalkOpenFails(t)
             \/ WalkQueryFails(t) \/ WalkCloseFails(t)
    BY <2>4, StaleStays DEF PageFails, CapacityFails, CloseFails, WalkOpenFails, WalkQueryFails,
       WalkCloseFails
  <2> QED BY <2>1, <2>2, <2>3, <2>4 DEF Moves, Asks, Step
<1> SUFFICES ASSUME ~stale' PROVE Opened'
  BY DEF Opened
<1>2. /\ \A u \in Callers : pc[u] \in Listing => openDirs = {walk.dir}
      /\ openDirs = {} \/ \E u \in Callers : pc[u] \in Listing
  BY <1>1 DEF Opened
<1>3. ASSUME NEW u \in Callers, pc[u] \in Listing, pc[t] \in Inside PROVE u = t
  BY <1>3, Alone DEF Listing, Inside, Walking
<1>4. ASSUME openDirs' = openDirs, walk' = walk,
             \A u \in Callers : pc'[u] \in Listing <=> pc[u] \in Listing
      PROVE  Opened'
  BY <1>2, <1>4 DEF Opened
<1>5. ASSUME openDirs = {}, openDirs' = {}, \A u \in Callers : pc'[u] \notin Listing PROVE Opened'
  BY <1>5 DEF Opened
<1>6. ASSUME pc[t] \in {"page", "capacity", "close", "pop"}
      PROVE  openDirs = {} /\ \A u \in Callers : pc[u] \notin Listing
  <2>1. \A u \in Callers : pc[u] \notin Listing
    BY <1>3, <1>6 DEF Listing, Inside, Walking
  <2> QED BY <1>2, <2>1
<1>7. ASSUME pc[t] \in {"page", "capacity", "close", "pop"}, openDirs' = openDirs,
             pc' = [pc EXCEPT ![t] = "idle"]
      PROVE  Opened'
  <2>1. \A u \in Callers : pc'[u] \notin Listing
    BY <1>0, <1>6, <1>7 DEF Listing
  <2> QED BY <1>5, <1>6, <1>7, <2>1
<1>8. ASSUME NEW what, Lookup(t, what) PROVE Opened'
  <2>1. openDirs' = openDirs /\ walk' = walk /\ pc[t] = "idle" /\ pc' = [pc EXCEPT ![t] = "lock"]
    BY <1>8 DEF Lookup
  <2>2. \A u \in Callers : pc'[u] \in Listing <=> pc[u] \in Listing
    BY <1>0, <2>1 DEF Listing
  <2> QED BY <1>4, <2>1, <2>2
<1>9. CASE Lock(t)
  <2>1. \A u \in Callers : pc[u] \notin Inside
    BY <1>9, DirectoryLimits DEF Lock, Locking
  <2>2. openDirs = {}
    BY <1>2, <2>1 DEF Listing, Inside, Walking
  <2>3. PICK p : p = IF op[t] = "size" THEN "pop" ELSE op[t]
    OBVIOUS
  <2>4. pc' = [pc EXCEPT ![t] = p] /\ openDirs' = openDirs
    BY <1>9, <2>3 DEF Lock
  <2>5. p \notin Listing
    BY <2>3 DEF Listing, Locking, None
  <2>6. \A u \in Callers : pc'[u] \notin Listing
    BY <1>0, <2>1, <2>4, <2>5 DEF Listing, Inside, Walking
  <2> QED BY <1>5, <2>2, <2>4, <2>6
<1>10. CASE PageExhausted(t) \/ PageEnd(t) \/ PageFails(t) \/ CapacityFails(t)
            \/ CloseDirectory(t) \/ CloseFails(t)
  BY <1>7, <1>10 DEF PageExhausted, PageEnd, PageFails, CapacityFails, CloseDirectory, CloseFails,
     Return
<1>11. ASSUME NEW n, PageAnswer(t, n) PROVE Opened'
  <2>1. pc[t] = "page" /\ openDirs' = openDirs /\ pc' = [pc EXCEPT ![t] = "idle"]
    BY <1>11 DEF PageAnswer, Return
  <2> QED BY <1>7, <2>1
<1>12. ASSUME NEW n, Capacity(t, n, 2) PROVE Opened'
  BY <1>7, <1>12 DEF Capacity, Return
<1>13. CASE WalkDone(t)
  BY <1>7, <1>13 DEF WalkDone, Return
<1>14. CASE WalkOpen(t)
  <2>1. /\ pc[t] = "pop" /\ openDirs' = openDirs \cup {Last(walk.pending)}
        /\ pc' = [pc EXCEPT ![t] = "list"]
        /\ walk' = [walk EXCEPT !.pending = Front(walk.pending), !.dir = Last(walk.pending),
                                !.listed = 0]
    BY <1>14 DEF WalkOpen
  <2>2. walk'.dir = Last(walk.pending)
    BY <2>1
  <2>3. openDirs' = {walk'.dir}
    BY <1>6, <2>1, <2>2
  <2>4. pc'[t] \in Listing
    BY <1>0, <2>1 DEF Listing
  <2> QED BY <2>3, <2>4 DEF Opened
<1>15. CASE WalkOpenFails(t)
  <2>1. pc[t] = "pop" /\ openDirs' = openDirs /\ pc' = [pc EXCEPT ![t] = "idle"]
    BY <1>15 DEF WalkOpenFails, Return
  <2> QED BY <1>7, <2>1
<1>16. CASE WalkQueryFails(t)
  <2>1. /\ pc[t] = "list" /\ pc' = [pc EXCEPT ![t] = "closing"] /\ openDirs' = openDirs
        /\ walk' = [walk EXCEPT !.failed = TRUE]
    BY <1>16 DEF WalkQueryFails
  <2> QED BY <1>0, <1>2, <2>1 DEF Opened, Listing
<1>17. ASSUME NEW n \in 0 .. MaxPage, WalkAnswer(t, n) PROVE Opened'
  <2>1. pc[t] = "list" /\ openDirs' = openDirs
    BY <1>17 DEF WalkAnswer
  <2>2. pc' = pc \/ pc' = [pc EXCEPT ![t] = "closing"]
    BY <1>17 DEF WalkAnswer
  <2>3. walk'.dir = walk.dir
    <3>1. CASE n = 0
      BY <1>17, <3>1 DEF WalkAnswer
    <3>2. CASE n # 0
      <4>1. PICK buffer :
              IF Decode(buffer).ok
                THEN \E c, p, l : walk' = [walk EXCEPT !.listed = l, !.total = c, !.pending = p]
                ELSE walk' = [walk EXCEPT !.failed = TRUE]
        BY <1>17, <3>2 DEF WalkAnswer
      <4>2. CASE \E c, p, l : walk' = [walk EXCEPT !.listed = l, !.total = c, !.pending = p]
        BY <4>2
      <4>3. CASE walk' = [walk EXCEPT !.failed = TRUE]
        BY <4>3
      <4> QED BY <4>1, <4>2, <4>3
    <3> QED BY <3>1, <3>2
  <2>4. openDirs' = {walk'.dir}
    BY <1>2, <2>1, <2>3 DEF Listing
  <2>5. pc'[t] \in Listing
    BY <1>0, <2>1, <2>2 DEF Listing
  <2> QED BY <2>4, <2>5 DEF Opened
<1>18. CASE WalkClose(t)
  <2>1. pc[t] = "closing" /\ openDirs' = openDirs \ {walk.dir}
    BY <1>18 DEF WalkClose
  <2>2. openDirs' = {}
    BY <1>2, <2>1 DEF Listing
  <2>3. pc' = [pc EXCEPT ![t] = "idle"] \/ pc' = [pc EXCEPT ![t] = "pop"]
    BY <1>18 DEF WalkClose, Return
  <2>4. \A u \in Callers : pc'[u] \notin Listing
    BY <1>0, <1>3, <2>1, <2>3 DEF Listing, Inside, Walking
  <2> QED BY <2>2, <2>4 DEF Opened
<1>19. CASE WalkCloseFails(t)
  <2>1. pc[t] = "closing" /\ openDirs' = openDirs \ {walk.dir} /\ pc' = [pc EXCEPT ![t] = "idle"]
    BY <1>19 DEF WalkCloseFails, Return
  <2>2. openDirs' = {}
    BY <1>2, <2>1 DEF Listing
  <2>3. \A u \in Callers : pc'[u] \notin Listing
    BY <1>0, <1>3, <2>1 DEF Listing, Inside, Walking
  <2> QED BY <2>2, <2>3 DEF Opened
<1> QED BY <1>8, <1>9, <1>10, <1>11, <1>12, <1>13, <1>14, <1>15, <1>16, <1>17, <1>18, <1>19
        DEF Moves, Asks, Step

\* A value that may be returned: a size is the size.
Honours(t, v) ==
  result' = [result EXCEPT ![t] = v] /\ (op[t] = "size" /\ v.ok => v.value = Goal(tree))

LEMMA ReturnedSize ==
  ASSUME Locking, Counted, NEW t \in Callers, Step(t), Returns(t)
  PROVE  \E v : Honours(t, v)
<1>1. ASSUME NEW v, Return(t, v), pc[t] \in {"page", "capacity", "close"} PROVE Honours(t, v)
  BY <1>1 DEF Return, Honours, Locking
<1>2. ASSUME Return(t, Failed) PROVE Honours(t, Failed)
  BY <1>2 DEF Return, Honours, Failed
<1>3. holder' = None /\ holder = t /\ t # None
  BY DirectoryLimits DEF Returns, Locking
<1>4. CASE PageExhausted(t) \/ PageEnd(t) \/ PageFails(t) \/ CapacityFails(t)
           \/ CloseDirectory(t) \/ CloseFails(t)
  BY <1>1, <1>4 DEF PageExhausted, PageEnd, PageFails, CapacityFails, CloseDirectory, CloseFails
<1>5. ASSUME NEW n, PageAnswer(t, n) PROVE \E v : Honours(t, v)
  BY <1>1, <1>5 DEF PageAnswer
<1>6. ASSUME NEW n, Capacity(t, n, 2) PROVE \E v : Honours(t, v)
  BY <1>1, <1>6 DEF Capacity
<1>7. CASE WalkDone(t)
  <2>1. pc[t] = "pop" /\ walk.pending = <<>> /\ Return(t, Ok(walk.total))
    BY <1>7 DEF WalkDone
  <2>2. Good(tree, walk, "pop")
    BY <2>1 DEF Counted, Walking
  <2>3. walk.total = Goal(tree)
    BY <2>1, <2>2, GoodDone
  <2>4. Honours(t, Ok(walk.total))
    BY <2>1, <2>3 DEF Honours, Return, Ok
  <2> QED BY <2>4
<1>8. CASE WalkOpenFails(t) \/ WalkCloseFails(t)
  BY <1>2, <1>8 DEF WalkOpenFails, WalkCloseFails
<1>9. CASE WalkClose(t)
  <2>1. CASE walk.failed
    BY <1>2, <1>9, <2>1 DEF WalkClose
  <2>2. CASE ~walk.failed
    BY <1>3, <1>9, <2>2 DEF WalkClose
  <2> QED BY <2>1, <2>2
<1>10. ~Lock(t) /\ ~WalkOpen(t) /\ ~WalkQueryFails(t)
  BY <1>3 DEF Lock, WalkOpen, WalkQueryFails
<1>11. \A n : ~WalkAnswer(t, n)
  BY <1>3 DEF WalkAnswer
<1> QED BY <1>4, <1>5, <1>6, <1>7, <1>8, <1>9, <1>10, <1>11 DEF Step

LEMMA SizedKept ==
  ASSUME Locking, Scanned, Counted, Sized, NEW t \in Callers, Moves(t)
  PROVE  Sized'
<1>0. /\ tree' = tree /\ pc \in [Callers -> Inside \cup {"idle", "lock"}]
      /\ result = [u \in Callers |-> result[u]]
      /\ op \in [Callers -> {"page", "capacity", "size", "close", None}]
  BY TreeStays DEF Locking, Sized
<1>1. CASE Asks(t)
  <2>1. PICK what : pc' = [pc EXCEPT ![t] = "lock"] /\ op' = [op EXCEPT ![t] = what]
                    /\ result' = result
    BY <1>1 DEF Asks, Lookup
  <2> QED BY <1>0, <2>1 DEF Sized
<1>2. CASE Lock(t)
  <2>1. PICK p : p = IF op[t] = "size" THEN "pop" ELSE op[t]
    OBVIOUS
  <2>2. pc' = [pc EXCEPT ![t] = p] /\ op' = op /\ result' = result
    BY <1>2, <2>1 DEF Lock
  <2>3. p # "idle"
    BY <2>1, <1>0 DEF None
  <2> QED BY <1>0, <2>2, <2>3 DEF Sized
<1>3. CASE Returns(t)
  <2>1. Step(t)
    <3>1. ~Asks(t)
      BY <1>3 DEF Asks, Lookup, Returns, Inside, Walking
    <3> QED BY <3>1 DEF Moves, Asks
  <2>2. PICK v : Honours(t, v)
    BY <1>3, <2>1, ReturnedSize
  <2>3. op' = op /\ pc' = [pc EXCEPT ![t] = "idle"]
    BY <1>3 DEF Returns
  <2>4. result' = [result EXCEPT ![t] = v]
    BY <2>2 DEF Honours
  <2>5. result' = [u \in Callers |-> result'[u]] /\ result'[t] = v
        /\ \A u \in Callers \ {t} : result'[u] = result[u]
    BY <1>0, <2>4
  <2>6. ASSUME NEW u \in Callers, op[u] = "size", pc'[u] = "idle", result'[u].ok
        PROVE  result'[u].value = Goal(tree)
    <3>1. CASE u = t
      BY <2>2, <2>5, <2>6, <3>1 DEF Honours
    <3>2. CASE u # t
      <4>1. pc[u] = "idle" /\ result'[u] = result[u]
        BY <1>0, <2>3, <2>5, <2>6, <3>2
      <4> QED BY <2>6, <4>1 DEF Sized
    <3> QED BY <3>1, <3>2
  <2> QED BY <1>0, <2>3, <2>5, <2>6 DEF Sized
<1>4. CASE WalkGoesOn(t)
  <2>1. pc' = [pc EXCEPT ![t] = pc'[t]] /\ pc'[t] \in Walking
    BY <1>4, WalkMoves DEF WalkGoesOn
  <2>2. op' = op /\ result' = result
    <3>1. ASSUME NEW n, WalkAnswer(t, n) PROVE op' = op /\ result' = result
      BY <3>1 DEF WalkAnswer
    <3> QED BY <1>4, <3>1 DEF WalkGoesOn, WalkOpen, WalkQueryFails, WalkClose
  <2>3. \A u \in Callers : pc'[u] = "idle" => pc[u] = "idle"
    BY <1>0, <2>1 DEF Walking
  <2> QED BY <1>0, <2>2, <2>3 DEF Sized
<1> QED BY <1>1, <1>2, <1>3, <1>4, StepKinds

-----------------------------------------------------------------------------
LEMMA DirectoryStays ==
  DirectoryInv /\ UNCHANGED directoryVars => DirectoryInv'
BY DEF DirectoryInv, Locking, Scanned, Counted, Opened, Sized, directoryVars

(***************************************************************************)
(* The inductive invariant of a directory handle: who is inside, what the  *)
(* server has handed out, what the walk has counted, what it has open and  *)
(* what it returned.                                                       *)
(***************************************************************************)
THEOREM DirectoryInvariant == DirectorySpec => []DirectoryInv
<1>1. DirectoryInv /\ [DirectoryNext]_directoryVars => DirectoryInv'
  <2> SUFFICES ASSUME DirectoryInv, [DirectoryNext]_directoryVars PROVE DirectoryInv'
    OBVIOUS
  <2>1. CASE UNCHANGED directoryVars
    BY <2>1, DirectoryStays
  <2>2. CASE DirectoryNext
    <3>1. PICK t \in Callers : Moves(t)
      BY <2>2 DEF DirectoryNext, Moves, Asks
    <3>2. Locking' /\ Scanned'
      BY <3>1, LockingKept, ScannedKept DEF DirectoryInv, Moves, Asks
    <3>3. Counted' /\ Opened' /\ Sized'
      BY <3>1, CountedKept, OpenedKept, SizedKept DEF DirectoryInv
    <3> QED BY <3>2, <3>3 DEF DirectoryInv
  <2> QED BY <2>1, <2>2
<1> QED BY <1>1, DirectoryStarts, PTL DEF DirectorySpec

(***************************************************************************)
(* The pages that any number of threads get of a directory of any length   *)
(* are its listing from the start, none skipped or repeated unless a page  *)
(* was refused, and the empty page means the end (read_directory_page).    *)
(***************************************************************************)
THEOREM DirectoryPages == DirectorySpec => []PagesContiguous
<1>1. DirectoryInv => PagesContiguous
  <2> SUFFICES ASSUME DirectoryInv, ~lost
               PROVE  /\ IsPrefix(pages, tree[Root])
                      /\ exhausted => pages = tree[Root]
                      /\ ~stale => Len(pages) = scan.returned
    BY DEF PagesContiguous
  <2>1. /\ Len(pages) <= Len(tree[Root]) /\ pages = SubSeq(tree[Root], 1, Len(pages))
        /\ exhausted => Len(pages) = Len(tree[Root])
        /\ ~stale => Len(pages) = scan.returned
        /\ pages \in Seq(Entry(DOMAIN tree)) /\ tree \in Trees
    BY DEF DirectoryInv, Scanned
  <2>2. tree[Root] \in Seq(Entry(DOMAIN tree))
    BY <2>1, RootType, ListingType
  <2>3. SubSeq(pages, 1, Len(pages)) = pages
        /\ SubSeq(tree[Root], 1, Len(tree[Root])) = tree[Root]
    BY <2>1, <2>2
  <2>4. IsPrefix(pages, tree[Root])
    BY <2>1, <2>3 DEF IsPrefix
  <2> QED BY <2>1, <2>3, <2>4
<1> QED BY <1>1, DirectoryInvariant, PTL

(***************************************************************************)
(* A size that is returned counts every file of the tree once, for every   *)
(* tree and every cut of its listings into pages, or is i64::MAX where the *)
(* sum is larger; and the walk leaves no directory open while the session  *)
(* answers (directory_size).                                               *)
(***************************************************************************)
THEOREM DirectorySizes == DirectorySpec => []SizeExact
<1>1. DirectoryInv => SizeExact
  <2> SUFFICES ASSUME DirectoryInv PROVE SizeExact
    OBVIOUS
  <2>1. ASSUME openDirs # {}, ~stale
        PROVE  \E t \in Callers : holder = t /\ openDirs = {walk.dir}
    <3>1. PICK t \in Callers : pc[t] \in Listing
      BY <2>1 DEF DirectoryInv, Opened
    <3>2. openDirs = {walk.dir}
      BY <2>1, <3>1 DEF DirectoryInv, Opened
    <3>3. holder = t
      BY <3>1 DEF DirectoryInv, Locking, Listing, Inside, Walking
    <3> QED BY <3>2, <3>3
  <2> QED BY <2>1 DEF DirectoryInv, Sized, Goal, SizeExact
<1> QED BY <1>1, DirectoryInvariant, PTL

=============================================================================
