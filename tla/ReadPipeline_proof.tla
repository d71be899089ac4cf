------------------------- MODULE ReadPipeline_proof -------------------------
(***************************************************************************)
(* The safety of pipelined reads, for every file, chunk, window and        *)
(* in-flight limit and any number of calls.                                *)
(***************************************************************************)
EXTENDS ReadPipeline, FiniteSetTheorems, TLAPS

-----------------------------------------------------------------------------
(* The inductive invariant, in named parts.                                *)

\* Each pending read owns one empty slot, is still owed by the server, and the
\* server was asked for the very range of that slot; two reads never share one.
Correlated ==
  /\ \A m \in DOMAIN outstanding :
       /\ completed[outstanding[m].position].got = NotYet
       /\ completed[outstanding[m].position].len = outstanding[m].len
       /\ m \in DOMAIN server
       /\ server[m].off = completed[outstanding[m].position].off
       /\ server[m].len = outstanding[m].len
       /\ server[m].async = outstanding[m].async
  /\ \A m, n \in DOMAIN outstanding :
       outstanding[m].position = outstanding[n].position => m = n

\* While a call runs, its empty slots are exactly the pending ones, and what
\* the server owes this call is exactly what the call waits for.
Owed ==
  /\ \A m \in DOMAIN server : server[m].call <= calls
  /\ ~faulty => \A m \in DOMAIN server :
       m \in DOMAIN outstanding /\ server[m].async \in {0, AssignedAsyncId}
  /\ phase = "reading" =>
       /\ \A i \in 1 .. Len(completed) : completed[i].got = NotYet =>
            \E m \in DOMAIN outstanding : outstanding[m].position = i
       /\ \A m \in DOMAIN server :
            server[m].call = calls => m \in DOMAIN outstanding

\* The slots tile the scheduled part of the target from its start.
Planned ==
  /\ \A i \in 1 .. Len(completed) :
       /\ completed[i].off = IF i = 1 THEN call.offset
                             ELSE completed[i - 1].off + completed[i - 1].len
       /\ completed[i].off + completed[i].len <= call.offset + scheduled
       /\ completed[i].got <= completed[i].len
  /\ IF Len(completed) = 0 THEN scheduled = 0
     ELSE LET last == completed[Len(completed)]
          IN  last.off + last.len = call.offset + scheduled
  /\ scheduled <= call.target
  /\ phase = "reading" => call.target > 0

\* Before the first short slot every answered slot is full.
Cut ==
  ~failed => \A i \in 1 .. Len(completed) :
    completed[i].got # NotYet /\ completed[i].got < completed[i].len =>
      short # NoPosition /\ short <= i

\* What is known of the call that has just returned.
Returned ==
  /\ phase = "reading" => result = "none"
  /\ phase = "idle" => DOMAIN outstanding = {}
  /\ phase = "idle" /\ result = "ok" =>
       /\ ~failed
       /\ \A i \in 1 .. Len(completed) : completed[i].got # NotYet
       /\ short # NoPosition \/ scheduled = call.target

IInv ==
  /\ TypeOK
  /\ CreditsConserved
  /\ Correlated
  /\ Owed
  /\ Planned
  /\ Cut
  /\ Returned
  /\ Drained
  /\ HealthyCalls
-----------------------------------------------------------------------------
(* Arithmetic of the chunk and its charge.                                 *)

\* Below c multiples of b there are fewer than c whole ones.
LEMMA DivBound ==
  ASSUME NEW a \in Nat, NEW b \in Nat \ {0}, NEW c \in Nat, a < c * b
  PROVE  a \div b \in Nat /\ a \div b < c
<1>1. a \div b \in Nat /\ b * (a \div b) <= a
  OBVIOUS
<1> DEFINE q == a \div b
<1>2. SUFFICES ASSUME q >= c PROVE FALSE
  BY <1>1
<1> HIDE DEF q
<1>3. q \in Nat /\ b * q <= a
  BY <1>1 DEF q
<1>4. PICK d \in Nat : q = c + d
  <2>1. q - c \in Nat /\ q = c + (q - c)
    BY <1>2, <1>3
  <2> QED BY <2>1
<1>5. b * q = c * b + b * d
  BY <1>4
<1>6. b * d \in Nat
  BY <1>4
<1> QED BY <1>3, <1>5, <1>6

\* A chunk is not empty, stays within the target, and its charge can be paid.
LEMMA ChunkAffordable ==
  ASSUME TypeOK, Planned, CanSchedule
  PROVE  /\ ChunkLen \in Nat \ {0}
         /\ scheduled + ChunkLen <= call.target
         /\ LogicalCharge(ReadCreditCharge(ChunkLen)) \in Nat \ {0}
         /\ LogicalCharge(ReadCreditCharge(ChunkLen)) <= available
<1> USE ReadLimits
<1> DEFINE pay == CreditLimitedPayload(available)
<1>1. available \in Nat \ {0} /\ call.target \in Nat /\ scheduled \in Nat
      /\ scheduled < call.target
  BY DEF TypeOK, CreditTypes, CallTypes, CanSchedule
<1>2. pay \in Nat \ {0} /\ (Multi => pay = available * Unit)
  <2>1. available * Unit \in Nat \ {0}
    BY <1>1
  <2> QED BY <1>1, <2>1 DEF CreditLimitedPayload
<1>3. ChunkLimit \in Nat \ {0}
  BY DEF ChunkLimit, Least
<1> HIDE DEF pay
<1>4. ChunkLen = Least(call.target - scheduled, Least(ChunkLimit, pay))
  BY DEF ChunkLen, pay
<1>5. ChunkLen \in Nat \ {0} /\ ChunkLen <= pay /\ scheduled + ChunkLen <= call.target
  BY <1>1, <1>2, <1>3, <1>4 DEF Least
<1>6. CASE Multi
  <2>1. ChunkLen - 1 \in Nat /\ ChunkLen - 1 < available * Unit
    BY <1>2, <1>5, <1>6, <1>1
  <2>2. (ChunkLen - 1) \div Unit \in Nat /\ (ChunkLen - 1) \div Unit < available
    BY <2>1, <1>1, DivBound
  <2> QED BY <1>1, <1>5, <1>6, <2>2 DEF LogicalCharge, ReadCreditCharge, CeilUnits
<1>7. CASE ~Multi
  BY <1>1, <1>5, <1>7 DEF LogicalCharge, ReadCreditCharge
<1> QED BY <1>6, <1>7

-----------------------------------------------------------------------------
(* Each action preserves the invariant.                                    *)

\* The empty table and the empty vector, both written << >>.
LEMMA EmptyTable ==
  ASSUME NEW S
  PROVE  DOMAIN << >> = {} /\ << >> \in Seq(S) /\ Len(<< >>) = 0
  OBVIOUS

\* The ids allocated so far only ever become more.
LEMMA IdsGrow ==
  ASSUME NEW a \in Nat, NEW b \in Nat, NEW c \in Nat, c >= b
  PROVE  a .. b - 1 \subseteq a .. c - 1
  OBVIOUS

\* The shape of a scheduled slot.
LEMMA SlotTypes ==
  ASSUME NEW slots \in Seq(Slot), NEW i \in 1 .. Len(slots)
  PROVE  slots[i].off \in Nat /\ slots[i].len \in Nat /\ slots[i].got \in Nat \cup {NotYet}
<1>1. slots[i] \in Slot
  OBVIOUS
<1> QED BY <1>1 DEF Slot

\* The invariant holds initially.
LEMMA InitInv == Init => IInv
<1> SUFFICES ASSUME Init PROVE IInv
  OBVIOUS
<1> USE DEF Init
<1>0. DOMAIN outstanding = {} /\ DOMAIN server = {} /\ Len(completed) = 0
  BY EmptyTable
<1>1. TypeOK
  <2>0. InitialCredits \in 0 .. MaxAvailable /\ FirstId \in Nat /\ MaxMessageId \in Nat
        /\ MaxAvailable \in Nat /\ FirstId <= MaxMessageId
    BY ReadLimits
  <2>1. CreditTypes
    BY <2>0 DEF CreditTypes
  <2>4. FlagTypes
    BY DEF FlagTypes
  <2>3. CallTypes
    BY DEF CallTypes, Modes
  <2>2. TableTypes /\ ServerTypes
    BY <1>0, EmptyTable DEF TableTypes, ServerTypes, NoPosition
  <2> QED BY <2>1, <2>2, <2>3, <2>4 DEF TypeOK
<1>2. CreditsConserved /\ Correlated /\ Owed /\ Planned /\ Cut /\ Returned
  BY <1>0, ReadLimits
     DEF CreditsConserved, Correlated, Owed, Planned, Cut, Returned
<1>3. Drained /\ HealthyCalls
  BY DEF Drained, HealthyCalls
<1> QED BY <1>1, <1>2, <1>3 DEF IInv

\* A new call starts with nothing scheduled.
LEMMA StartInv ==
  ASSUME IInv, NEW mode \in Modes, NEW offset \in Nat, NEW length \in Nat,
         StartRead(mode, offset, length)
  PROVE  IInv'
<1> DEFINE target == IF offset >= FileLen THEN 0 ELSE Least(length, FileLen - offset)
<1> USE DEF StartRead, credit
<1>0. target \in Nat
  BY ReadLimits DEF Least
<1>1. DOMAIN outstanding' = {} /\ Len(completed') = 0
  BY EmptyTable
<1>2. TypeOK'
  <2>1. CreditTypes' /\ CallTypes'
    BY <1>0 DEF IInv, TypeOK, CreditTypes, CallTypes
  <2>2. TableTypes'
    BY <1>1, EmptyTable DEF TableTypes, NoPosition
  <2>3. ServerTypes' /\ FlagTypes'
    BY DEF IInv, TypeOK, ServerTypes, FlagTypes
  <2> QED BY <2>1, <2>2, <2>3 DEF TypeOK
<1>3. CreditsConserved' /\ HealthyCalls'
  BY DEF IInv, CreditsConserved, HealthyCalls
<1>4. Correlated' /\ Cut'
  BY <1>1 DEF Correlated, Cut
<1>5. Owed' /\ Drained'
  <2>1. DOMAIN outstanding = {}
    BY DEF IInv, Returned
  <2>2. \A m \in DOMAIN server : server[m].call \in Nat /\ server[m].call <= calls
    BY DEF IInv, TypeOK, ServerTypes, ServerRead, Owed
  <2>3. calls \in Nat
    BY DEF IInv, TypeOK, CallTypes
  <2> QED BY <1>1, <2>1, <2>2, <2>3 DEF IInv, Owed, Drained
<1>6. Planned' /\ Returned'
  BY <1>0, <1>1 DEF Planned, Returned
<1> QED BY <1>2, <1>3, <1>4, <1>5, <1>6 DEF IInv

\* Scheduling a chunk: the slots still tile the range.
LEMMA SendInv ==
  ASSUME IInv, SendRead
  PROVE  IInv'
<1> DEFINE len == ChunkLen
           off == call.offset + scheduled
           width == LogicalCharge(ReadCreditCharge(len))
           slot == [off |-> off, len |-> len, got |-> NotYet]
           last == Len(completed) + 1
<1>1. /\ len \in Nat \ {0} /\ scheduled + len <= call.target
      /\ width \in Nat \ {0} /\ width <= available
  BY ChunkAffordable DEF IInv, SendRead
<1>2. /\ available \in Nat /\ next \in Nat /\ next >= FirstId /\ window \in Nat
      /\ calls \in Nat /\ scheduled \in Nat /\ call.offset \in Nat /\ call.target \in Nat
      /\ completed \in Seq(Slot) /\ phase = "reading"
  BY ReadLimits DEF IInv, TypeOK, CreditTypes, CallTypes, TableTypes, SendRead
<1> HIDE DEF len, width
<1>3. /\ available' = available - width /\ next' = next + width /\ window' = window
      /\ next + width <= MaxMessageId
  BY DEF SendRead, ReserveAndAllocate, len, width
<1>4. /\ completed' = Append(completed, slot)
      /\ outstanding' = [m \in DOMAIN outstanding \cup {next} |->
           IF m = next THEN [position |-> last, len |-> len, async |-> 0]
                       ELSE outstanding[m]]
      /\ server' = [m \in DOMAIN server \cup {next} |->
           IF m = next THEN [call |-> calls, off |-> off, len |-> len, async |-> 0]
                       ELSE server[m]]
      /\ scheduled' = scheduled + len
      /\ UNCHANGED <<phase, call, short, failed, result, calls, faulty>>
  BY DEF SendRead, len
<1>5. slot \in Slot
  BY <1>1, <1>2 DEF Slot, NotYet
<1>6. /\ completed' \in Seq(Slot) /\ Len(completed') = last /\ completed'[last] = slot
      /\ \A i \in 1 .. Len(completed) : completed'[i] = completed[i]
      /\ Len(completed) \in Nat
  BY <1>2, <1>4, <1>5
<1>7. next \notin DOMAIN outstanding /\ next \notin DOMAIN server
  BY <1>2, ReadLimits DEF IInv, TypeOK, TableTypes, ServerTypes
<1>8. /\ DOMAIN outstanding' = DOMAIN outstanding \cup {next}
      /\ outstanding'[next] = [position |-> last, len |-> len, async |-> 0]
      /\ \A m \in DOMAIN outstanding : outstanding'[m] = outstanding[m]
      /\ DOMAIN server' = DOMAIN server \cup {next}
      /\ server'[next] = [call |-> calls, off |-> off, len |-> len, async |-> 0]
      /\ \A m \in DOMAIN server : server'[m] = server[m]
  BY <1>4, <1>7
<1>9. \A m \in DOMAIN outstanding : outstanding[m].position \in 1 .. Len(completed)
  BY DEF IInv, TypeOK, TableTypes, PendingRead
<1> HIDE DEF slot, last, off
<1>10. TypeOK'
  <2>1. CreditTypes' /\ CallTypes'
    BY <1>1, <1>2, <1>3, <1>4, ReadLimits DEF IInv, TypeOK, CreditTypes, CallTypes
  <2>2. short' \in 0 .. Len(completed')
    <3>1. short \in 0 .. Len(completed)
      BY DEF IInv, TypeOK, TableTypes
    <3>2. short' = short
      BY <1>4
    <3> QED BY <1>6, <3>1, <3>2 DEF last
  <2>3. DOMAIN outstanding' \subseteq FirstId .. next' - 1
    BY <1>1, <1>2, <1>3, <1>8, ReadLimits DEF IInv, TypeOK, TableTypes
  <2>4. \A m \in DOMAIN outstanding' : outstanding'[m] \in PendingRead'
    <3>1. outstanding'[next] \in PendingRead'
      BY <1>1, <1>6, <1>8 DEF PendingRead, AsyncIds, last
    <3>2. \A m \in DOMAIN outstanding : outstanding[m] \in PendingRead'
      BY <1>6 DEF IInv, TypeOK, TableTypes, PendingRead, last
    <3> QED BY <1>8, <3>1, <3>2
  <2>5. ServerTypes'
    <3>1. server'[next] \in ServerRead
      BY <1>1, <1>2, <1>8 DEF ServerRead, AsyncIds, off
    <3>2. DOMAIN server' \subseteq FirstId .. next' - 1
      BY <1>1, <1>2, <1>3, <1>8, ReadLimits DEF IInv, TypeOK, ServerTypes
    <3> QED BY <1>8, <3>1, <3>2 DEF IInv, TypeOK, ServerTypes, ServerRead
  <2>6. FlagTypes'
    BY <1>4 DEF IInv, TypeOK, FlagTypes
  <2> QED BY <1>6, <2>1, <2>2, <2>3, <2>4, <2>5, <2>6 DEF TypeOK, TableTypes
<1>11. CreditsConserved'
  BY <1>1, <1>2, <1>3, <1>4 DEF IInv, CreditsConserved
<1>12. Correlated'
  <2>1. \A m \in DOMAIN outstanding' :
          /\ completed'[outstanding'[m].position].got = NotYet
          /\ completed'[outstanding'[m].position].len = outstanding'[m].len
          /\ m \in DOMAIN server'
          /\ server'[m].off = completed'[outstanding'[m].position].off
          /\ server'[m].len = outstanding'[m].len
          /\ server'[m].async = outstanding'[m].async
    <3> SUFFICES ASSUME NEW m \in DOMAIN outstanding'
                 PROVE  /\ completed'[outstanding'[m].position].got = NotYet
                        /\ completed'[outstanding'[m].position].len = outstanding'[m].len
                        /\ m \in DOMAIN server'
                        /\ server'[m].off = completed'[outstanding'[m].position].off
                        /\ server'[m].len = outstanding'[m].len
                        /\ server'[m].async = outstanding'[m].async
      OBVIOUS
    <3>1. CASE m = next
      BY <1>6, <1>8, <3>1 DEF slot
    <3>2. CASE m \in DOMAIN outstanding
      BY <1>6, <1>8, <1>9, <3>2 DEF IInv, Correlated
    <3> QED BY <1>8, <3>1, <3>2
  <2>2. \A m, n \in DOMAIN outstanding' :
          outstanding'[m].position = outstanding'[n].position => m = n
    BY <1>6, <1>8, <1>9 DEF IInv, Correlated, last
  <2> QED BY <2>1, <2>2 DEF Correlated
<1>13. Owed'
  <2>1. \A m \in DOMAIN server' : server'[m].call <= calls'
    BY <1>2, <1>4, <1>8 DEF IInv, Owed
  <2>2. ~faulty' => \A m \in DOMAIN server' :
          m \in DOMAIN outstanding' /\ server'[m].async \in {0, AssignedAsyncId}
    BY <1>4, <1>8 DEF IInv, Owed
  <2>3. ASSUME NEW i \in 1 .. Len(completed'), completed'[i].got = NotYet
        PROVE  \E m \in DOMAIN outstanding' : outstanding'[m].position = i
    <3>1. CASE i = last
      BY <1>8, <3>1
    <3>2. CASE i \in 1 .. Len(completed)
      <4>1. PICK m \in DOMAIN outstanding : outstanding[m].position = i
        BY <1>2, <1>6, <2>3, <3>2 DEF IInv, Owed
      <4> QED BY <1>8, <4>1
    <3> QED BY <1>6, <3>1, <3>2 DEF last
  <2>4. \A m \in DOMAIN server' : server'[m].call = calls' => m \in DOMAIN outstanding'
    BY <1>2, <1>4, <1>8 DEF IInv, Owed
  <2> QED BY <2>1, <2>2, <2>3, <2>4 DEF Owed
<1>14. Planned'
  <2>1. /\ completed'[last].off = call.offset + scheduled
        /\ completed'[last].len = len /\ completed'[last].got = NotYet
    BY <1>6 DEF slot, off
  <2>2. \A i \in 1 .. Len(completed) :
          completed[i].off \in Nat /\ completed[i].len \in Nat
    BY <1>2, SlotTypes
  <2>3. ASSUME NEW i \in 1 .. Len(completed')
        PROVE  /\ completed'[i].off = IF i = 1 THEN call.offset
                                      ELSE completed'[i - 1].off + completed'[i - 1].len
               /\ completed'[i].off + completed'[i].len <= call.offset + scheduled'
               /\ completed'[i].got <= completed'[i].len
    <3>1. CASE i = last
      <4>1. completed'[i].got <= completed'[i].len
        BY <1>1, <2>1, <3>1 DEF NotYet
      <4>2. completed'[i].off + completed'[i].len <= call.offset + scheduled'
        BY <1>1, <1>2, <1>4, <2>1, <3>1
      <4>3. CASE Len(completed) = 0
        BY <1>1, <1>2, <2>1, <3>1, <4>1, <4>2, <4>3 DEF IInv, Planned, last
      <4>4. CASE Len(completed) # 0
        <5>1. i # 1 /\ i - 1 = Len(completed) /\ i - 1 \in 1 .. Len(completed)
          BY <1>6, <3>1, <4>4 DEF last
        <5>2. completed'[i - 1] = completed[Len(completed)]
          BY <1>6, <5>1
        <5>3. completed[Len(completed)].off + completed[Len(completed)].len
                = call.offset + scheduled
          BY <4>4 DEF IInv, Planned
        <5> QED BY <2>1, <3>1, <4>1, <4>2, <5>1, <5>2, <5>3
      <4> QED BY <4>3, <4>4
    <3>2. CASE i \in 1 .. Len(completed)
      <4>1. completed'[i] = completed[i]
        BY <1>6, <3>2
      <4>2. i # 1 => i - 1 \in 1 .. Len(completed) /\ completed'[i - 1] = completed[i - 1]
        BY <1>6, <3>2
      <4>3. completed[i].off + completed[i].len <= call.offset + scheduled
        BY <3>2 DEF IInv, Planned
      <4>4. completed[i].off + completed[i].len <= call.offset + scheduled'
        <5>1. completed[i].off \in Nat /\ completed[i].len \in Nat
          BY <2>2, <3>2
        <5>2. /\ scheduled' = scheduled + len /\ len \in Nat
              /\ scheduled \in Nat /\ call.offset \in Nat
          BY <1>1, <1>2, <1>4
        <5> QED BY <4>3, <5>1, <5>2
      <4> QED BY <3>2, <4>1, <4>2, <4>4 DEF IInv, Planned
    <3> QED BY <1>6, <3>1, <3>2 DEF last
  <2>4. Len(completed') # 0 /\ completed'[Len(completed')] = slot
    BY <1>6 DEF last
  <2>5. completed'[Len(completed')].off + completed'[Len(completed')].len
          = call.offset + scheduled'
    BY <1>1, <1>2, <1>4, <1>6, <2>1, <2>4
  <2>6. scheduled' <= call.target /\ (phase' = "reading" => call.target > 0)
    BY <1>1, <1>2, <1>4 DEF IInv, Planned
  <2>7. call' = call
    BY <1>4
  <2> QED BY <1>6, <2>3, <2>4, <2>5, <2>6, <2>7 DEF Planned
<1>15. Cut'
  BY <1>4, <1>6 DEF IInv, Cut, slot, last
<1>16. Returned' /\ Drained' /\ HealthyCalls'
  BY <1>2, <1>4 DEF IInv, Returned, Drained, HealthyCalls
<1> QED BY <1>10, <1>11, <1>12, <1>13, <1>14, <1>15, <1>16 DEF IInv

\* Returning with a fault: the tables are dropped, the rest of the invariant
\* asks only that the fault is remembered.
LEMMA FaultReturn ==
  ASSUME IInv, Return("fault"), CreditTypes', CreditsConserved', ServerTypes',
         next' >= next, faulty', faulty' \in BOOLEAN,
         \A m \in DOMAIN server' : server'[m].call <= calls
  PROVE  IInv'
<1> USE DEF Return
<1>1. DOMAIN outstanding' = {}
  BY EmptyTable
<1>2. TypeOK'
  <2>1. CallTypes'
    BY DEF IInv, TypeOK, CallTypes
  <2>2. TableTypes'
    BY <1>1 DEF IInv, TypeOK, TableTypes
  <2>3. FlagTypes'
    BY DEF IInv, TypeOK, FlagTypes
  <2> QED BY <2>1, <2>2, <2>3 DEF TypeOK
<1>3. Correlated' /\ Owed'
  BY <1>1 DEF Correlated, Owed
<1>4. Planned' /\ Cut'
  BY DEF IInv, Planned, Cut
<1>5. Returned' /\ Drained' /\ HealthyCalls'
  BY <1>1 DEF Returned, Drained, HealthyCalls
<1> QED BY <1>2, <1>3, <1>4, <1>5 DEF IInv

\* A failed send has spent its credits and ends the call.
LEMMA SendFailsInv ==
  ASSUME IInv, SendFails
  PROVE  IInv'
<1> DEFINE width == LogicalCharge(ReadCreditCharge(ChunkLen))
<1>1. width \in Nat \ {0} /\ width <= available
  BY ChunkAffordable DEF IInv, SendFails
<1> HIDE DEF width
<1>2. /\ available' = available - width
      /\ next' = IF next + width <= MaxMessageId THEN next + width ELSE next
      /\ window' = window /\ server' = server
  BY DEF SendFails, ReserveAndAllocate, width
<1>3. available \in 0 .. MaxAvailable /\ next \in FirstId .. MaxMessageId /\ window \in Nat
  BY DEF IInv, TypeOK, CreditTypes
<1>4. CreditTypes' /\ next' >= next
  BY <1>1, <1>2, <1>3, ReadLimits DEF CreditTypes
<1>5. next + available <= window
  BY DEF IInv, CreditsConserved
<1>6. next' + available' <= window'
  BY <1>1, <1>2, <1>3, <1>5, ReadLimits
<1>7. faulty' /\ faulty' \in BOOLEAN /\ Return("fault")
  BY DEF SendFails
<1>8. CreditsConserved'
  BY <1>6, <1>7 DEF CreditsConserved
<1>9. ServerTypes'
  <2>1. DOMAIN server \subseteq FirstId .. next - 1
    BY DEF IInv, TypeOK, ServerTypes
  <2>2. FirstId .. next - 1 \subseteq FirstId .. next' - 1
    <3>1. FirstId \in Nat /\ next \in Nat /\ next' \in Nat
      BY <1>3, <1>4, ReadLimits DEF CreditTypes
    <3>2. next' >= next
      BY <1>4
    <3> QED BY <3>1, <3>2, IdsGrow
  <2> QED BY <1>2, <2>1, <2>2 DEF IInv, TypeOK, ServerTypes, ServerRead
<1>10. \A m \in DOMAIN server' : server'[m].call <= calls
  BY <1>2 DEF IInv, Owed
<1> QED BY <1>4, <1>7, <1>8, <1>9, <1>10, FaultReturn

\* A failed receive ends the call.
LEMMA ReceiveFailsInv ==
  ASSUME IInv, ReceiveFails
  PROVE  IInv'
<1>1. /\ available' = available /\ next' = next /\ window' = window /\ server' = server
      /\ faulty' /\ faulty' \in BOOLEAN /\ Return("fault")
  BY DEF ReceiveFails, credit
<1>2. CreditTypes' /\ next' >= next
  BY <1>1, ReadLimits DEF IInv, TypeOK, CreditTypes
<1>3. CreditsConserved'
  BY <1>1 DEF IInv, CreditsConserved
<1>4. ServerTypes'
  BY <1>1 DEF IInv, TypeOK, ServerTypes, ServerRead
<1>5. \A m \in DOMAIN server' : server'[m].call <= calls
  BY <1>1 DEF IInv, Owed
<1> QED BY <1>1, <1>2, <1>3, <1>4, <1>5, FaultReturn

\* The end of a call: the slots up to the cut are the result.
LEMMA FinishInv ==
  ASSUME IInv, FinishRead
  PROVE  IInv'
<1> DEFINE kind == IF failed THEN "status"
                   ELSE IF short # NoPosition \/ scheduled >= call.target THEN "ok"
                   ELSE "exhausted"
<1>1. /\ phase = "reading" /\ ~CanSchedule /\ DOMAIN outstanding = {}
      /\ phase' = "idle" /\ result' = kind
      /\ UNCHANGED <<available, next, window, call, scheduled, completed, short,
                     failed, calls, server, faulty>>
  BY DEF FinishRead, Return, credit
<1>2. DOMAIN outstanding' = {}
  BY EmptyTable DEF FinishRead, Return
<1>3. kind \in {"status", "ok", "exhausted"}
  OBVIOUS
<1> HIDE DEF kind
<1>4. TypeOK'
  <2>1. CreditTypes' /\ ServerTypes'
    BY <1>1 DEF IInv, TypeOK, CreditTypes, ServerTypes, ServerRead
  <2>2. CallTypes'
    BY <1>1, <1>3 DEF IInv, TypeOK, CallTypes
  <2>3. TableTypes'
    BY <1>1, <1>2 DEF IInv, TypeOK, TableTypes
  <2>4. FlagTypes'
    BY <1>1 DEF IInv, TypeOK, FlagTypes
  <2> QED BY <2>1, <2>2, <2>3, <2>4 DEF TypeOK
<1>5. CreditsConserved'
  BY <1>1 DEF IInv, CreditsConserved
<1>6. Correlated' /\ Owed'
  BY <1>1, <1>2 DEF IInv, Correlated, Owed
<1>7. Planned' /\ Cut'
  BY <1>1 DEF IInv, Planned, Cut
<1>8. Returned'
  <2>1. \A i \in 1 .. Len(completed) : completed[i].got # NotYet
    BY <1>1 DEF IInv, Owed
  <2>2. scheduled <= call.target /\ scheduled \in Nat /\ call.target \in Nat
    BY DEF IInv, Planned, TypeOK, CallTypes
  <2>3. kind = "ok" => ~failed /\ (short # NoPosition \/ scheduled = call.target)
    BY <2>2 DEF kind
  <2> QED BY <1>1, <1>2, <2>1, <2>3 DEF Returned
<1>9. Drained'
  BY <1>1 DEF IInv, Owed, Drained
<1>10. HealthyCalls'
  <2>1. kind = "exhausted" => available = 0
    <3> SUFFICES ASSUME kind = "exhausted" PROVE available = 0
      OBVIOUS
    <3>1. ~failed /\ short = NoPosition /\ ~(scheduled >= call.target)
      BY DEF kind
    <3>2. scheduled < call.target
      BY <3>1 DEF IInv, TypeOK, CallTypes
    <3>3. Cardinality(DOMAIN outstanding) < InFlightLimit
      BY <1>1, FS_EmptySet, ReadLimits DEF InFlightLimit
    <3> QED BY <1>1, <3>1, <3>2, <3>3 DEF CanSchedule, IInv, TypeOK, CreditTypes
  <2>2. available \in Nat /\ next \in Nat /\ window \in Nat
    BY ReadLimits DEF IInv, TypeOK, CreditTypes
  <2>3. ~faulty => next + available = window
    BY DEF IInv, CreditsConserved
  <2> QED BY <1>1, <1>3, <2>1, <2>2, <2>3 DEF HealthyCalls
<1> QED BY <1>4, <1>5, <1>6, <1>7, <1>8, <1>9, <1>10 DEF IInv

-----------------------------------------------------------------------------
(* Responses.                                                              *)

\* The shape of a response.
LEMMA ResponseTypes ==
  ASSUME NEW r \in Response
  PROVE  /\ r.credits \in Nat /\ r.body.len \in Nat /\ r.head.async \in AsyncIds
         /\ r.head.form \in {"sync", "async"}
         /\ r.defect \in {"none", "header", "body"}
<1>1. /\ r.credits \in Grants /\ r.body \in Bodies /\ r.head \in Heads
      /\ r.defect \in {"none", "header", "body"}
  BY DEF Response
<1>2. r.credits \in Nat
  BY <1>1, ReadLimits
<1>3. r.body.len \in Nat
  BY <1>1, ReadLimits DEF Bodies
<1>4. r.head.async \in AsyncIds /\ r.head.form \in {"sync", "async"}
  BY <1>1 DEF Heads, AsyncIds
<1> QED BY <1>1, <1>2, <1>3, <1>4

\* What sending a response does to the server's side.
LEMMA ServerEffect ==
  ASSUME TypeOK, NEW r \in Response, ServerSends(r), next' = next
  PROVE  /\ window' = window + r.credits
         /\ ServerTypes'
         /\ DOMAIN server' \subseteq DOMAIN server
         /\ \A m \in DOMAIN server' :
              /\ server'[m].call = server[m].call
              /\ server'[m].off = server[m].off
              /\ server'[m].len = server[m].len
              /\ m # r.mid => server'[m] = server[m]
         /\ faulty' \in BOOLEAN
         /\ faulty' <=> faulty \/ ~Honest(r)
<1>1. window' = window + r.credits
  BY DEF ServerSends
<1>2. faulty' \in BOOLEAN /\ (faulty' <=> faulty \/ ~Honest(r))
  BY DEF ServerSends, TypeOK, FlagTypes
<1>3. r.head.async \in AsyncIds
  BY ResponseTypes
<1>4. \A m \in DOMAIN server : server[m] \in ServerRead
  BY DEF TypeOK, ServerTypes
<1>5. CASE r.body.status = "pending"
  <2>1. server' = [m \in DOMAIN server |->
          IF m = r.mid THEN [server[m] EXCEPT !.async = r.head.async] ELSE server[m]]
    BY <1>5 DEF ServerSends
  <2>2. \A m \in DOMAIN server :
          /\ server'[m] \in ServerRead
          /\ server'[m].call = server[m].call
          /\ server'[m].off = server[m].off
          /\ server'[m].len = server[m].len
          /\ m # r.mid => server'[m] = server[m]
    BY <1>3, <1>4, <2>1 DEF ServerRead
  <2>3. DOMAIN server' = DOMAIN server
    BY <2>1
  <2> QED BY <1>1, <1>2, <2>2, <2>3 DEF TypeOK, ServerTypes, ServerRead
<1>6. CASE r.body.status # "pending"
  <2>1. server' = [m \in DOMAIN server \ {r.mid} |-> server[m]]
    BY <1>6 DEF ServerSends
  <2>2. /\ DOMAIN server' = DOMAIN server \ {r.mid}
        /\ \A m \in DOMAIN server' : server'[m] = server[m]
    BY <2>1
  <2> QED BY <1>1, <1>2, <1>4, <2>2 DEF TypeOK, ServerTypes, ServerRead
<1> QED BY <1>5, <1>6

\* A healthy client refuses nothing an honest server sends.
LEMMA HonestAccepted ==
  ASSUME IInv, ~faulty, NEW r \in Response, Honest(r)
  PROVE  /\ r.mid \in DOMAIN outstanding
         /\ Phase(r) # "refused"
         /\ available + r.credits <= MaxAvailable
         /\ r.defect # "body"
         /\ ~TooLong(r)
<1>1. r.mid \in DOMAIN server /\ r.mid \in DOMAIN outstanding
      /\ server[r.mid].async \in {0, AssignedAsyncId}
  BY DEF Honest, IInv, Owed
<1>2. /\ server[r.mid].len = outstanding[r.mid].len
      /\ server[r.mid].async = outstanding[r.mid].async
  BY <1>1 DEF IInv, Correlated
<1>3. Phase(r) # "refused"
  <2>1. /\ r.defect = "none"
        /\ r.head.form = "sync" => outstanding[r.mid].async = 0 /\ r.body.status # "pending"
        /\ r.head.form = "async" => r.head.async = 1 /\ outstanding[r.mid].async \in {0, 1}
    BY <1>1, <1>2 DEF Honest, AssignedAsyncId
  <2> QED BY <2>1 DEF Phase, Validate
<1>4. ~TooLong(r)
  <2>1. r.body.len <= outstanding[r.mid].len /\ r.body.len \in Nat
        /\ outstanding[r.mid].len \in Nat
    BY <1>1, <1>2, ResponseTypes DEF Honest, IInv, TypeOK, TableTypes, PendingRead
  <2> QED BY <2>1 DEF TooLong
<1> QED BY <1>1, <1>3, <1>4 DEF Honest

\* A response that is refused before its credits are counted.
LEMMA RefuseInv ==
  ASSUME IInv, NEW r \in Response, RefuseResponse(r)
  PROVE  IInv'
<1>1. /\ available' = available /\ next' = next /\ ServerSends(r) /\ Return("fault")
  BY DEF RefuseResponse, credit
<1>2. TypeOK /\ r.credits \in Nat
  BY ResponseTypes DEF IInv
<1>3. /\ window' = window + r.credits /\ ServerTypes'
      /\ DOMAIN server' \subseteq DOMAIN server
      /\ \A m \in DOMAIN server' : server'[m].call = server[m].call
      /\ faulty' \in BOOLEAN /\ (faulty' <=> faulty \/ ~Honest(r))
  BY <1>1, <1>2, ServerEffect
<1>4. faulty'
  <2>1. r.mid \in DOMAIN outstanding =>
          Phase(r) = "refused" \/ available + r.credits > MaxAvailable
    BY DEF RefuseResponse
  <2>2. available + r.credits \in Nat /\ MaxAvailable \in Nat
    BY <1>2, ReadLimits DEF TypeOK, CreditTypes
  <2>3. ~faulty => ~Honest(r)
    BY <2>1, <2>2, HonestAccepted
  <2> QED BY <1>3, <2>3
<1>5. CreditTypes' /\ next' >= next
  BY <1>1, <1>2, <1>3, ReadLimits DEF TypeOK, CreditTypes
<1>6. CreditsConserved'
  <2>1. next + available <= window /\ next \in Nat /\ available \in Nat /\ window \in Nat
    BY <1>2, ReadLimits DEF IInv, CreditsConserved, TypeOK, CreditTypes
  <2>2. next' + available' <= window'
    BY <1>1, <1>2, <1>3, <2>1
  <2> QED BY <1>4, <2>2 DEF CreditsConserved
<1>7. \A m \in DOMAIN server' : server'[m].call <= calls
  BY <1>3 DEF IInv, Owed
<1> QED BY <1>1, <1>3, <1>4, <1>5, <1>6, <1>7, FaultReturn

\* Accepting a response moves its credits from the server to the client.
LEMMA AcceptEffect ==
  ASSUME IInv, NEW r \in Response, Accept(r), ServerSends(r)
  PROVE  /\ next' = next
         /\ CreditTypes'
         /\ next' >= next
         /\ CreditsConserved'
<1>1. /\ available' = available + r.credits /\ available + r.credits <= MaxAvailable
      /\ next' = next /\ window' = window + r.credits
  BY DEF Accept, ServerSends
<1>2. /\ available \in 0 .. MaxAvailable /\ next \in FirstId .. MaxMessageId
      /\ window \in Nat /\ r.credits \in Nat /\ MaxAvailable \in Nat
      /\ FirstId \in Nat /\ MaxMessageId \in Nat
  BY ResponseTypes, ReadLimits DEF IInv, TypeOK, CreditTypes
<1>3. CreditTypes' /\ next' >= next
  BY <1>1, <1>2 DEF CreditTypes
<1>4. next' + available' <= window'
  <2>1. next + available <= window
    BY DEF IInv, CreditsConserved
  <2> QED BY <1>1, <1>2, <2>1
<1>5. ASSUME ~faulty' PROVE next' + available' = window'
  <2>1. ~faulty
    BY <1>5 DEF ServerSends, IInv, TypeOK, FlagTypes
  <2>2. next + available = window
    BY <2>1 DEF IInv, CreditsConserved
  <2> QED BY <1>1, <1>2, <2>2
<1> QED BY <1>1, <1>3, <1>4, <1>5 DEF CreditsConserved

\* A response that is refused after its credits are counted.
LEMMA RejectInv ==
  ASSUME IInv, NEW r \in Response, RejectBody(r)
  PROVE  IInv'
<1>1. Accept(r) /\ ServerSends(r) /\ Return("fault") /\ (r.defect = "body" \/ TooLong(r))
  BY DEF RejectBody
<1>2. next' = next /\ CreditTypes' /\ next' >= next /\ CreditsConserved' /\ TypeOK
  BY <1>1, AcceptEffect DEF IInv
<1>3. /\ ServerTypes'
      /\ DOMAIN server' \subseteq DOMAIN server
      /\ \A m \in DOMAIN server' : server'[m].call = server[m].call
      /\ faulty' \in BOOLEAN /\ (faulty' <=> faulty \/ ~Honest(r))
  BY <1>1, <1>2, ServerEffect
<1>4. faulty'
  BY <1>1, <1>3, HonestAccepted
<1>5. \A m \in DOMAIN server' : server'[m].call <= calls
  BY <1>3 DEF IInv, Owed
<1> QED BY <1>1, <1>2, <1>3, <1>4, <1>5, FaultReturn

\* STATUS_PENDING: credits, and the slot stays outstanding.
LEMMA InterimInv ==
  ASSUME IInv, NEW r \in Response, ReceiveInterim(r)
  PROVE  IInv'
<1>1. /\ Accept(r) /\ ServerSends(r) /\ Phase(r) = "interim"
      /\ outstanding' = [outstanding EXCEPT ![r.mid].async = r.head.async]
      /\ UNCHANGED <<phase, call, scheduled, completed, short, failed, result, calls>>
  BY DEF ReceiveInterim
<1>2. TypeOK /\ next' = next /\ CreditTypes' /\ CreditsConserved'
  BY <1>1, AcceptEffect DEF IInv
<1>3. /\ ServerTypes'
      /\ faulty' \in BOOLEAN /\ (faulty' <=> faulty \/ ~Honest(r))
      /\ \A m \in DOMAIN server' :
           /\ server'[m].call = server[m].call
           /\ server'[m].off = server[m].off
           /\ server'[m].len = server[m].len
           /\ m # r.mid => server'[m] = server[m]
  BY <1>1, <1>2, ServerEffect
<1>4. /\ r.head.async \in AsyncIds /\ r.body.status = "pending"
      /\ r.mid \in DOMAIN outstanding /\ phase = "reading"
      /\ r.head.form = "async"
  BY <1>1, ResponseTypes DEF Phase, Validate, Accept, Waiting
<1>5. server' = [m \in DOMAIN server |->
        IF m = r.mid THEN [server[m] EXCEPT !.async = r.head.async] ELSE server[m]]
  BY <1>1, <1>4 DEF ServerSends
<1>6. r.mid \in DOMAIN server /\ DOMAIN server' = DOMAIN server
  BY <1>4, <1>5 DEF IInv, Correlated
<1>7. server'[r.mid].async = r.head.async
  <2>1. server[r.mid] \in ServerRead
    BY <1>2, <1>6 DEF TypeOK, ServerTypes
  <2> QED BY <1>5, <1>6, <2>1 DEF ServerRead
<1>8. \A m \in DOMAIN outstanding : outstanding[m] \in PendingRead
  BY <1>2 DEF TypeOK, TableTypes
<1>9. /\ DOMAIN outstanding' = DOMAIN outstanding
      /\ \A m \in DOMAIN outstanding :
           /\ outstanding'[m] \in PendingRead
           /\ outstanding'[m].position = outstanding[m].position
           /\ outstanding'[m].len = outstanding[m].len
           /\ m # r.mid => outstanding'[m] = outstanding[m]
      /\ outstanding'[r.mid].async = r.head.async
  BY <1>1, <1>4, <1>8 DEF PendingRead
<1>10. TypeOK'
  <2>1. CallTypes'
    BY <1>1, <1>2 DEF TypeOK, CallTypes
  <2>2. TableTypes'
    BY <1>1, <1>2, <1>9 DEF TypeOK, TableTypes, PendingRead
  <2>3. FlagTypes'
    BY <1>1, <1>2, <1>3 DEF TypeOK, FlagTypes
  <2> QED BY <1>2, <1>3, <2>1, <2>2, <2>3 DEF TypeOK
<1>11. Correlated'
  <2>1. \A m \in DOMAIN outstanding' : server'[m].async = outstanding'[m].async
    BY <1>3, <1>6, <1>7, <1>9 DEF IInv, Correlated
  <2> QED BY <1>1, <1>3, <1>6, <1>9, <2>1 DEF IInv, Correlated
<1>12. Owed'
  <2>1. ASSUME ~faulty', NEW m \in DOMAIN server'
        PROVE  m \in DOMAIN outstanding' /\ server'[m].async \in {0, AssignedAsyncId}
    <3>1. ~faulty /\ Honest(r)
      BY <1>3, <2>1
    <3>2. r.head.async = AssignedAsyncId
      BY <1>4, <3>1 DEF Honest
    <3> QED BY <1>3, <1>6, <1>7, <1>9, <2>1, <3>1, <3>2 DEF IInv, Owed
  <2>2. \A i \in 1 .. Len(completed') : completed'[i].got = NotYet =>
          \E m \in DOMAIN outstanding' : outstanding'[m].position = i
    BY <1>1, <1>4, <1>9 DEF IInv, Owed
  <2>3. \A m \in DOMAIN server' : server'[m].call <= calls'
    BY <1>1, <1>3, <1>6 DEF IInv, Owed
  <2>4. \A m \in DOMAIN server' : server'[m].call = calls' => m \in DOMAIN outstanding'
    BY <1>1, <1>3, <1>4, <1>6, <1>9 DEF IInv, Owed
  <2> QED BY <2>1, <2>2, <2>3, <2>4 DEF Owed
<1>13. Planned' /\ Cut'
  BY <1>1 DEF IInv, Planned, Cut
<1>14. Returned' /\ Drained' /\ HealthyCalls'
  BY <1>1, <1>4 DEF IInv, Returned, Drained, HealthyCalls
<1> QED BY <1>2, <1>10, <1>11, <1>12, <1>13, <1>14 DEF IInv

\* A final response fills its slot or moves the cut.
LEMMA FinalInv ==
  ASSUME IInv, NEW r \in Response, ReceiveFinal(r)
  PROVE  IInv'
<1> DEFINE pos == outstanding[r.mid].position
           want == outstanding[r.mid].len
           got == IF failed THEN 0 ELSE r.body.len
           slot == [off |-> server[r.mid].off, len |-> want, got |-> got]
<1>1. /\ Accept(r) /\ ServerSends(r) /\ Phase(r) = "final" /\ ~TooLong(r)
      /\ outstanding' = [m \in DOMAIN outstanding \ {r.mid} |-> outstanding[m]]
      /\ completed' = [completed EXCEPT ![pos] = slot]
      /\ short' = IF ~failed /\ r.body.status # "error" /\ r.body.len < want
                    THEN MarkShort(pos) ELSE short
      /\ failed' = (failed \/ r.body.status = "error")
      /\ UNCHANGED <<phase, call, scheduled, result, calls>>
  BY DEF ReceiveFinal
<1>2. TypeOK /\ next' = next /\ CreditTypes' /\ CreditsConserved'
  BY <1>1, AcceptEffect DEF IInv
<1>3. /\ ServerTypes'
      /\ faulty' \in BOOLEAN /\ (faulty' <=> faulty \/ ~Honest(r))
  BY <1>1, <1>2, ServerEffect
<1>4. /\ r.body.status # "pending" /\ r.mid \in DOMAIN outstanding
      /\ phase = "reading" /\ r.body.len \in Nat
  BY <1>1, ResponseTypes DEF Phase, Validate, Accept, Waiting
<1>5. /\ DOMAIN server' = DOMAIN server \ {r.mid}
      /\ \A m \in DOMAIN server' : server'[m] = server[m]
  BY <1>1, <1>4 DEF ServerSends
<1>6. /\ DOMAIN outstanding' = DOMAIN outstanding \ {r.mid}
      /\ \A m \in DOMAIN outstanding' : outstanding'[m] = outstanding[m]
  BY <1>1
<1>7. outstanding[r.mid] \in PendingRead
  BY <1>2, <1>4 DEF TypeOK, TableTypes
<1>8. pos \in 1 .. Len(completed) /\ want \in Nat /\ completed \in Seq(Slot)
      /\ short \in 0 .. Len(completed)
  BY <1>2, <1>7 DEF PendingRead, TypeOK, TableTypes
<1>9. /\ r.mid \in DOMAIN server /\ server[r.mid].off \in Nat
      /\ server[r.mid].off = completed[pos].off
      /\ want = completed[pos].len /\ completed[pos].got = NotYet
  BY <1>2, <1>4 DEF IInv, Correlated, TypeOK, ServerTypes, ServerRead
<1>10. got \in Nat /\ got <= want
  BY <1>1, <1>4, <1>8 DEF TooLong
<1> HIDE DEF got
<1>11. slot \in Slot
  BY <1>8, <1>9, <1>10 DEF Slot
<1>12. /\ completed' \in Seq(Slot) /\ Len(completed') = Len(completed)
       /\ completed'[pos] = slot
       /\ \A i \in 1 .. Len(completed) : i # pos => completed'[i] = completed[i]
  BY <1>1, <1>8, <1>11
<1>13. \A i \in 1 .. Len(completed) :
         completed'[i].off = completed[i].off /\ completed'[i].len = completed[i].len
  BY <1>9, <1>12
<1> HIDE DEF slot, pos, want
<1>14. short' \in 0 .. Len(completed)
  BY <1>1, <1>8 DEF MarkShort, Least
<1>15. TypeOK'
  <2>1. CallTypes'
    BY <1>1, <1>2 DEF TypeOK, CallTypes
  <2>2. TableTypes'
    BY <1>2, <1>6, <1>12, <1>14 DEF TypeOK, TableTypes, PendingRead
  <2>3. FlagTypes'
    BY <1>1, <1>3 DEF FlagTypes
  <2> QED BY <1>2, <1>3, <2>1, <2>2, <2>3 DEF TypeOK
<1>16. Correlated'
  <2>1. \A m \in DOMAIN outstanding' :
          outstanding[m].position \in 1 .. Len(completed) /\ outstanding[m].position # pos
    BY <1>2, <1>4, <1>6 DEF TypeOK, TableTypes, PendingRead, IInv, Correlated, pos
  <2>2. \A m \in DOMAIN outstanding' : m \in DOMAIN server'
    BY <1>5, <1>6 DEF IInv, Correlated
  <2> QED BY <1>5, <1>6, <1>12, <2>1, <2>2 DEF IInv, Correlated
<1>17. Owed'
  <2>1. \A m \in DOMAIN server' : server'[m].call <= calls'
    BY <1>1, <1>5 DEF IInv, Owed
  <2>2. ~faulty' => \A m \in DOMAIN server' :
          m \in DOMAIN outstanding' /\ server'[m].async \in {0, AssignedAsyncId}
    BY <1>3, <1>5, <1>6 DEF IInv, Owed
  <2>3. ASSUME NEW i \in 1 .. Len(completed'), completed'[i].got = NotYet
        PROVE  \E m \in DOMAIN outstanding' : outstanding'[m].position = i
    <3>1. i # pos
      BY <1>10, <1>12, <2>3 DEF slot, NotYet
    <3>2. i \in 1 .. Len(completed) /\ completed[i].got = NotYet
      BY <1>12, <2>3, <3>1
    <3>3. PICK m \in DOMAIN outstanding : outstanding[m].position = i
      BY <1>4, <3>2 DEF IInv, Owed
    <3> QED BY <1>6, <3>1, <3>3 DEF pos
  <2>4. \A m \in DOMAIN server' : server'[m].call = calls' => m \in DOMAIN outstanding'
    BY <1>1, <1>4, <1>5, <1>6 DEF IInv, Owed
  <2> QED BY <2>1, <2>2, <2>3, <2>4 DEF Owed
<1>18. Planned'
  <2>1. \A i \in 1 .. Len(completed) : completed'[i].got <= completed'[i].len
    BY <1>9, <1>10, <1>12 DEF IInv, Planned, slot
  <2>2. \A i \in 1 .. Len(completed) : i # 1 => i - 1 \in 1 .. Len(completed)
    BY <1>8
  <2>3. Len(completed) # 0 => Len(completed) \in 1 .. Len(completed)
    BY <1>8
  <2> QED BY <1>1, <1>12, <1>13, <2>1, <2>2, <2>3 DEF IInv, Planned
<1>19. Cut'
  <2> SUFFICES ASSUME ~failed', NEW i \in 1 .. Len(completed),
                      completed'[i].got # NotYet, completed'[i].got < completed'[i].len
               PROVE  short' # NoPosition /\ short' <= i
    BY <1>12 DEF Cut
  <2>1. ~failed /\ r.body.status # "error"
    BY <1>1
  <2>2. CASE i = pos
    <3>1. r.body.len < want
      BY <1>12, <2>1, <2>2 DEF slot, got
    <3> QED BY <1>1, <1>8, <2>1, <2>2, <3>1 DEF MarkShort, Least, NoPosition
  <2>3. CASE i # pos
    <3>1. short # NoPosition /\ short <= i
      BY <1>12, <2>1, <2>3 DEF IInv, Cut
    <3> QED BY <1>1, <1>8, <3>1 DEF MarkShort, Least, NoPosition
  <2> QED BY <2>2, <2>3
<1>20. Returned' /\ Drained'
  BY <1>1, <1>4 DEF IInv, Returned, Drained
<1>21. HealthyCalls'
  BY <1>1, <1>4 DEF IInv, Returned, HealthyCalls
<1> QED BY <1>2, <1>15, <1>16, <1>17, <1>18, <1>19, <1>20, <1>21 DEF IInv

-----------------------------------------------------------------------------
(* The theorems.                                                           *)

\* The ranges calls ask for.
LEMMA RangeTypes ==
  ASSUME NEW range \in Ranges
  PROVE  range[1] \in Nat /\ range[2] \in Nat
  BY ReadLimits

\* Every step preserves the invariant.
LEMMA StepInv == IInv /\ [Next]_vars => IInv'
<1> SUFFICES ASSUME IInv, [Next]_vars PROVE IInv'
  OBVIOUS
<1>1. CASE \E mode \in Modes, range \in Ranges : StartRead(mode, range[1], range[2])
  BY <1>1, RangeTypes, StartInv
<1>2. CASE SendRead
  BY <1>2, SendInv
<1>3. CASE SendFails
  BY <1>3, SendFailsInv
<1>4. CASE FinishRead
  BY <1>4, FinishInv
<1>5. CASE ReceiveFails
  BY <1>5, ReceiveFailsInv
<1>6. ASSUME NEW r \in Response,
             RefuseResponse(r) \/ RejectBody(r) \/ ReceiveInterim(r) \/ ReceiveFinal(r)
      PROVE  IInv'
  BY <1>6, RefuseInv, RejectInv, InterimInv, FinalInv
<1>7. CASE UNCHANGED vars
  <2> USE <1>7 DEF vars, credit, locals
  <2>1. TypeOK'
    <3>1. CreditTypes' /\ CallTypes'
      BY DEF IInv, TypeOK, CreditTypes, CallTypes
    <3>2. TableTypes' /\ ServerTypes'
      BY DEF IInv, TypeOK, TableTypes, PendingRead, ServerTypes, ServerRead
    <3>3. FlagTypes'
      BY DEF IInv, TypeOK, FlagTypes
    <3> QED BY <3>1, <3>2, <3>3 DEF TypeOK
  <2>2. CreditsConserved' /\ Correlated' /\ Owed'
    BY DEF IInv, CreditsConserved, Correlated, Owed
  <2>3. Planned' /\ Cut' /\ Returned'
    BY DEF IInv, Planned, Cut, Returned
  <2>4. Drained' /\ HealthyCalls'
    BY DEF IInv, Drained, HealthyCalls
  <2> QED BY <2>1, <2>2, <2>3, <2>4 DEF IInv
<1> QED BY <1>1, <1>2, <1>3, <1>4, <1>5, <1>6, <1>7 DEF Next, CallStep

\* The tiling of the slots and the cut give the contiguous prefix.
LEMMA InvPrefix == IInv => PrefixReturned
<1> SUFFICES ASSUME IInv, phase = "idle", result = "ok"
             PROVE  /\ \A i \in 1 .. Taken :
                         /\ completed[i].got # NotYet
                         /\ completed[i].off = IF i = 1 THEN call.offset
                                               ELSE End(completed[i - 1])
                         /\ End(completed[i]) <= call.offset + call.target
                    /\ short = NoPosition /\ call.target > 0 =>
                         /\ Taken > 0
                         /\ End(completed[Taken]) = call.offset + call.target
  BY DEF PrefixReturned
<1>1. /\ ~failed /\ completed \in Seq(Slot) /\ short \in 0 .. Len(completed)
      /\ call.offset \in Nat /\ call.target \in Nat /\ scheduled \in Nat
      /\ scheduled <= call.target
      /\ short # NoPosition \/ scheduled = call.target
      /\ \A i \in 1 .. Len(completed) : completed[i].got # NotYet
  BY DEF IInv, TypeOK, CallTypes, TableTypes, Returned, Planned
<1>2. Taken \in 0 .. Len(completed) /\ Len(completed) \in Nat
  BY <1>1 DEF Taken, NoPosition
<1>3. \A i \in 1 .. Len(completed) :
        /\ completed[i].off \in Nat /\ completed[i].len \in Nat /\ completed[i].got \in Nat
        /\ completed[i].got <= completed[i].len
        /\ completed[i].off + completed[i].len <= call.offset + scheduled
  BY <1>1, SlotTypes DEF IInv, Planned
<1>4. ASSUME NEW i \in 1 .. Len(completed), short = NoPosition \/ i < short
      PROVE  completed[i].got = completed[i].len
  <2>1. ~(completed[i].got < completed[i].len)
    BY <1>1, <1>4 DEF IInv, Cut, NoPosition
  <2> QED BY <1>3, <2>1
<1>5. ASSUME NEW i \in 1 .. Taken
      PROVE  /\ completed[i].got # NotYet
             /\ completed[i].off = IF i = 1 THEN call.offset ELSE End(completed[i - 1])
             /\ End(completed[i]) <= call.offset + call.target
  <2>1. i \in 1 .. Len(completed)
    BY <1>2
  <2>2. End(completed[i]) <= call.offset + call.target
    <3>1. /\ completed[i].off \in Nat /\ completed[i].len \in Nat /\ completed[i].got \in Nat
          /\ completed[i].got <= completed[i].len
          /\ completed[i].off + completed[i].len <= call.offset + scheduled
      BY <1>3, <2>1
    <3>2. /\ call.offset \in Nat /\ call.target \in Nat /\ scheduled \in Nat
          /\ scheduled <= call.target
      BY <1>1
    <3>3. completed[i].off + completed[i].got <= call.offset + call.target
      BY <3>1, <3>2
    <3> QED BY <3>3 DEF End
  <2>3. CASE i = 1
    BY <1>1, <2>1, <2>2, <2>3 DEF IInv, Planned
  <2>4. CASE i # 1
    <3>1. i - 1 \in 1 .. Len(completed) /\ (short = NoPosition \/ i - 1 < short)
      BY <1>1, <1>2, <2>4 DEF Taken
    <3>2. completed[i - 1].got = completed[i - 1].len
      BY <1>4, <3>1
    <3>3. completed[i].off = completed[i - 1].off + completed[i - 1].len
      BY <2>1, <2>4 DEF IInv, Planned
    <3>4. completed[i].off = End(completed[i - 1])
      BY <3>2, <3>3 DEF End
    <3>5. completed[i].got # NotYet
      BY <1>1, <2>1
    <3> QED BY <2>2, <2>4, <3>4, <3>5
  <2> QED BY <2>3, <2>4
<1>6. ASSUME short = NoPosition, call.target > 0
      PROVE  Taken > 0 /\ End(completed[Taken]) = call.offset + call.target
  <2>1. Taken = Len(completed) /\ scheduled = call.target
    BY <1>1, <1>6 DEF Taken
  <2>2. Len(completed) # 0
    BY <1>1, <1>6, <2>1 DEF IInv, Planned
  <2>3. Len(completed) \in 1 .. Len(completed)
    BY <1>2, <2>2
  <2>4. completed[Len(completed)].got = completed[Len(completed)].len
    BY <1>4, <1>6, <2>3
  <2>5. completed[Len(completed)].off + completed[Len(completed)].len = call.offset + scheduled
    BY <2>2 DEF IInv, Planned
  <2> QED BY <1>2, <2>1, <2>2, <2>4, <2>5 DEF End
<1> QED BY <1>5, <1>6

\* The invariant holds throughout.
LEMMA InvAlways == Spec => []IInv
  BY InitInv, StepInv, PTL DEF Spec

(***************************************************************************)
(* Type correctness: in particular the credits never underflow, so the     *)
(* reservation the scheduler makes for a chunk always succeeds.            *)
(***************************************************************************)
THEOREM ReadTypes == Spec => []TypeOK
<1>1. IInv => TypeOK
  BY DEF IInv
<1> QED BY InvAlways, <1>1, PTL

(***************************************************************************)
(* Credits are conserved through every read, and never oversubscribed even *)
(* when server and transport misbehave.                                    *)
(***************************************************************************)
THEOREM ReadCredits == Spec => []CreditsConserved
<1>1. IInv => CreditsConserved
  BY DEF IInv
<1> QED BY InvAlways, <1>1, PTL

(***************************************************************************)
(* A successful read is a contiguous prefix of the requested range,        *)
(* whatever the order of the responses, the grants and the earlier calls.  *)
(***************************************************************************)
THEOREM ReadPrefix == Spec => []PrefixReturned
  BY InvAlways, InvPrefix, PTL

(***************************************************************************)
(* A call that returns data or a server status leaves no answer behind.    *)
(***************************************************************************)
THEOREM ReadDrained == Spec => []Drained
<1>1. IInv => Drained
  BY DEF IInv
<1> QED BY InvAlways, <1>1, PTL

(***************************************************************************)
(* Without a fault of the server or the transport no read ends in a        *)
(* protocol error, and none starves while the server has granted credits.  *)
(***************************************************************************)
THEOREM ReadHealthy == Spec => []HealthyCalls
<1>1. IInv => HealthyCalls
  BY DEF IInv
<1> QED BY InvAlways, <1>1, PTL

\* Reserving for a chunk is a request of the credit window.
LEMMA ReserveIsRequest ==
  ASSUME IInv, phase = "reading", CanSchedule, UNCHANGED window,
         ReserveAndAllocate(LogicalCharge(ReadCreditCharge(ChunkLen)))
  PROVE  Credits!Next
<1> DEFINE width == LogicalCharge(ReadCreditCharge(ChunkLen))
<1>1. width \in Nat \ {0} /\ width <= available
  BY ChunkAffordable DEF IInv
<1> HIDE DEF width
<1>2. available \in 0 .. MaxAvailable /\ MaxAvailable \in Nat
  BY ReadLimits DEF IInv, TypeOK, CreditTypes
<1>3. width \in 0 .. MaxAvailable /\ available # Credits!NotNegotiated
  BY <1>1, <1>2 DEF Credits!NotNegotiated
<1>4. Credits!LogicalCharge(width) = width
  BY <1>1 DEF Credits!LogicalCharge
<1>5. Credits!Request(width)
  BY <1>1, <1>3, <1>4 DEF Credits!Request, Credits!Allocated, ReserveAndAllocate, width
<1> QED BY <1>3, <1>5 DEF Credits!Next

\* Counting a response's credits is a grant of the credit window.
LEMMA ResponseIsGrant ==
  ASSUME IInv, NEW r \in Response, ServerSends(r), next' = next,
         \/ available' = available
         \/ /\ available' = available + r.credits
            /\ available + r.credits <= MaxAvailable
  PROVE  Credits!Next
<1>1. /\ available \in Nat /\ r.credits \in Nat /\ window \in Nat /\ MaxWindow \in Nat
      /\ window + r.credits <= MaxWindow /\ window' = window + r.credits
  BY ResponseTypes, ReadLimits DEF IInv, TypeOK, CreditTypes, ServerSends
<1>2. r.credits \in 0 .. MaxWindow /\ available # Credits!NotNegotiated
  BY <1>1 DEF Credits!NotNegotiated
<1>3. Credits!Grant(r.credits) \/ Credits!LoseGrant(r.credits)
  BY <1>1, <1>2 DEF Credits!Grant, Credits!Granted, Credits!LoseGrant
<1> QED BY <1>2, <1>3 DEF Credits!Next

(***************************************************************************)
(* Refinement: every step of a read spends or gains credits the way the    *)
(* credit window allows, so what is proved of CreditWindow holds here.     *)
(***************************************************************************)
THEOREM ReadsUseWindow == Spec => CreditSteps
<1> DEFINE cw == <<available, next, window>>
<1>1. IInv /\ [Next]_vars => [Credits!Next]_cw
  <2> SUFFICES ASSUME IInv, [Next]_vars, ~UNCHANGED cw
               PROVE  Credits!Next
    OBVIOUS
  <2>1. CASE \E mode \in Modes, range \in Ranges : StartRead(mode, range[1], range[2])
    BY <2>1 DEF StartRead, credit
  <2>2. CASE SendRead \/ SendFails
    BY <2>2, ReserveIsRequest DEF SendRead, SendFails
  <2>3. CASE FinishRead \/ ReceiveFails
    BY <2>3 DEF FinishRead, ReceiveFails, credit
  <2>4. ASSUME NEW r \in Response,
               RefuseResponse(r) \/ RejectBody(r) \/ ReceiveInterim(r) \/ ReceiveFinal(r)
        PROVE  Credits!Next
    <3>1. ServerSends(r) /\ next' = next
      BY <2>4 DEF RefuseResponse, RejectBody, ReceiveInterim, ReceiveFinal, Accept, credit
    <3>2. \/ available' = available
          \/ /\ available' = available + r.credits
             /\ available + r.credits <= MaxAvailable
      BY <2>4 DEF RefuseResponse, RejectBody, ReceiveInterim, ReceiveFinal, Accept, credit
    <3> QED BY <3>1, <3>2, ResponseIsGrant
  <2>5. CASE UNCHANGED vars
    BY <2>5 DEF vars, credit
  <2> QED BY <2>1, <2>2, <2>3, <2>4, <2>5 DEF Next, CallStep
<1> QED BY InvAlways, <1>1, PTL DEF Spec, CreditSteps
=============================================================================
