---------------------------- MODULE WriteAt_proof ----------------------------
(***************************************************************************)
(* The safety of the credit window, for every width of its counters, and   *)
(* of the chunked writes and flushes that draw on it, for every chunk      *)
(* size, credit window, data length and any number of calls.               *)
(***************************************************************************)
EXTENDS WriteAt, SequenceTheorems, TLAPS

-----------------------------------------------------------------------------
(* The credit window.  WithinWindow is inductive together with the types   *)
(* and the one id a fresh connection owns: each action moves the same      *)
(* number of credits from available to next, or the same number from the   *)
(* server to both window and available, or loses some on the client's      *)
(* side only.                                                              *)

IInv == TypeOK /\ WithinWindow /\ window >= 1

\* A request costs at least one credit.
LEMMA ChargeWidth ==
  ASSUME NEW charge \in 0 .. MaxCharge
  PROVE  LogicalCharge(charge) \in Nat \ {0}
  BY CreditLimits DEF LogicalCharge

\* It holds initially.
LEMMA InitInv == Init => IInv
  BY CreditLimits DEF Init, IInv, TypeOK, WithinWindow, NotNegotiated

\* Every step preserves it.
LEMMA StepInv == IInv /\ [Next]_vars => IInv'
<1> SUFFICES ASSUME IInv, [Next]_vars PROVE IInv'
  OBVIOUS
<1> USE CreditLimits DEF IInv, TypeOK, WithinWindow, NotNegotiated
<1>1. CASE \E initial \in 0 .. MaxGrant : Negotiate(initial)
  BY <1>1 DEF Negotiate, FirstBudget
<1>2. CASE \E charge \in 0 .. MaxCharge : Request(charge)
  <2>1. PICK charge \in 0 .. MaxCharge : Request(charge)
    BY <1>2
  <2>2. LogicalCharge(charge) \in Nat \ {0}
    BY ChargeWidth
  <2> QED BY <2>1, <2>2 DEF Request, Allocated
<1>3. CASE \E credits \in 0 .. MaxGrant : Grant(credits)
  BY <1>3 DEF Grant, Granted
<1>4. CASE \E credits \in 0 .. MaxGrant : LoseGrant(credits)
  BY <1>4 DEF LoseGrant
<1>5. CASE UNCHANGED vars
  BY <1>5 DEF vars
<1> QED BY <1>1, <1>2, <1>3, <1>4, <1>5 DEF Next

(***************************************************************************)
(* The counters never leave the range of their types (u32 credits, u64     *)
(* ids): reserve never underflows, grant and allocate never overflow.      *)
(***************************************************************************)
THEOREM TypeCorrect == Spec => []TypeOK
  BY InitInv, StepInv, PTL DEF Spec, IInv

(***************************************************************************)
(* However requests, grants and refused responses interleave, the client   *)
(* never holds a budget beyond the window the server has granted.          *)
(***************************************************************************)
THEOREM BudgetWithinWindow == Spec => []WithinWindow
  BY InitInv, StepInv, PTL DEF Spec, IInv

(***************************************************************************)
(* Every request takes fresh MessageIds, all of them granted before.       *)
(***************************************************************************)
THEOREM FreshGrantedSpans == Spec => SpansGranted
<1>1. IInv /\ [Next]_vars => [next' # next => next' > next /\ next' <= window]_vars
  <2> SUFFICES ASSUME IInv, Next, next' # next
               PROVE  next' > next /\ next' <= window
    BY DEF vars
  <2> USE CreditLimits DEF IInv, TypeOK, WithinWindow, NotNegotiated
  <2>1. CASE \E initial \in 0 .. MaxGrant : Negotiate(initial)
    BY <2>1 DEF Negotiate, FirstBudget
  <2>2. CASE \E charge \in 0 .. MaxCharge : Request(charge)
    <3>1. PICK charge \in 0 .. MaxCharge : Request(charge)
      BY <2>2
    <3>2. LogicalCharge(charge) \in Nat \ {0}
      BY ChargeWidth
    <3> QED BY <3>1, <3>2 DEF Request, Allocated
  <2>3. CASE \E credits \in 0 .. MaxGrant : Grant(credits) \/ LoseGrant(credits)
    BY <2>3 DEF Grant, Granted, LoseGrant
  <2> QED BY <2>1, <2>2, <2>3 DEF Next
<1> QED BY InitInv, StepInv, <1>1, PTL DEF Spec, SpansGranted

-----------------------------------------------------------------------------
(* The inductive invariant of the writes, in named parts.                  *)

CallRecord ==
  [op : {"none", "write", "flush"}, offset : Nat, len : Nat, written : Nat,
   result : {"none", "running", "ok", "failed"}]

RequestRecord ==
  [state : {"none", "queued", "done"}, from : Nat, pos : Nat, len : Nat, done : Nat]

WriteTypes ==
  /\ limits \in [multi : BOOLEAN, max : MaxWriteSizes, encrypted : BOOLEAN]
  /\ current \in 0 .. MaxCalls
  /\ calls \in [Calls -> CallRecord]
  /\ req \in [Calls -> RequestRecord]
  /\ applied \in [Calls -> Seq(Nat \X Nat)]
  /\ durable \in [Calls -> Nat]

\* A call of the future is blank; a flush carries no data; only a write that is
\* not over has bytes left.
Accounted(c) ==
  /\ c > current => calls[c].op = "none"
  /\ calls[c].op # "write" => calls[c].len = 0 /\ req[c].len = 0
  /\ calls[c].op = "none" => calls[c].result = "none" /\ req[c].state = "none"
  /\ calls[c].written <= calls[c].len
  /\ calls[c].result = "running" /\ calls[c].op = "write" => calls[c].written < calls[c].len
  /\ calls[c].result = "ok" => calls[c].written = calls[c].len /\ req[c].state = "none"

\* The request of a call starts where its last answer ended, stays in the data,
\* and the server has applied what was acknowledged and what it did of this one.
Continued(c) ==
  /\ req[c].state = "none" => req[c].len = 0
  /\ req[c].state # "none" /\ calls[c].op = "write" =>
       /\ req[c].from = calls[c].written
       /\ req[c].pos = calls[c].offset + calls[c].written
       /\ calls[c].written + req[c].len <= calls[c].len
  /\ req[c].done <= req[c].len
  /\ req[c].state # "done" => req[c].done = 0
  /\ Len(applied[c]) = calls[c].written + req[c].done

\* Every byte the server has is where the data says.
InPlace(c) ==
  \A k \in 1 .. Len(applied[c]) : applied[c][k] = <<k - 1, calls[c].offset + k - 1>>

\* A flush the server is done with covers what was acknowledged before it.
Covered(c) ==
  calls[c].op = "flush" /\ (req[c].state = "done" \/ calls[c].result = "ok") =>
    \A d \in 1 .. c - 1 : calls[d].written <= durable[d]

WriteInv ==
  /\ IInv
  /\ WriteTypes
  /\ \A c \in Calls : Accounted(c) /\ Continued(c) /\ InPlace(c) /\ Covered(c)
-----------------------------------------------------------------------------
\* What the types say about one call.
LEMMA CallTypes ==
  ASSUME WriteTypes, NEW c \in Calls
  PROVE  /\ calls[c] \in CallRecord /\ req[c] \in RequestRecord
         /\ calls[c].offset \in Nat /\ calls[c].len \in Nat /\ calls[c].written \in Nat
         /\ calls[c].op \in {"none", "write", "flush"}
         /\ req[c].from \in Nat /\ req[c].pos \in Nat
         /\ req[c].len \in Nat /\ req[c].done \in Nat
         /\ Len(applied[c]) \in Nat /\ durable[c] \in Nat
         /\ applied[c] \in Seq(Nat \X Nat)
         /\ c \in Nat /\ current \in Nat
<1>1. /\ calls[c] \in CallRecord /\ req[c] \in RequestRecord
      /\ applied[c] \in Seq(Nat \X Nat) /\ durable[c] \in Nat
  BY DEF WriteTypes
<1>2. c \in Nat /\ current \in Nat
  BY WriteLimits DEF WriteTypes, Calls
<1>3. Len(applied[c]) \in Nat
  BY <1>1
<1> QED BY <1>1, <1>2, <1>3 DEF CallRecord, RequestRecord

\* A step that touches one call, and the progress of none before the current
\* one, only has to answer for that call.
LEMMA OneCall ==
  ASSUME WriteInv, IInv', WriteTypes', NEW c \in Calls,
         \A d \in Calls \ {c} :
           calls'[d] = calls[d] /\ req'[d] = req[d] /\ applied'[d] = applied[d],
         current' >= current, durable' = durable,
         calls'[c].written = calls[c].written \/ c >= current,
         Accounted(c)', Continued(c)', InPlace(c)', Covered(c)'
  PROVE  WriteInv'
<1> SUFFICES ASSUME NEW d \in Calls, d # c
             PROVE  Accounted(d)' /\ Continued(d)' /\ InPlace(d)' /\ Covered(d)'
  BY DEF WriteInv, Calls
<1>1. calls'[d] = calls[d] /\ req'[d] = req[d] /\ applied'[d] = applied[d]
  OBVIOUS
<1>2. Accounted(d) /\ Continued(d) /\ InPlace(d) /\ Covered(d) /\ WriteTypes
  BY DEF WriteInv
<1>3. /\ d \in Nat /\ c \in Nat /\ current \in Nat /\ current' \in Nat
  BY <1>2, WriteLimits DEF Calls, WriteTypes
<1>4. Accounted(d)'
  BY <1>1, <1>2, <1>3 DEF Accounted
<1>5. Continued(d)' /\ InPlace(d)'
  BY <1>1, <1>2 DEF Continued, InPlace
<1>6. Covered(d)'
  <2> SUFFICES ASSUME calls[d].op = "flush", req[d].state = "done" \/ calls[d].result = "ok",
                      NEW e \in 1 .. d - 1
               PROVE  calls'[e].written <= durable[e]
    BY <1>1 DEF Covered
  <2>1. d <= current /\ e < d /\ e \in Calls
    BY <1>2, <1>3, WriteLimits DEF Accounted, Calls
  <2>2. calls'[e].written = calls[e].written
    BY <2>1, <1>3
  <2>3. calls[e].written <= durable[e]
    BY <1>2 DEF Covered
  <2> QED BY <2>2, <2>3
<1> QED BY <1>4, <1>5, <1>6
-----------------------------------------------------------------------------
\* A chunk that write_at may send is not empty and stays in the data.
LEMMA ChunkInData ==
  ASSUME WriteInv, NEW c \in Calls, Running(c), calls[c].op = "write", ~CannotSend(c)
  PROVE  /\ ChunkLen(c) \in Nat \ {0}
         /\ calls[c].written + ChunkLen(c) <= calls[c].len
         /\ WriteCreditCharge(ChunkLen(c)) \in 0 .. MaxCharge
<1> DEFINE rest == calls[c].len - calls[c].written
           pay == CreditLimitedPayload
<1>1. WriteTypes /\ Accounted(c) /\ TypeOK
  BY DEF WriteInv, IInv
<1>2. rest \in Nat \ {0} /\ calls[c].written \in Nat /\ calls[c].len \in Nat
  BY <1>1, CallTypes DEF Accounted, Running
<1>3. available \in Nat \ {0} /\ limits.max \in Nat \ {0} /\ Unit \in Nat \ {0}
  <2>1. limits.max \in Nat /\ limits.max # 0
    BY <1>1, WriteLimits DEF WriteTypes, CannotSend
  <2>2. available \in Int /\ ~(available < 1)
    BY <1>1, CreditLimits DEF TypeOK, CannotSend, NotNegotiated
  <2> QED BY <2>1, <2>2, WriteLimits
<1>4. pay \in Nat \ {0}
  <2>1. available * Unit \in Nat \ {0}
    BY <1>3
  <2> QED BY <2>1, <1>3 DEF CreditLimitedPayload
<1> HIDE DEF pay
<1>5. ChunkLen(c) = Least(rest, Least(limits.max, pay))
  BY DEF ChunkLen, pay
<1>6. ChunkLen(c) \in Nat \ {0} /\ ChunkLen(c) <= rest
  BY <1>2, <1>3, <1>4, <1>5 DEF Least
<1>7. WriteCreditCharge(ChunkLen(c)) \in Nat
  <2>1. (ChunkLen(c) - 1) \div Unit \in Nat
    BY <1>3, <1>6
  <2> QED BY <2>1 DEF WriteCreditCharge
<1>8. WriteCreditCharge(ChunkLen(c)) <= MaxCharge
  BY <1>7, CreditLimits DEF CannotSend
<1> QED BY <1>2, <1>6, <1>7, <1>8, CreditLimits

\* Charging one credit is the same whether the field says 0 or 1.
LEMMA ChargedStep ==
  ASSUME NEW charge \in Nat, Request(charge), charge <= 1 \/ charge <= MaxCharge
  PROVE  Next
<1>1. CASE charge <= 1
  <2>1. LogicalCharge(charge) = LogicalCharge(0)
    BY <1>1 DEF LogicalCharge
  <2>2. Request(0)
    BY <2>1 DEF Request
  <2>3. 0 \in 0 .. MaxCharge
    BY CreditLimits
  <2> QED BY <2>2, <2>3 DEF Next
<1>2. CASE charge <= MaxCharge
  <2>1. charge \in 0 .. MaxCharge
    BY <1>2, CreditLimits
  <2> QED BY <2>1 DEF Next
<1> QED BY <1>1, <1>2

\* What a running call spends on its next request is a request of the window.
LEMMA ChargeOfCall ==
  ASSUME WriteInv, NEW c \in Calls, Running(c), ~CannotSend(c), Request(Charge(c))
  PROVE  Next
<1>1. CASE calls[c].op = "flush"
  <2>1. Charge(c) \in Nat /\ Charge(c) <= 1
    BY <1>1 DEF Charge, FlushCharge
  <2> QED BY <2>1, ChargedStep
<1>2. CASE calls[c].op = "write"
  <2>1. Charge(c) \in 0 .. MaxCharge
    BY <1>2, ChunkInData DEF Charge
  <2> QED BY <2>1 DEF Next
<1>3. calls[c].op # "none" /\ calls[c].op \in {"none", "write", "flush"}
  BY CallTypes DEF WriteInv, Accounted, Running
<1> QED BY <1>1, <1>2, <1>3

\* Every step of writing and flushing is a step of the credit window or leaves it.
LEMMA CreditStep == WriteInv /\ [WriteNext]_<<vars, local>> => [Next]_vars
<1> SUFFICES ASSUME WriteInv, [WriteNext]_<<vars, local>> PROVE [Next]_vars
  OBVIOUS
<1>1. CASE OtherTraffic
  BY <1>1 DEF OtherTraffic
<1>2. CASE \E offset \in Offsets, len \in 0 .. MaxLen : StartWrite(offset, len)
  BY <1>2 DEF StartWrite, vars
<1>3. CASE StartFlush
  BY <1>3 DEF StartFlush, vars
<1>4. ASSUME NEW c \in Calls, RefuseToSend(c) PROVE [Next]_vars
  BY <1>4 DEF RefuseToSend, vars
<1>5. ASSUME NEW c \in Calls, SpendWithoutSending(c) PROVE [Next]_vars
  BY <1>5, ChargeOfCall DEF SpendWithoutSending
<1>6. ASSUME NEW c \in Calls, SendChunk(c) PROVE [Next]_vars
  BY <1>6, ChargeOfCall DEF SendChunk
<1>7. ASSUME NEW c \in Calls, ReceiveFails(c) PROVE [Next]_vars
  BY <1>7 DEF ReceiveFails, vars
<1>8. ASSUME NEW c \in Calls, NEW credits \in 0 .. MaxGrant, Answer(c, credits)
      PROVE  [Next]_vars
  <2>1. Grant(credits) \/ LoseGrant(credits)
    BY <1>8 DEF Answer, WrongAnswer, AnswerPending, RefuseAnswer, AcceptWrite, AcceptFlush
  <2> QED BY <2>1 DEF Next
<1>9. ASSUME NEW c \in Calls, NEW n \in 0 .. MaxLen, ServerWrites(c, n) PROVE [Next]_vars
  BY <1>9 DEF ServerWrites, vars
<1>10. ASSUME NEW c \in Calls, ServerFlushes(c) PROVE [Next]_vars
  BY <1>10 DEF ServerFlushes, vars
<1>11. CASE UNCHANGED <<vars, local>>
  BY <1>11
<1> QED BY <1>1, <1>2, <1>3, <1>4, <1>5, <1>6, <1>7, <1>8, <1>9, <1>10, <1>11 DEF WriteNext
-----------------------------------------------------------------------------
\* Ending a call changes its result and nothing else of it.
LEMMA Ended ==
  ASSUME WriteTypes, NEW c \in Calls, NEW result \in {"ok", "failed"}, Finish(c, result)
  PROVE  /\ calls' \in [Calls -> CallRecord]
         /\ \A d \in Calls \ {c} : calls'[d] = calls[d]
         /\ calls'[c].result = result
         /\ calls'[c].op = calls[c].op /\ calls'[c].offset = calls[c].offset
         /\ calls'[c].len = calls[c].len /\ calls'[c].written = calls[c].written
<1>1. calls \in [Calls -> CallRecord] /\ calls' = [calls EXCEPT ![c].result = result]
  BY DEF WriteTypes, Finish
<1>2. \A d \in Calls \ {c} : calls'[d] = calls[d]
  BY <1>1
<1>3. calls'[c] = [calls[c] EXCEPT !.result = result]
  BY <1>1
<1>4. calls[c] \in CallRecord
  BY <1>1
<1>5. /\ calls'[c] \in CallRecord /\ calls'[c].result = result
      /\ calls'[c].op = calls[c].op /\ calls'[c].offset = calls[c].offset
      /\ calls'[c].len = calls[c].len /\ calls'[c].written = calls[c].written
  BY <1>3, <1>4 DEF CallRecord
<1>6. calls' \in [Calls -> CallRecord]
  <2>1. calls' = [d \in Calls |-> calls'[d]]
    BY <1>1
  <2>2. \A d \in Calls : calls'[d] \in CallRecord
    BY <1>1, <1>2, <1>5
  <2> QED BY <2>1, <2>2
<1> QED BY <1>2, <1>5, <1>6

\* A call that fails where it is, its request left behind, keeps the invariant.
LEMMA FailedInv ==
  ASSUME WriteInv, IInv', NEW c \in Calls, Running(c), Finish(c, "failed"),
         UNCHANGED <<limits, current, req, applied, durable>>
  PROVE  WriteInv'
<1>1. WriteTypes /\ Accounted(c) /\ Continued(c) /\ InPlace(c) /\ Covered(c)
  BY DEF WriteInv
<1>2. /\ calls' \in [Calls -> CallRecord]
      /\ \A d \in Calls \ {c} : calls'[d] = calls[d]
      /\ calls'[c].result = "failed"
      /\ calls'[c].op = calls[c].op /\ calls'[c].offset = calls[c].offset
      /\ calls'[c].len = calls[c].len /\ calls'[c].written = calls[c].written
  BY <1>1, Ended
<1>3. WriteTypes'
  BY <1>1, <1>2 DEF WriteTypes
<1>4. Accounted(c)'
  BY <1>1, <1>2, CallTypes DEF Accounted, Running
<1>5. Continued(c)' /\ InPlace(c)'
  BY <1>1, <1>2 DEF Continued, InPlace
<1>6. Covered(c)'
  <2>1. \A d \in 1 .. c - 1 : d # c /\ d \in Calls
    BY WriteLimits DEF Calls
  <2> QED BY <2>1, <1>1, <1>2 DEF Covered, Running
<1>7. current' >= current
  BY <1>1, CallTypes
<1> QED BY <1>2, <1>3, <1>4, <1>5, <1>6, <1>7, OneCall

\* A new call starts with nothing written and nothing sent.
LEMMA StartInv ==
  ASSUME WriteInv, IInv', NEW c \in Calls, c = current + 1, current' = c,
         NEW op \in {"write", "flush"}, NEW offset \in Nat, NEW len \in Nat,
         NEW result \in {"running", "ok", "failed"},
         op = "flush" => len = 0 /\ result # "ok",
         op = "write" => (len = 0 <=> result = "ok"),
         calls' = [calls EXCEPT ![c] =
           [op |-> op, offset |-> offset, len |-> len, written |-> 0, result |-> result]],
         UNCHANGED <<limits, req, applied, durable>>
  PROVE  WriteInv'
<1> DEFINE call == [op |-> op, offset |-> offset, len |-> len, written |-> 0, result |-> result]
<1>0. WriteTypes
  BY DEF WriteInv
<1>1. c \in Nat /\ current \in Nat /\ c > current /\ current' \in 0 .. MaxCalls
  BY <1>0, WriteLimits DEF WriteTypes, Calls
<1>2. call \in CallRecord
  BY DEF CallRecord
<1>3. calls'[c] = call /\ \A d \in Calls \ {c} : calls'[d] = calls[d]
  BY <1>0, <1>1 DEF WriteTypes
<1>4. WriteTypes'
  <2>1. calls' \in [Calls -> CallRecord]
    BY <1>0, <1>2 DEF WriteTypes
  <2> QED BY <2>1, <1>0, <1>1 DEF WriteTypes
<1>5. Accounted(c) /\ Continued(c) /\ InPlace(c) /\ calls[c].op = "none"
  BY <1>1 DEF WriteInv, Accounted
<1>6. /\ calls'[c].op = op /\ calls'[c].offset = offset /\ calls'[c].len = len
      /\ calls'[c].written = 0 /\ calls'[c].result = result
  BY <1>3
<1>7. /\ req[c].state = "none" /\ req[c].len = 0 /\ req[c].done = 0 /\ calls[c].written = 0
      /\ Len(applied[c]) = 0
  <2>1. calls[c].written \in Nat /\ calls[c].len = 0 /\ calls[c].written <= calls[c].len
    BY <1>0, <1>5, CallTypes DEF Accounted
  <2>2. req[c].state = "none"
    BY <1>5 DEF Accounted
  <2>3. req[c].len = 0 /\ req[c].done = 0 /\ Len(applied[c]) = calls[c].written + req[c].done
    BY <2>2, <1>5 DEF Continued
  <2> QED BY <2>1, <2>2, <2>3
<1>8. Accounted(c)'
  BY <1>1, <1>6, <1>7 DEF Accounted
<1>9. Continued(c)'
  BY <1>6, <1>7 DEF Continued
<1>10. InPlace(c)'
  BY <1>7 DEF InPlace
<1>11. Covered(c)'
  BY <1>6, <1>7 DEF Covered
<1>12. current' >= current /\ c >= current
  BY <1>1
<1> QED BY <1>1, <1>3, <1>4, <1>8, <1>9, <1>10, <1>11, <1>12, OneCall
\* A request leaves for the next bytes of the data, or for a flush; the call may
\* already be lost when it does.
LEMMA SendInv ==
  ASSUME WriteInv, IInv', NEW c \in Calls, Running(c), ~CannotSend(c),
         req[c].state = "none", req' = [req EXCEPT ![c] = NextRequest(c)],
         UNCHANGED calls \/ Finish(c, "failed"),
         UNCHANGED <<limits, current, applied, durable>>
  PROVE  WriteInv'
<1> DEFINE new == NextRequest(c)
<1>1. WriteTypes /\ Accounted(c) /\ Continued(c) /\ InPlace(c)
  BY DEF WriteInv
<1>2. /\ calls' \in [Calls -> CallRecord]
      /\ \A d \in Calls \ {c} : calls'[d] = calls[d]
      /\ calls'[c].result \in {"running", "failed"}
      /\ calls'[c].op = calls[c].op /\ calls'[c].offset = calls[c].offset
      /\ calls'[c].len = calls[c].len /\ calls'[c].written = calls[c].written
  <2>1. CASE UNCHANGED calls
    BY <2>1, <1>1 DEF WriteTypes, Running
  <2>2. CASE Finish(c, "failed")
    BY <2>2, <1>1, Ended
  <2> QED BY <2>1, <2>2
<1>3. /\ calls[c].op \in {"write", "flush"} /\ calls[c].written \in Nat
      /\ calls[c].len \in Nat /\ calls[c].offset \in Nat
  BY <1>1, CallTypes DEF Accounted, Running
<1>4. /\ new \in RequestRecord /\ new.state = "queued" /\ new.done = 0
      /\ calls[c].op = "flush" => new.len = 0
      /\ calls[c].op = "write" => /\ new.from = calls[c].written
                                  /\ new.pos = calls[c].offset + calls[c].written
                                  /\ calls[c].written + new.len <= calls[c].len
  <2>1. CASE calls[c].op = "flush"
    BY <2>1 DEF NextRequest, Queued, RequestRecord
  <2>2. CASE calls[c].op = "write"
    <3>1. ChunkLen(c) \in Nat /\ calls[c].written + ChunkLen(c) <= calls[c].len
      BY <2>2, ChunkInData
    <3>2. new = [state |-> "queued", from |-> calls[c].written,
                 pos |-> calls[c].offset + calls[c].written, len |-> ChunkLen(c), done |-> 0]
      BY <2>2 DEF NextRequest, Queued
    <3> QED BY <3>1, <3>2, <2>2, <1>3 DEF RequestRecord
  <2> QED BY <2>1, <2>2, <1>3
<1> HIDE DEF new
<1>5. req'[c] = new /\ \A d \in Calls \ {c} : req'[d] = req[d]
  BY <1>1 DEF WriteTypes, new
<1>6. WriteTypes'
  <2>1. req' \in [Calls -> RequestRecord]
    BY <1>1, <1>4 DEF WriteTypes, new
  <2> QED BY <2>1, <1>1, <1>2 DEF WriteTypes
<1>7. new.len \in Nat /\ req[c].done = 0 /\ Len(applied[c]) = calls[c].written
  <2>1. new.len \in Nat
    BY <1>4 DEF RequestRecord
  <2>2. req[c].done = 0 /\ Len(applied[c]) = calls[c].written + req[c].done
    BY <1>1 DEF Continued
  <2> QED BY <2>1, <2>2, <1>3
<1>8. Accounted(c)'
  BY <1>1, <1>2, <1>3, <1>4, <1>5 DEF Accounted, Running
<1>9. Continued(c)'
  BY <1>2, <1>3, <1>4, <1>5, <1>7 DEF Continued
<1>10. InPlace(c)'
  BY <1>1, <1>2 DEF InPlace
<1>11. Covered(c)'
  BY <1>2, <1>4, <1>5 DEF Covered
<1>12. current' >= current
  BY <1>1, CallTypes
<1> QED BY <1>2, <1>5, <1>6, <1>8, <1>9, <1>10, <1>11, <1>12, OneCall

\* A final answer moves a write on by the server's count, or ends a flush.
LEMMA AcceptInv ==
  ASSUME WriteInv, IInv', NEW c \in Calls, Running(c), req[c].state = "done",
         NEW written \in Nat, written = calls[c].written + req[c].done,
         written = calls[c].len => calls'[c].result = "ok",
         calls[c].op = "write" /\ written # calls[c].len => calls'[c].result = "running",
         calls' \in [Calls -> CallRecord],
         \A d \in Calls \ {c} : calls'[d] = calls[d],
         calls'[c].op = calls[c].op, calls'[c].offset = calls[c].offset,
         calls'[c].len = calls[c].len, calls'[c].written = written,
         req' = [req EXCEPT ![c] = NoRequest],
         UNCHANGED <<limits, current, applied, durable>>
  PROVE  WriteInv'
<1>1. WriteTypes /\ Accounted(c) /\ Continued(c) /\ InPlace(c) /\ Covered(c)
  BY DEF WriteInv
<1>2. /\ calls[c].op \in {"write", "flush"} /\ calls[c].written \in Nat
      /\ calls[c].len \in Nat /\ req[c].done \in Nat /\ req[c].len \in Nat
      /\ current \in Nat /\ c \in Nat
  BY <1>1, CallTypes DEF Accounted, Running
<1>3. written <= calls[c].len /\ Len(applied[c]) = written
  <2>1. CASE calls[c].op = "write"
    BY <2>1, <1>1, <1>2 DEF Continued
  <2>2. CASE calls[c].op = "flush"
    <3>1. calls[c].len = 0 /\ req[c].len = 0 /\ calls[c].written <= calls[c].len
      BY <2>2, <1>1 DEF Accounted
    <3>2. req[c].done <= req[c].len /\ Len(applied[c]) = calls[c].written + req[c].done
      BY <1>1 DEF Continued
    <3> QED BY <3>1, <3>2, <1>2
  <2> QED BY <2>1, <2>2, <1>2
<1>4. /\ NoRequest \in RequestRecord /\ NoRequest.state = "none"
      /\ NoRequest.len = 0 /\ NoRequest.done = 0
  BY DEF NoRequest, RequestRecord
<1>5. req'[c] = NoRequest /\ \A d \in Calls \ {c} : req'[d] = req[d]
  BY <1>1 DEF WriteTypes
<1>6. WriteTypes'
  <2>1. req' \in [Calls -> RequestRecord]
    BY <1>1, <1>4 DEF WriteTypes
  <2> QED BY <2>1, <1>1 DEF WriteTypes
<1>7. calls[c].op = "flush" => calls[c].len = 0 /\ written = calls[c].len
  BY <1>1, <1>2, <1>3 DEF Accounted
<1>8. calls'[c].result \in {"running", "ok"} /\ (calls'[c].result = "ok" => written = calls[c].len)
  BY <1>2, <1>7
<1>9. Accounted(c)'
  BY <1>2, <1>3, <1>4, <1>5, <1>7, <1>8 DEF Accounted, Running
<1>10. Continued(c)'
  BY <1>3, <1>4, <1>5 DEF Continued
<1>11. InPlace(c)'
  BY <1>1 DEF InPlace
<1>12. Covered(c)'
  <2>1. \A d \in 1 .. c - 1 : d # c /\ d \in Calls
    BY WriteLimits DEF Calls
  <2> QED BY <2>1, <1>1, <1>4, <1>5 DEF Covered
<1>13. current' >= current /\ c >= current
  BY <1>2 DEF Running
<1> QED BY <1>5, <1>6, <1>9, <1>10, <1>11, <1>12, <1>13, OneCall
\* The count of an accepted answer is what AcceptInv asks for.
LEMMA AcceptWriteInv ==
  ASSUME WriteInv, IInv', NEW c \in Calls, NEW credits, AcceptWrite(c, credits)
  PROVE  WriteInv'
<1> DEFINE written == calls[c].written + req[c].done
           result == IF written = calls[c].len THEN "ok" ELSE "running"
<1>1. WriteTypes
  BY DEF WriteInv
<1>2. calls[c] \in CallRecord /\ written \in Nat
  BY <1>1, CallTypes
<1>3. /\ Running(c) /\ calls[c].op = "write" /\ req[c].state = "done"
      /\ calls' = [calls EXCEPT ![c].written = written, ![c].result = result]
      /\ req' = [req EXCEPT ![c] = NoRequest]
      /\ UNCHANGED <<limits, current, applied, durable>>
  BY DEF AcceptWrite, Waiting
<1>4. result \in {"running", "ok"}
  OBVIOUS
<1>5. (written = calls[c].len => result = "ok") /\ (written # calls[c].len => result = "running")
  OBVIOUS
<1> HIDE DEF result
<1>6. \A d \in Calls \ {c} : calls'[d] = calls[d]
  BY <1>1, <1>3 DEF WriteTypes
<1>7. calls'[c] = [calls[c] EXCEPT !.written = written, !.result = result]
  BY <1>1, <1>3 DEF WriteTypes
<1>8. /\ calls'[c] \in CallRecord /\ calls'[c].result = result /\ calls'[c].written = written
      /\ calls'[c].op = calls[c].op /\ calls'[c].offset = calls[c].offset
      /\ calls'[c].len = calls[c].len
  BY <1>2, <1>4, <1>7 DEF CallRecord
<1>9. calls' \in [Calls -> CallRecord]
  <2>1. calls' = [d \in Calls |-> calls'[d]]
    BY <1>1, <1>3 DEF WriteTypes
  <2>2. \A d \in Calls : calls'[d] \in CallRecord
    BY <1>1, <1>6, <1>8 DEF WriteTypes
  <2> QED BY <2>1, <2>2
<1>10. \E n \in Nat : n = written
  BY <1>2
<1>11. PICK n \in Nat : n = written
  BY <1>10
<1>12. /\ n = calls[c].written + req[c].done /\ calls'[c].written = n
       /\ n = calls[c].len => calls'[c].result = "ok"
       /\ calls[c].op = "write" /\ n # calls[c].len => calls'[c].result = "running"
  BY <1>5, <1>8, <1>11
<1>13. Running(c) /\ req[c].state = "done" /\ req' = [req EXCEPT ![c] = NoRequest]
  BY <1>3
<1>14. UNCHANGED <<limits, current, applied, durable>>
  BY <1>3
<1>15. /\ calls'[c].op = calls[c].op /\ calls'[c].offset = calls[c].offset
       /\ calls'[c].len = calls[c].len
  BY <1>8
<1> HIDE DEF written
<1> QED BY <1>6, <1>9, <1>11, <1>12, <1>13, <1>14, <1>15, AcceptInv

\* So does the end of a flush.
LEMMA AcceptFlushInv ==
  ASSUME WriteInv, IInv', NEW c \in Calls, NEW credits, AcceptFlush(c, credits)
  PROVE  WriteInv'
<1>1. WriteTypes /\ Accounted(c) /\ Continued(c)
  BY DEF WriteInv
<1>2. /\ Running(c) /\ calls[c].op = "flush" /\ req[c].state = "done" /\ Finish(c, "ok")
      /\ req' = [req EXCEPT ![c] = NoRequest]
      /\ UNCHANGED <<limits, current, applied, durable>>
  BY DEF AcceptFlush, Waiting
<1>3. /\ calls' \in [Calls -> CallRecord]
      /\ \A d \in Calls \ {c} : calls'[d] = calls[d]
      /\ calls'[c].result = "ok"
      /\ calls'[c].op = calls[c].op /\ calls'[c].offset = calls[c].offset
      /\ calls'[c].len = calls[c].len /\ calls'[c].written = calls[c].written
  BY <1>1, <1>2, Ended
<1>4. calls[c].written \in Nat /\ req[c].done \in Nat /\ req[c].len \in Nat
  BY <1>1, CallTypes
<1>5. req[c].len = 0 /\ req[c].done <= req[c].len
  BY <1>1, <1>2 DEF Accounted, Continued
<1>6. calls[c].written = calls[c].written + req[c].done
  BY <1>4, <1>5
<1> QED BY <1>2, <1>3, <1>4, <1>6, AcceptInv

\* The server applies the first n bytes of a request, however late.
LEMMA ServerWritesInv ==
  ASSUME WriteInv, IInv', NEW c \in Calls, NEW n \in Nat, ServerWrites(c, n)
  PROVE  WriteInv'
<1> DEFINE piece == [k \in 1 .. n |-> <<req[c].from + k - 1, req[c].pos + k - 1>>]
<1>1. WriteTypes /\ Accounted(c) /\ Continued(c) /\ InPlace(c)
  BY DEF WriteInv
<1>2. /\ req[c].state = "queued" /\ calls[c].op = "write" /\ n <= req[c].len
      /\ applied' = [applied EXCEPT ![c] = applied[c] \o piece]
      /\ req' = [req EXCEPT ![c].state = "done", ![c].done = n]
      /\ UNCHANGED <<limits, current, calls, durable>>
  BY DEF ServerWrites
<1>3. /\ req[c] \in RequestRecord /\ applied[c] \in Seq(Nat \X Nat)
      /\ calls[c].written \in Nat /\ calls[c].offset \in Nat /\ Len(applied[c]) \in Nat
      /\ req[c].from \in Nat /\ req[c].pos \in Nat /\ current \in Nat
  BY <1>1, CallTypes
<1>4. /\ req[c].from = calls[c].written /\ req[c].pos = calls[c].offset + calls[c].written
      /\ Len(applied[c]) = calls[c].written
  BY <1>1, <1>2, <1>3 DEF Continued
<1>5. piece \in Seq(Nat \X Nat) /\ Len(piece) = n
  <2>1. \A k \in 1 .. n : <<req[c].from + k - 1, req[c].pos + k - 1>> \in Nat \X Nat
    BY <1>3
  <2>2. piece \in [1 .. n -> Nat \X Nat]
    BY <2>1
  <2>3. piece \in Seq(Nat \X Nat)
    BY <2>2
  <2>4. DOMAIN piece = 1 .. n
    OBVIOUS
  <2> QED BY <2>3, <2>4, LenProperties
<1>6. \A k \in 1 .. n : piece[k] = <<req[c].from + k - 1, req[c].pos + k - 1>>
  OBVIOUS
<1> HIDE DEF piece
<1>7. /\ applied[c] \o piece \in Seq(Nat \X Nat)
      /\ Len(applied[c] \o piece) = Len(applied[c]) + n
      /\ \A k \in 1 .. Len(applied[c]) + n :
           (applied[c] \o piece)[k] = IF k <= Len(applied[c]) THEN applied[c][k]
                                      ELSE piece[k - Len(applied[c])]
  BY <1>3, <1>5, ConcatProperties
<1>8. /\ applied' \in [Calls -> Seq(Nat \X Nat)] /\ applied'[c] = applied[c] \o piece
      /\ \A d \in Calls \ {c} : applied'[d] = applied[d]
  BY <1>1, <1>2, <1>7 DEF WriteTypes
<1>9. /\ req'[c] = [req[c] EXCEPT !.state = "done", !.done = n]
      /\ \A d \in Calls \ {c} : req'[d] = req[d]
  BY <1>1, <1>2 DEF WriteTypes
<1>10. /\ req'[c] \in RequestRecord /\ req'[c].state = "done" /\ req'[c].done = n
       /\ req'[c].from = req[c].from /\ req'[c].pos = req[c].pos /\ req'[c].len = req[c].len
  BY <1>3, <1>9 DEF RequestRecord
<1>11. WriteTypes'
  <2>1. req' = [d \in Calls |-> req'[d]]
    BY <1>1, <1>2 DEF WriteTypes
  <2>2. \A d \in Calls : req'[d] \in RequestRecord
    BY <1>1, <1>9, <1>10 DEF WriteTypes
  <2>3. req' \in [Calls -> RequestRecord]
    BY <2>1, <2>2
  <2> QED BY <2>3, <1>1, <1>2, <1>8 DEF WriteTypes
<1>12. Accounted(c)'
  BY <1>1, <1>2, <1>10 DEF Accounted
<1>13. Continued(c)'
  BY <1>1, <1>2, <1>3, <1>4, <1>7, <1>8, <1>10 DEF Continued
<1>14. InPlace(c)'
  <2> DEFINE whole == applied[c] \o piece
             m == Len(applied[c])
  <2>1. /\ Len(whole) = m + n /\ m \in Nat /\ m = calls[c].written
        /\ \A k \in 1 .. m + n : whole[k] = IF k <= m THEN applied[c][k] ELSE piece[k - m]
        /\ \A k \in 1 .. m : applied[c][k] = <<k - 1, calls[c].offset + k - 1>>
    BY <1>1, <1>3, <1>4, <1>7 DEF InPlace
  <2>2. \A k \in 1 .. n : piece[k] = <<m + k - 1, calls[c].offset + m + k - 1>>
    BY <1>4, <1>6
  <2> SUFFICES ASSUME NEW k \in 1 .. m + n
               PROVE  whole[k] = <<k - 1, calls[c].offset + k - 1>>
    BY <1>2, <1>7, <1>8 DEF InPlace
  <2> HIDE DEF whole, m
  <2>3. CASE k <= m
    <3>1. k \in 1 .. m
      BY <2>1, <2>3
    <3>2. whole[k] = applied[c][k]
      BY <2>1, <2>3
    <3>3. applied[c][k] = <<k - 1, calls[c].offset + k - 1>>
      BY <2>1, <3>1, Zenon
    <3> QED BY <3>2, <3>3
  <2>4. CASE k > m
    <3>1. k - m \in 1 .. n /\ whole[k] = piece[k - m]
      BY <2>1, <2>4
    <3>2. piece[k - m] = <<m + (k - m) - 1, calls[c].offset + m + (k - m) - 1>>
      BY <2>2, <3>1
    <3>3. m \in Int /\ k \in Int /\ calls[c].offset \in Int
      BY <2>1, <1>3
    <3>4. m + (k - m) - 1 = k - 1 /\ calls[c].offset + m + (k - m) - 1 = calls[c].offset + k - 1
      BY <3>3
    <3> QED BY <3>1, <3>2, <3>4
  <2> QED BY <2>1, <2>3, <2>4
<1>15. Covered(c)'
  BY <1>2 DEF Covered
<1>16. current' >= current
  BY <1>2, <1>3
<1> QED BY <1>2, <1>8, <1>9, <1>11, <1>12, <1>13, <1>14, <1>15, <1>16, OneCall
\* A flush puts on the disk all that the server had applied by then.
LEMMA ServerFlushesInv ==
  ASSUME WriteInv, IInv', NEW c \in Calls, ServerFlushes(c)
  PROVE  WriteInv'
<1>1. /\ WriteTypes
      /\ \A d \in Calls : Accounted(d) /\ Continued(d) /\ InPlace(d) /\ Covered(d)
  BY DEF WriteInv
<1>2. /\ req[c].state = "queued" /\ calls[c].op = "flush"
      /\ durable' = [d \in Calls |-> Len(applied[d])]
      /\ req' = [req EXCEPT ![c].state = "done"]
      /\ UNCHANGED <<limits, current, calls, applied>>
  BY DEF ServerFlushes
<1>3. req[c] \in RequestRecord
  BY <1>1, CallTypes
<1>4. /\ req'[c] = [req[c] EXCEPT !.state = "done"]
      /\ \A d \in Calls \ {c} : req'[d] = req[d]
  BY <1>1, <1>2 DEF WriteTypes
<1>5. /\ req'[c] \in RequestRecord /\ req'[c].state = "done" /\ req'[c].done = req[c].done
      /\ req'[c].from = req[c].from /\ req'[c].pos = req[c].pos /\ req'[c].len = req[c].len
  BY <1>3, <1>4 DEF RequestRecord
<1>6. WriteTypes'
  <2>1. req' = [d \in Calls |-> req'[d]]
    BY <1>1, <1>2 DEF WriteTypes
  <2>2. \A d \in Calls : req'[d] \in RequestRecord
    BY <1>1, <1>4, <1>5 DEF WriteTypes
  <2>3. req' \in [Calls -> RequestRecord]
    BY <2>1, <2>2
  <2>4. durable' \in [Calls -> Nat]
    BY <1>1, <1>2, CallTypes
  <2> QED BY <2>3, <2>4, <1>1, <1>2 DEF WriteTypes
<1>7. \A d \in Calls : calls[d].written <= durable'[d]
  <2> SUFFICES ASSUME NEW d \in Calls PROVE calls[d].written <= Len(applied[d])
    BY <1>2
  <2>1. calls[d].written \in Nat /\ req[d].done \in Nat
    BY <1>1, CallTypes
  <2> QED BY <2>1, <1>1 DEF Continued
<1> SUFFICES ASSUME NEW d \in Calls
             PROVE  Accounted(d)' /\ Continued(d)' /\ InPlace(d)' /\ Covered(d)'
  BY <1>6 DEF WriteInv, Calls
<1>8. Covered(d)'
  <2>1. 1 .. d - 1 \subseteq Calls
    BY WriteLimits DEF Calls
  <2> QED BY <2>1, <1>2, <1>7 DEF Covered
<1>9. InPlace(d)'
  BY <1>1, <1>2 DEF InPlace
<1>10. CASE d = c
  <2>1. Accounted(d)'
    BY <1>1, <1>2, <1>5, <1>10 DEF Accounted
  <2>2. Continued(d)'
    <3>1. req[c].done = 0 /\ req[c].len = 0
      BY <1>1, <1>2 DEF Accounted, Continued
    <3> QED BY <3>1, <1>1, <1>2, <1>5, <1>10 DEF Continued
  <2> QED BY <2>1, <2>2, <1>8, <1>9
<1>11. CASE d # c
  BY <1>1, <1>2, <1>4, <1>8, <1>9, <1>11 DEF Accounted, Continued
<1> QED BY <1>10, <1>11

\* Steps that leave the calls alone.
LEMMA Unmoved ==
  ASSUME WriteInv, IInv', UNCHANGED local
  PROVE  WriteInv'
<1> USE DEF local
<1>1. WriteTypes'
  BY DEF WriteInv, WriteTypes
<1> SUFFICES ASSUME NEW c \in Calls
             PROVE  Accounted(c)' /\ Continued(c)' /\ InPlace(c)' /\ Covered(c)'
  BY <1>1 DEF WriteInv, Calls
<1> QED BY DEF WriteInv, Accounted, Continued, InPlace, Covered

-----------------------------------------------------------------------------
\* The invariant holds initially.
LEMMA WriteInitInv == WriteInit => WriteInv
<1> SUFFICES ASSUME WriteInit PROVE WriteInv
  OBVIOUS
<1>1. IInv
  BY InitInv DEF WriteInit
<1>2. /\ NoCall \in CallRecord /\ NoCall.op = "none" /\ NoCall.result = "none"
      /\ NoCall.len = 0 /\ NoCall.written = 0
  BY DEF NoCall, CallRecord
<1>3. /\ NoRequest \in RequestRecord /\ NoRequest.state = "none"
      /\ NoRequest.len = 0 /\ NoRequest.done = 0
  BY DEF NoRequest, RequestRecord
<1>4. <<>> \in Seq(Nat \X Nat) /\ Len(<<>>) = 0
  OBVIOUS
<1>5. /\ calls \in [Calls -> CallRecord] /\ req \in [Calls -> RequestRecord]
      /\ durable \in [Calls -> Nat]
  BY <1>2, <1>3 DEF WriteInit
<1>6. WriteTypes
  <2>1. applied \in [Calls -> Seq(Nat \X Nat)]
    BY <1>4 DEF WriteInit
  <2>2. current \in 0 .. MaxCalls
    BY WriteLimits DEF WriteInit
  <2> QED BY <2>1, <2>2, <1>5 DEF WriteTypes, WriteInit
<1> SUFFICES ASSUME NEW c \in Calls
             PROVE  Accounted(c) /\ Continued(c) /\ InPlace(c) /\ Covered(c)
  BY <1>1, <1>6 DEF WriteInv
<1>7. calls[c] = NoCall /\ req[c] = NoRequest /\ applied[c] = <<>>
  BY DEF WriteInit
<1>8. Accounted(c) /\ Continued(c)
  BY <1>2, <1>3, <1>4, <1>7 DEF Accounted, Continued
<1>9. InPlace(c)
  BY <1>4, <1>7 DEF InPlace
<1>10. Covered(c)
  BY <1>2, <1>7 DEF Covered
<1> QED BY <1>8, <1>9, <1>10

\* Every step preserves it.
LEMMA WriteStepInv == WriteInv /\ [WriteNext]_<<vars, local>> => WriteInv'
<1> SUFFICES ASSUME WriteInv, [WriteNext]_<<vars, local>> PROVE WriteInv'
  OBVIOUS
<1>0. IInv' /\ WriteTypes
  BY CreditStep, StepInv DEF WriteInv
<1>1. CASE OtherTraffic
  BY <1>0, <1>1, Unmoved DEF OtherTraffic
<1>2. ASSUME NEW offset \in Offsets, NEW len \in 0 .. MaxLen, StartWrite(offset, len)
      PROVE  WriteInv'
  <2> DEFINE result == IF len = 0 THEN "ok" ELSE IF limits.encrypted THEN "failed" ELSE "running"
  <2>1. offset \in Nat /\ len \in Nat
    BY WriteLimits
  <2>2. PICK c \in Calls : c = current + 1
    BY <1>0, <1>2, WriteLimits DEF StartWrite, WriteTypes, Calls
  <2>3. PICK r \in {"running", "ok", "failed"} : r = result /\ (len = 0 <=> r = "ok")
    OBVIOUS
  <2>4. /\ current' = c /\ UNCHANGED <<limits, req, applied, durable>>
        /\ calls' = [calls EXCEPT ![c] =
             [op |-> "write", offset |-> offset, len |-> len, written |-> 0, result |-> r]]
    BY <1>2, <2>2, <2>3 DEF StartWrite
  <2> HIDE DEF result
  <2> QED BY <1>0, <2>1, <2>2, <2>3, <2>4, StartInv
<1>3. CASE StartFlush
  <2> DEFINE result == IF limits.encrypted THEN "failed" ELSE "running"
  <2>1. PICK c \in Calls : c = current + 1
    BY <1>0, <1>3, WriteLimits DEF StartFlush, WriteTypes, Calls
  <2>2. PICK r \in {"running", "failed"} : r = result
    OBVIOUS
  <2>3. /\ current' = c /\ UNCHANGED <<limits, req, applied, durable>>
        /\ calls' = [calls EXCEPT ![c] =
             [op |-> "flush", offset |-> 0, len |-> 0, written |-> 0, result |-> r]]
    BY <1>3, <2>1, <2>2 DEF StartFlush
  <2> HIDE DEF result
  <2> QED BY <1>0, <2>1, <2>2, <2>3, StartInv
<1>4. ASSUME NEW c \in Calls, RefuseToSend(c) PROVE WriteInv'
  BY <1>0, <1>4, FailedInv DEF RefuseToSend
<1>5. ASSUME NEW c \in Calls, SpendWithoutSending(c) PROVE WriteInv'
  BY <1>0, <1>5, FailedInv DEF SpendWithoutSending
<1>6. ASSUME NEW c \in Calls, SendChunk(c) PROVE WriteInv'
  <2>1. CASE req' = [req EXCEPT ![c] = NextRequest(c)]
    BY <1>0, <1>6, <2>1, SendInv DEF SendChunk
  <2>2. CASE Finish(c, "failed") /\ UNCHANGED req
    BY <1>0, <1>6, <2>2, FailedInv DEF SendChunk
  <2> QED BY <1>6, <2>1, <2>2 DEF SendChunk
<1>7. ASSUME NEW c \in Calls, ReceiveFails(c) PROVE WriteInv'
  BY <1>0, <1>7, FailedInv DEF ReceiveFails, Waiting
<1>8. ASSUME NEW c \in Calls, NEW credits \in 0 .. MaxGrant, Answer(c, credits)
      PROVE  WriteInv'
  <2>1. CASE WrongAnswer(c, credits)
    BY <1>0, <2>1, FailedInv DEF WrongAnswer, Waiting
  <2>2. CASE AnswerPending(c, credits)
    <3>1. CASE UNCHANGED calls
      BY <1>0, <2>2, <3>1, Unmoved DEF AnswerPending, local
    <3>2. CASE Finish(c, "failed")
      BY <1>0, <2>2, <3>2, FailedInv DEF AnswerPending, Waiting
    <3> QED BY <2>2, <3>1, <3>2 DEF AnswerPending
  <2>3. CASE RefuseAnswer(c, credits)
    BY <1>0, <2>3, FailedInv DEF RefuseAnswer, Waiting
  <2>4. CASE AcceptWrite(c, credits)
    BY <1>0, <2>4, AcceptWriteInv
  <2>5. CASE AcceptFlush(c, credits)
    BY <1>0, <2>5, AcceptFlushInv
  <2> QED BY <1>8, <2>1, <2>2, <2>3, <2>4, <2>5 DEF Answer
<1>9. ASSUME NEW c \in Calls, NEW n \in 0 .. MaxLen, ServerWrites(c, n) PROVE WriteInv'
  <2>1. n \in Nat
    BY WriteLimits
  <2> QED BY <1>0, <1>9, <2>1, ServerWritesInv
<1>10. ASSUME NEW c \in Calls, ServerFlushes(c) PROVE WriteInv'
  BY <1>0, <1>10, ServerFlushesInv
<1>11. CASE UNCHANGED <<vars, local>>
  BY <1>0, <1>11, Unmoved
<1> QED BY <1>1, <1>2, <1>3, <1>4, <1>5, <1>6, <1>7, <1>8, <1>9, <1>10, <1>11 DEF WriteNext

\* It holds throughout.
LEMMA WriteInvAlways == WriteSpec => []WriteInv
  BY WriteInitInv, WriteStepInv, PTL DEF WriteSpec

-----------------------------------------------------------------------------
(***************************************************************************)
(* write_at and flush_file keep the protocol of the credit window whatever *)
(* becomes of their calls: chunked writing implements CreditWindow.        *)
(***************************************************************************)
THEOREM WriteImplementsCredits == WriteSpec => Spec
<1>1. WriteInit => Init
  BY DEF WriteInit
<1> QED BY <1>1, CreditStep, WriteInvAlways, PTL DEF WriteSpec, Spec

(***************************************************************************)
(* The credits write_at counts on are inside the server's window, for any  *)
(* sequence of chunks, answers and failures (write.rs: write_at).          *)
(***************************************************************************)
THEOREM WriteWithinWindow == WriteSpec => []WithinWindow
  BY WriteImplementsCredits, BudgetWithinWindow, PTL

(***************************************************************************)
(* The MessageIds of every chunk and flush are fresh and were granted.     *)
(***************************************************************************)
THEOREM WriteSpansGranted == WriteSpec => SpansGranted
  BY WriteImplementsCredits, FreshGrantedSpans, PTL

(***************************************************************************)
(* Whatever fails and however late the server works, it holds a prefix of  *)
(* the data of each call, in place and without repetition, and all of it   *)
(* when the call returned Ok (write.rs: write_at).                         *)
(***************************************************************************)
THEOREM WritePrefix == WriteSpec => []WrittenPrefix
<1>1. WriteInv => WrittenPrefix
  <2> SUFFICES ASSUME WriteInv, NEW c \in Calls
               PROVE  /\ \A k \in DOMAIN applied[c] :
                           applied[c][k] = <<k - 1, calls[c].offset + k - 1>>
                      /\ calls[c].written <= Len(applied[c])
                      /\ Len(applied[c]) <= calls[c].written + req[c].len
                      /\ calls[c].result = "ok" => Len(applied[c]) = calls[c].len
    BY DEF WrittenPrefix
  <2>1. WriteTypes /\ Accounted(c) /\ Continued(c) /\ InPlace(c)
    BY DEF WriteInv
  <2>2. /\ applied[c] \in Seq(Nat \X Nat) /\ calls[c].written \in Nat
        /\ req[c].done \in Nat /\ req[c].len \in Nat
    BY <2>1, CallTypes
  <2>3. DOMAIN applied[c] = 1 .. Len(applied[c])
    BY <2>2
  <2>4. Len(applied[c]) = calls[c].written + req[c].done /\ req[c].done <= req[c].len
    BY <2>1 DEF Continued
  <2>5. calls[c].result = "ok" => calls[c].written = calls[c].len /\ req[c].done = 0
    BY <2>1 DEF Accounted, Continued
  <2>6. calls[c].result = "ok" => Len(applied[c]) = calls[c].len
    BY <2>2, <2>4, <2>5
  <2>7. calls[c].written <= Len(applied[c]) /\ Len(applied[c]) <= calls[c].written + req[c].len
    BY <2>2, <2>4
  <2>8. \A k \in DOMAIN applied[c] : applied[c][k] = <<k - 1, calls[c].offset + k - 1>>
    BY <2>1, <2>3 DEF InPlace
  <2> QED BY <2>6, <2>7, <2>8
<1> QED BY <1>1, WriteInvAlways, PTL

(***************************************************************************)
(* A flush that returned Ok has made every earlier acknowledged byte       *)
(* durable, also after writes that failed half-way (flush.rs: flush_file). *)
(***************************************************************************)
THEOREM FlushCovers == WriteSpec => []FlushDurable
<1>1. WriteInv => FlushDurable
  BY DEF WriteInv, Covered, FlushDurable
<1> QED BY <1>1, WriteInvAlways, PTL
=============================================================================
