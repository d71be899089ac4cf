------------------------------ MODULE WriteAt -------------------------------
(***************************************************************************)
(* Chunked WRITE and FLUSH on the credit window of their connection        *)
(* (crates/smb-client/src/write.rs, flush.rs).  write_at cuts its data in  *)
(* chunks that the negotiated MaxWriteSize and the credits of the moment   *)
(* allow, waits for each answer and goes on where the server's count says. *)
(* Whatever goes wrong ends the call and nothing is sent again, while the  *)
(* server may still apply the chunk that was left behind.  Every step that *)
(* spends or earns credits is a step of CreditWindow.                      *)
(***************************************************************************)
EXTENDS CreditWindow, Sequences

CONSTANTS
  Unit,            \* CREDIT_UNIT_BYTES
  MaxWriteSizes,   \* the values of MaxWriteSize a server may negotiate
  MaxOffset,       \* u64::MAX, where checked_add fails
  Offsets,         \* bound: the offsets written at
  MaxLen,          \* bound: the longest data of a call
  MaxCalls         \* bound: the calls made on the connection

ASSUME WriteLimits ==
  /\ Unit \in Nat \ {0}
  /\ MaxWriteSizes \subseteq Nat
  /\ MaxOffset \in Nat
  /\ Offsets \subseteq 0 .. MaxOffset
  /\ MaxLen \in Nat
  /\ MaxCalls \in Nat

VARIABLES
  limits,    \* what was negotiated: multi-credit, MaxWriteSize, encryption
  current,   \* the number of the latest call
  calls,     \* op, offset, len, written and result of every call
  req,       \* the WRITE or FLUSH of a call the client has no answer to
  applied,   \* <<index in the data, file offset>> of the bytes the server wrote
  durable    \* how many of them had reached the disk at the last FLUSH

local == <<limits, current, calls, req, applied, durable>>

Calls == 1 .. MaxCalls

NoCall == [op |-> "none", offset |-> 0, len |-> 0, written |-> 0, result |-> "none"]

\* No request, or the data bytes from, from + 1, ... for the file at pos; the
\* server has it "queued" or is "done" with the first `done` bytes of it.
NoRequest == [state |-> "none", from |-> 0, pos |-> 0, len |-> 0, done |-> 0]

Queued(from, pos, len) ==
  [state |-> "queued", from |-> from, pos |-> pos, len |-> len, done |-> 0]

Idle == \A c \in Calls : calls[c].result # "running"

Running(c) == current = c /\ calls[c].result = "running"

Waiting(c) == Running(c) /\ req[c].state # "none"

Finish(c, result) == calls' = [calls EXCEPT ![c].result = result]

-----------------------------------------------------------------------------
\* The pure parts of write.rs.
Least(a, b) == IF a <= b THEN a ELSE b

CreditLimitedPayload ==
  IF limits.multi THEN available * Unit ELSE IF available > 0 THEN Unit ELSE 0

WriteCreditCharge(len) == IF limits.multi THEN (len - 1) \div Unit + 1 ELSE 0

ChunkLen(c) ==
  Least(calls[c].len - calls[c].written, Least(limits.max, CreditLimitedPayload))

\* single_request_credit_charge, what a FLUSH costs
FlushCharge == IF limits.multi THEN 1 ELSE 0

-----------------------------------------------------------------------------
\* Mutants: the answer's count is ignored, a failed WRITE is sent once more, an
\* interim answer to a FLUSH is taken for the final one.
AcceptWriteWhole(c, credits) ==
  /\ Waiting(c) /\ calls[c].op = "write"
  /\ req[c].state = "done" /\ req[c].done > 0
  /\ Grant(credits) /\ available + credits <= MaxAvailable
  /\ LET written == calls[c].written + req[c].len IN
     calls' = [calls EXCEPT ![c].written = written,
                 ![c].result = IF written = calls[c].len THEN "ok" ELSE "running"]
  /\ req' = [req EXCEPT ![c] = NoRequest]
  /\ UNCHANGED <<limits, current, applied, durable>>

ReceiveFailsAndRetries(c) ==
  /\ Waiting(c)
  /\ req' = [req EXCEPT ![c].state = "queued"]
  /\ UNCHANGED <<vars, calls, limits, current, applied, durable>>

AnswerPendingFinal(c, credits) ==
  /\ Waiting(c) /\ Grant(credits)
  /\ Finish(c, IF calls[c].op = "flush" THEN "ok" ELSE "running")
  /\ UNCHANGED <<limits, current, req, applied, durable>>

-----------------------------------------------------------------------------
WriteInit ==
  /\ Init
  /\ limits \in [multi : BOOLEAN, max : MaxWriteSizes, encrypted : BOOLEAN]
  /\ current = 0
  /\ calls = [c \in Calls |-> NoCall]
  /\ req = [c \in Calls |-> NoRequest]
  /\ applied = [c \in Calls |-> <<>>]
  /\ durable = [c \in Calls |-> 0]

\* Between two calls the connection is used by others: NEGOTIATE at first, then
\* CREATE, QUERY_INFO, CLOSE and the rest.
OtherTraffic ==
  /\ Idle
  /\ Next
  /\ UNCHANGED local

\* The checks of write_at before its loop.  Empty data never looks at the session.
StartWrite(offset, len) ==
  /\ Idle /\ current < MaxCalls
  /\ current' = current + 1
  /\ calls' = [calls EXCEPT ![current + 1] =
       [op |-> "write", offset |-> offset, len |-> len, written |-> 0,
        result |-> IF len = 0 THEN "ok"
                   ELSE IF limits.encrypted THEN "failed" ELSE "running"]]
  /\ UNCHANGED <<vars, limits, req, applied, durable>>

StartFlush ==
  /\ Idle /\ current < MaxCalls
  /\ current' = current + 1
  /\ calls' = [calls EXCEPT ![current + 1] =
       [op |-> "flush", offset |-> 0, len |-> 0, written |-> 0,
        result |-> IF limits.encrypted THEN "failed" ELSE "running"]]
  /\ UNCHANGED <<vars, limits, req, applied, durable>>

\* write_limits, available_write_credits, the u16 charge and, for a FLUSH,
\* reserve_credits refuse before anything is spent.
CannotSend(c) ==
  \/ available < 1
  \/ calls[c].op = "write" /\ (limits.max = 0 \/ WriteCreditCharge(ChunkLen(c)) > MaxCharge)

RefuseToSend(c) ==
  /\ Running(c) /\ req[c].state = "none"
  /\ CannotSend(c)
  /\ Finish(c, "failed")
  /\ UNCHANGED <<vars, limits, current, req, applied, durable>>

Charge(c) ==
  IF calls[c].op = "flush" THEN FlushCharge ELSE WriteCreditCharge(ChunkLen(c))

\* The credits are spent before the ids run out or the offset overflows.
NotSendable(c) ==
  \/ next' = next
  \/ calls[c].op = "write" /\ calls[c].offset + calls[c].written > MaxOffset

SpendWithoutSending(c) ==
  /\ Running(c) /\ req[c].state = "none"
  /\ ~CannotSend(c)
  /\ Request(Charge(c))
  /\ NotSendable(c)
  /\ Finish(c, "failed")
  /\ UNCHANGED <<limits, current, req, applied, durable>>

\* The request of the next chunk: data[written .. written + chunk_len] at
\* offset + written, or the FLUSH.
NextRequest(c) ==
  IF calls[c].op = "flush" THEN Queued(0, 0, 0)
  ELSE Queued(calls[c].written, calls[c].offset + calls[c].written, ChunkLen(c))

\* send_message: it succeeds, or fails with the request on the server or not.
SendChunk(c) ==
  /\ Running(c) /\ req[c].state = "none"
  /\ ~CannotSend(c)
  /\ Request(Charge(c))
  /\ ~NotSendable(c)
  /\ \/ req' = [req EXCEPT ![c] = NextRequest(c)] /\ UNCHANGED calls
     \/ req' = [req EXCEPT ![c] = NextRequest(c)] /\ Finish(c, "failed")
     \/ Finish(c, "failed") /\ UNCHANGED req
  /\ UNCHANGED <<limits, current, applied, durable>>

-----------------------------------------------------------------------------
(***************************************************************************)
(* The server works on a request when it likes, also long after the client *)
(* has given up; it may stop short, and then says so.                      *)
(***************************************************************************)
ServerWrites(c, n) ==
  /\ req[c].state = "queued" /\ calls[c].op = "write" /\ n <= req[c].len
  /\ applied' = [applied EXCEPT ![c] =
       @ \o [k \in 1 .. n |-> <<req[c].from + k - 1, req[c].pos + k - 1>>]]
  /\ req' = [req EXCEPT ![c].state = "done", ![c].done = n]
  /\ UNCHANGED <<vars, limits, current, calls, durable>>

ServerFlushes(c) ==
  /\ req[c].state = "queued" /\ calls[c].op = "flush"
  /\ durable' = [d \in Calls |-> Len(applied[d])]
  /\ req' = [req EXCEPT ![c].state = "done"]
  /\ UNCHANGED <<vars, limits, current, calls, applied>>

-----------------------------------------------------------------------------
\* receive_message fails, or what it returns is no header or not the answer to
\* this request (a late answer to an abandoned one): no credits are taken.
ReceiveFails(c) ==
  /\ Waiting(c)
  /\ Finish(c, "failed")
  /\ UNCHANGED <<vars, limits, current, req, applied, durable>>

WrongAnswer(c, credits) ==
  /\ Waiting(c) /\ LoseGrant(credits)
  /\ Finish(c, "failed")
  /\ UNCHANGED <<limits, current, req, applied, durable>>

\* STATUS_PENDING: the credits are taken and the loop goes on.
AnswerPending(c, credits) ==
  /\ Waiting(c) /\ Grant(credits)
  /\ IF available + credits <= MaxAvailable
       THEN UNCHANGED calls ELSE Finish(c, "failed")
  /\ UNCHANGED <<limits, current, req, applied, durable>>

\* A final answer that is not signed as it must be, has an error status, does
\* not decode, or counts no byte or more than were sent.
RefuseAnswer(c, credits) ==
  /\ Waiting(c) /\ Grant(credits)
  /\ Finish(c, "failed")
  /\ UNCHANGED <<limits, current, req, applied, durable>>

AcceptWrite(c, credits) ==
  /\ Waiting(c) /\ calls[c].op = "write"
  /\ req[c].state = "done" /\ req[c].done > 0
  /\ Grant(credits) /\ available + credits <= MaxAvailable
  /\ LET written == calls[c].written + req[c].done IN
     calls' = [calls EXCEPT ![c].written = written,
                 ![c].result = IF written = calls[c].len THEN "ok" ELSE "running"]
  /\ req' = [req EXCEPT ![c] = NoRequest]
  /\ UNCHANGED <<limits, current, applied, durable>>

AcceptFlush(c, credits) ==
  /\ Waiting(c) /\ calls[c].op = "flush" /\ req[c].state = "done"
  /\ Grant(credits) /\ available + credits <= MaxAvailable
  /\ Finish(c, "ok")
  /\ req' = [req EXCEPT ![c] = NoRequest]
  /\ UNCHANGED <<limits, current, applied, durable>>

Answer(c, credits) ==
  \/ WrongAnswer(c, credits) \/ AnswerPending(c, credits) \/ RefuseAnswer(c, credits)
  \/ AcceptWrite(c, credits) \/ AcceptFlush(c, credits)

WriteNext ==
  \/ OtherTraffic
  \/ \E offset \in Offsets, len \in 0 .. MaxLen : StartWrite(offset, len)
  \/ StartFlush
  \/ \E c \in Calls :
       \/ RefuseToSend(c) \/ SpendWithoutSending(c) \/ SendChunk(c) \/ ReceiveFails(c)
       \/ \E credits \in 0 .. MaxGrant : Answer(c, credits)
       \/ \E n \in 0 .. MaxLen : ServerWrites(c, n)
       \/ ServerFlushes(c)

WriteSpec == WriteInit /\ [][WriteNext]_<<vars, local>>

-----------------------------------------------------------------------------
(***************************************************************************)
(* No byte of a call is written twice or out of its place, and what a      *)
(* failed call leaves is a prefix of its data that ends in the one chunk   *)
(* whose answer is missing; Ok means that all of it was written (write.rs: *)
(* "Mutation requests are never replayed automatically after a transport   *)
(* error").  It needs every chunk to start where the last answer's count   *)
(* ends, also when the server writes late.                                 *)
(***************************************************************************)
WrittenPrefix ==
  \A c \in Calls :
    /\ \A k \in DOMAIN applied[c] : applied[c][k] = <<k - 1, calls[c].offset + k - 1>>
    /\ calls[c].written <= Len(applied[c])
    /\ Len(applied[c]) <= calls[c].written + req[c].len
    /\ calls[c].result = "ok" => Len(applied[c]) = calls[c].len

(***************************************************************************)
(* After a FLUSH that returned Ok every byte acknowledged before is on the *)
(* disk, those of earlier writes that failed half-way included             *)
(* (flush.rs: flush_file).                                                 *)
(***************************************************************************)
FlushDurable ==
  \A c \in Calls :
    calls[c].op = "flush" /\ calls[c].result = "ok" =>
      \A d \in 1 .. c - 1 : calls[d].written <= durable[d]
=============================================================================
