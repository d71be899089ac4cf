---------------------------- MODULE ReadPipeline ----------------------------
(***************************************************************************)
(* Positional READs on one SMB connection: read_at_with_options and        *)
(* read_at_pipelined_with_stats of crates/smb-client/src/read.rs, with the *)
(* asynchronous responses of async_response.rs.                            *)
(*                                                                         *)
(* The client is one task.  Each turn of its loop sends READs while the    *)
(* credits, the in-flight limit and the range allow it, then takes the     *)
(* next response, whichever request it answers.  The server is external:   *)
(* it answers in any order, with any grant, possibly after an interim      *)
(* STATUS_PENDING, and it may misbehave; `faulty` remembers that it did,   *)
(* or that the transport failed.  Calls follow each other on the same      *)
(* connection, so an answer that outlives its call meets a later one.      *)
(*                                                                         *)
(* Bytes are abstracted to the place in the file they come from: a slot of *)
(* `completed` is the range [off, len] its READ asked for and how many     *)
(* bytes it got.                                                           *)
(***************************************************************************)
EXTENDS Integers, Sequences, FiniteSets

CONSTANTS
  Multi,          \* NegotiatedParameters::supports_multi_credit
  Unit,           \* CREDIT_UNIT_BYTES
  MaxRead,        \* negotiated MaxReadSize, in bytes
  ChunkSize,      \* PipelinedReadOptions::chunk_size
  MaxInFlight,    \* PipelinedReadOptions::max_in_flight
  FileLen,        \* FileHandle::len
  Ranges,         \* the <<offset, length>> pairs callers ask for
  FirstId,        \* MessageId of the first READ on the connection
  InitialCredits, \* credits left when the file has been opened
  Grants,         \* CreditResponse values the server chooses from
  MaxAvailable,   \* u32::MAX
  MaxMessageId,   \* u64::MAX
  MaxWindow,      \* bound: the server grants no id past this one
  MaxCalls        \* bound: number of read calls

ASSUME ReadLimits ==
  /\ Multi \in BOOLEAN
  /\ Unit \in Nat \ {0}
  /\ MaxRead \in Nat \ {0}
  /\ ChunkSize \in Nat \ {0}
  /\ MaxInFlight \in Nat \ {0}
  /\ FileLen \in Nat
  /\ Ranges \subseteq Nat \X Nat
  /\ FirstId \in Nat \ {0}
  /\ Grants \subseteq Nat
  /\ 0 \in Grants
  /\ MaxAvailable \in Nat
  /\ InitialCredits \in 0 .. MaxAvailable
  /\ MaxMessageId \in Nat
  /\ FirstId <= MaxMessageId
  /\ MaxWindow \in Nat
  /\ MaxCalls \in Nat

VARIABLES
  available,      \* CreditManager::available
  next,           \* MessageIdAllocator::next
  window,         \* first MessageId the server has not granted
  phase,          \* "idle", or "reading" while a call runs
  call,           \* the running or last call: mode, offset, target
  scheduled,      \* scheduled_bytes
  outstanding,    \* OutstandingReads: MessageId -> pending read
  completed,      \* the output slots, by position
  short,          \* short_response_at, NoPosition while it is None
  failed,         \* first_server_error is set
  result,         \* how the last call returned
  calls,          \* calls made so far
  server,         \* external: requests without a final answer, by MessageId
  faulty          \* external: the server or the transport has misbehaved

credit == <<available, next>>
locals == <<call, scheduled, outstanding, completed, short, failed>>
vars == <<credit, window, phase, locals, result, calls, server, faulty>>

NotYet == -1      \* the slot is still None
NoPosition == 0
Modes == {"sequential", "pipelined"}

\* AsyncIds are only ever compared within one request, so three of them tell
\* everything apart: none (zero), the one the server gave it, another one.
AsyncIds == 0 .. 2
AssignedAsyncId == 1

-----------------------------------------------------------------------------
(* Credits (read.rs:547-570, credits.rs).                                  *)

CeilUnits(length) == (length - 1) \div Unit + 1

ReadCreditCharge(length) == IF Multi THEN CeilUnits(length) ELSE 0

LogicalCharge(charge) == IF charge = 0 THEN 1 ELSE charge

CreditLimitedPayload(credits) ==
  IF Multi THEN credits * Unit ELSE IF credits > 0 THEN Unit ELSE 0

Least(a, b) == IF a <= b THEN a ELSE b

-----------------------------------------------------------------------------
(* The scheduler.  A sequential read is a pipeline of depth one whose chunk *)
(* only the negotiated size and the credits limit.                          *)

InFlightLimit == IF call.mode = "pipelined" THEN MaxInFlight ELSE 1

ChunkLimit ==
  IF call.mode = "pipelined" THEN Least(ChunkSize, MaxRead) ELSE MaxRead

ChunkLen ==
  Least(call.target - scheduled,
        Least(ChunkLimit, CreditLimitedPayload(available)))

CanSchedule ==
  /\ ~failed
  /\ short = NoPosition
  /\ Cardinality(DOMAIN outstanding) < InFlightLimit
  /\ scheduled < call.target
  /\ available > 0

\* The locals of a call are dropped when it returns; what it received stays
\* visible here as its result.
Return(kind) ==
  /\ phase' = "idle"
  /\ result' = kind
  /\ outstanding' = << >>
  /\ UNCHANGED <<call, scheduled, completed, short, failed, calls>>

Init ==
  /\ available = InitialCredits
  /\ next = FirstId
  /\ window = FirstId + InitialCredits
  /\ phase = "idle"
  /\ call = [mode |-> "pipelined", offset |-> 0, target |-> 0]
  /\ scheduled = 0
  /\ outstanding = << >>
  /\ completed = << >>
  /\ short = NoPosition
  /\ failed = FALSE
  /\ result = "none"
  /\ calls = 0
  /\ server = << >>
  /\ faulty = FALSE

\* A caller reads [offset, offset+length), clipped to the known file length.
\* A range that starts past it returns no data without any request.
StartRead(mode, offset, length) ==
  LET target == IF offset >= FileLen THEN 0 ELSE Least(length, FileLen - offset) IN
  /\ phase = "idle"
  /\ calls < MaxCalls
  /\ calls' = calls + 1
  /\ call' = [mode |-> mode, offset |-> offset, target |-> target]
  /\ phase' = IF target = 0 THEN "idle" ELSE "reading"
  /\ result' = IF target = 0 THEN "ok" ELSE "none"
  /\ scheduled' = 0
  /\ outstanding' = << >>
  /\ completed' = << >>
  /\ short' = NoPosition
  /\ failed' = FALSE
  /\ UNCHANGED <<credit, window, server, faulty>>

ReserveAndAllocateOneId(width) ==
  /\ available' = available - width
  /\ next' = IF next < MaxMessageId THEN next + 1 ELSE next

\* The credits are reserved and the ids allocated before anything is sent.
ReserveAndAllocate(width) ==
  /\ available' = available - width
  /\ next' = IF next + width <= MaxMessageId THEN next + width ELSE next

\* One turn of the fill loop whose READ reaches the server.
SendRead ==
  LET len == ChunkLen
      off == call.offset + scheduled
      width == LogicalCharge(ReadCreditCharge(len))
  IN
  /\ phase = "reading"
  /\ CanSchedule
  /\ next + width <= MaxMessageId
  /\ ReserveAndAllocate(width)
  /\ completed' = Append(completed, [off |-> off, len |-> len, got |-> NotYet])
  /\ outstanding' = [m \in DOMAIN outstanding \cup {next} |->
       IF m = next
         THEN [position |-> Len(completed) + 1, len |-> len, async |-> 0]
         ELSE outstanding[m]]
  /\ scheduled' = scheduled + len
  /\ server' = [m \in DOMAIN server \cup {next} |->
       IF m = next THEN [call |-> calls, off |-> off, len |-> len, async |-> 0]
                   ELSE server[m]]
  /\ UNCHANGED <<window, phase, call, short, failed, result, calls, faulty>>

\* The fill loop fails after the credits are gone: no id is left, or the
\* transport refuses the message.  The id, if any, is never used again.
SendFails ==
  LET width == LogicalCharge(ReadCreditCharge(ChunkLen)) IN
  /\ phase = "reading"
  /\ CanSchedule
  /\ ReserveAndAllocate(width)
  /\ Return("fault")
  /\ faulty' = TRUE
  /\ UNCHANGED <<window, server>>

FinishReadUndrained ==
  /\ phase = "reading"
  /\ failed
  /\ Return("status")
  /\ UNCHANGED <<credit, window, server, faulty>>

FinishReadWaiting ==
  /\ phase = "reading"
  /\ ~CanSchedule
  /\ DOMAIN outstanding = {}
  /\ failed \/ short # NoPosition \/ scheduled >= call.target
  /\ Return(IF failed THEN "status" ELSE "ok")
  /\ UNCHANGED <<credit, window, server, faulty>>

\* Nothing may be scheduled and nothing is outstanding: the call returns.
FinishRead ==
  /\ phase = "reading"
  /\ ~CanSchedule
  /\ DOMAIN outstanding = {}
  /\ Return(IF failed THEN "status"
            ELSE IF short # NoPosition \/ scheduled >= call.target THEN "ok"
            ELSE "exhausted")
  /\ UNCHANGED <<credit, window, server, faulty>>

-----------------------------------------------------------------------------
(* Responses.  A header defect stands for a wrong command, session or tree, *)
(* a body defect for a bad signature or an undecodable body.                *)

Heads == {[form |-> "sync", async |-> 0]} \cup [form : {"async"}, async : AsyncIds]

Bodies == [status : {"success"}, len : 0 .. MaxRead + 1]
            \cup [status : {"eof", "error", "pending"}, len : {0}]

Response ==
  [mid : FirstId .. next - 1, head : Heads, body : Bodies, credits : Grants,
   defect : {"none", "header", "body"}]

\* What a server that keeps to the protocol may send.
Honest(r) ==
  /\ r.mid \in DOMAIN server
  /\ r.defect = "none"
  /\ r.head.form = "sync" => server[r.mid].async = 0 /\ r.body.status # "pending"
  /\ r.head.form = "async" => r.head.async = AssignedAsyncId
  /\ r.body.len <= server[r.mid].len
  /\ available + r.credits <= MaxAvailable

\* AsyncResponseState::validate, given the AsyncId known so far.
Validate(known, r) ==
  LET pending == r.body.status = "pending" IN
  IF \/ r.defect = "header"
     \/ r.head.form = "sync" /\ (known # 0 \/ pending)
     \/ r.head.form = "async" /\ (r.head.async = 0 \/ known \notin {0, r.head.async})
    THEN "refused"
    ELSE IF pending THEN "interim" ELSE "final"

Phase(r) == Validate(outstanding[r.mid].async, r)

\* The server has widened its window and, with a final status, is done with
\* the request.
ServerSends(r) ==
  /\ window + r.credits <= MaxWindow
  /\ window' = window + r.credits
  /\ faulty' = (faulty \/ ~Honest(r))
  /\ server' = IF r.body.status = "pending"
       THEN [m \in DOMAIN server |->
              IF m = r.mid THEN [server[m] EXCEPT !.async = r.head.async] ELSE server[m]]
       ELSE [m \in DOMAIN server \ {r.mid} |-> server[m]]

Waiting == phase = "reading" /\ ~CanSchedule /\ DOMAIN outstanding # {}

\* A response is dropped with an error before its credits are applied.
RefuseResponse(r) ==
  /\ Waiting
  /\ r.mid \in DOMAIN outstanding =>
       Phase(r) = "refused" \/ available + r.credits > MaxAvailable
  /\ ServerSends(r)
  /\ Return("fault")
  /\ UNCHANGED credit

\* The header is valid and its credits are applied.
Accept(r) ==
  /\ Waiting
  /\ r.mid \in DOMAIN outstanding
  /\ Phase(r) # "refused"
  /\ available + r.credits <= MaxAvailable
  /\ available' = available + r.credits
  /\ UNCHANGED next

TooLong(r) ==
  Phase(r) = "final" /\ ~failed /\ r.body.len > outstanding[r.mid].len

\* The credits were applied, then the signature or the body is found bad.
RejectBody(r) ==
  /\ Accept(r)
  /\ r.defect = "body" \/ TooLong(r)
  /\ ServerSends(r)
  /\ Return("fault")

\* STATUS_PENDING: remember the AsyncId and keep waiting.
ReceiveInterim(r) ==
  /\ Accept(r)
  /\ r.defect = "none"
  /\ Phase(r) = "interim"
  /\ ServerSends(r)
  /\ outstanding' = [outstanding EXCEPT ![r.mid].async = r.head.async]
  /\ UNCHANGED <<phase, call, scheduled, completed, short, failed, result, calls>>

MarkShortLatest(position) == position

MarkShort(position) ==
  IF short = NoPosition THEN position ELSE Least(short, position)

\* The final response of one READ: its slot is filled, a short one or the
\* end of the file cuts the result, an error stops further scheduling.  After
\* an error nothing but the correlation matters any more.
ReceiveFinal(r) ==
  LET read == outstanding[r.mid] IN
  /\ Accept(r)
  /\ r.defect = "none"
  /\ Phase(r) = "final"
  /\ ~TooLong(r)
  /\ ServerSends(r)
  /\ outstanding' = [m \in DOMAIN outstanding \ {r.mid} |-> outstanding[m]]
  /\ completed' = [completed EXCEPT ![read.position] =
       [off |-> server[r.mid].off, len |-> read.len,
        got |-> IF failed THEN 0 ELSE r.body.len]]
  /\ short' = IF /\ ~failed
                 /\ r.body.status # "error"
                 /\ r.body.len < read.len
                THEN MarkShort(read.position) ELSE short
  /\ failed' = (failed \/ r.body.status = "error")
  /\ UNCHANGED <<phase, call, scheduled, result, calls>>

\* The transport times out or fails while the call waits; what the server
\* still owes may arrive during a later call.
ReceiveFails ==
  /\ Waiting
  /\ Return("fault")
  /\ faulty' = TRUE
  /\ UNCHANGED <<credit, window, server>>

CallStep ==
  \/ SendRead
  \/ SendFails
  \/ FinishRead
  \/ ReceiveFails
  \/ \E r \in Response :
       \/ RefuseResponse(r)
       \/ RejectBody(r)
       \/ ReceiveInterim(r)
       \/ ReceiveFinal(r)

Next ==
  \/ \E mode \in Modes, range \in Ranges : StartRead(mode, range[1], range[2])
  \/ CallStep

Spec == Init /\ [][Next]_vars

\* The task of a call is polled until it returns, and a receive always comes
\* back: with a response, or with the transport's read timeout.
FairSpec == Spec /\ WF_vars(CallStep)

-----------------------------------------------------------------------------
Slot == [off : Nat, len : Nat, got : Nat \cup {NotYet}]
PendingRead == [position : 1 .. Len(completed), len : Nat, async : AsyncIds]
ServerRead == [call : Nat, off : Nat, len : Nat, async : AsyncIds]

CreditTypes ==
  /\ available \in 0 .. MaxAvailable
  /\ next \in FirstId .. MaxMessageId
  /\ window \in Nat

CallTypes ==
  /\ phase \in {"idle", "reading"}
  /\ call \in [mode : Modes, offset : Nat, target : Nat]
  /\ result \in {"none", "ok", "status", "exhausted", "fault"}
  /\ scheduled \in Nat
  /\ calls \in Nat

TableTypes ==
  /\ completed \in Seq(Slot)
  /\ short \in 0 .. Len(completed)
  /\ DOMAIN outstanding \subseteq FirstId .. next - 1
  /\ \A m \in DOMAIN outstanding : outstanding[m] \in PendingRead

ServerTypes ==
  /\ DOMAIN server \subseteq FirstId .. next - 1
  /\ \A m \in DOMAIN server : server[m] \in ServerRead

FlagTypes == failed \in BOOLEAN /\ faulty \in BOOLEAN

\* The state of the connection and of the call it serves.
TypeOK ==
  CreditTypes /\ CallTypes /\ TableTypes /\ ServerTypes /\ FlagTypes

(***************************************************************************)
(* The reads of a connection never oversubscribe the window the server has *)
(* granted, and as long as nothing went wrong not a single credit is lost  *)
(* or invented: ids used plus credits left are exactly the window, also    *)
(* through interim responses, short reads, server errors and whole calls   *)
(* (read.rs: reserve before allocate, grant before anything can return).   *)
(***************************************************************************)
CreditsConserved ==
  /\ next + available <= window
  /\ ~faulty => next + available = window

(***************************************************************************)
(* A successful read returns one contiguous run of file bytes that starts  *)
(* at the requested offset, whatever order the responses came in: no hole  *)
(* behind a short response, no byte of another call.  Unless a response    *)
(* was short, it is the whole target.                                      *)
(***************************************************************************)
Taken == IF short = NoPosition THEN Len(completed) ELSE short

End(slot) == slot.off + slot.got

PrefixReturned ==
  phase = "idle" /\ result = "ok" =>
    /\ \A i \in 1 .. Taken :
         /\ completed[i].got # NotYet
         /\ completed[i].off = IF i = 1 THEN call.offset ELSE End(completed[i - 1])
         /\ End(completed[i]) <= call.offset + call.target
    /\ short = NoPosition /\ call.target > 0 =>
         Taken > 0 /\ End(completed[Taken]) = call.offset + call.target

(***************************************************************************)
(* A call that returns data or a server status leaves nothing behind: the  *)
(* server owes no answer to any of its requests (read.rs: "every           *)
(* already-sent READ is drained before the first error is returned").      *)
(***************************************************************************)
Drained ==
  phase = "idle" /\ result \in {"ok", "status", "exhausted"} =>
    \A m \in DOMAIN server : server[m].call # calls

(***************************************************************************)
(* On a healthy connection no call ever meets an answer it does not know:  *)
(* the only way to a protocol error is a fault of the server or of the     *)
(* transport.  And a call gives up for want of credits only if the server  *)
(* has granted no id that was not used.                                    *)
(***************************************************************************)
HealthyCalls ==
  ~faulty => /\ result # "fault"
             /\ result = "exhausted" => next = window

(***************************************************************************)
(* Every read returns: the scheduler never waits for a response when       *)
(* nothing is outstanding, and never spins without sending.                *)
(***************************************************************************)
CallReturns == phase = "reading" ~> phase = "idle"

(***************************************************************************)
(* Every step of a read is a step of the credit window.                    *)
(***************************************************************************)
Credits == INSTANCE CreditWindow WITH
  MaxCharge <- MaxAvailable, MaxGrant <- MaxWindow

CreditSteps == [][Credits!Next]_<<available, next, window>>
=============================================================================
