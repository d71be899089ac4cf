--------------------------- MODULE CancelableRead ---------------------------
(***************************************************************************)
(* The READ that a seek can interrupt:                                     *)
(* read_at_pipelined_cancelable_with_options of                            *)
(* crates/smb-client/src/cancel.rs and the ReadCancellationToken of        *)
(* cancellation.rs it watches.                                             *)
(*                                                                         *)
(* The read proceeds in waves: READs are sent up to a limit, then every    *)
(* one of them is awaited.  When the token's generation moves on, SMB2     *)
(* CANCEL is sent for what is outstanding; a READ that goes asynchronous   *)
(* after that is cancelled again by its AsyncId.  CANCELs and responses    *)
(* cross on the wire.  The server is external and need not answer a READ   *)
(* before it is cancelled.                                                 *)
(*                                                                         *)
(* Data is counted in chunks: every READ asks for one and costs one        *)
(* credit (ReadPipeline has the sizes and the charges).                    *)
(***************************************************************************)
EXTENDS Integers, Sequences, FiniteSets, Functions

CONSTANTS
  MaxWave,        \* PipelinedReadOptions::max_in_flight
  Target,         \* chunks a call asks for
  InitialCredits, \* credits left when the file has been opened
  Grants,         \* CreditResponse values the server chooses from
  MaxGeneration,  \* bound: generations of the token
  MaxCalls,       \* bound: number of calls
  MaxReads        \* bound: READs on the connection

ASSUME CancelLimits ==
  /\ MaxWave \in Nat \ {0}
  /\ Target \in Nat \ {0}
  /\ InitialCredits \in Nat
  /\ Grants \subseteq Nat
  /\ MaxGeneration \in Nat
  /\ MaxCalls \in Nat
  /\ MaxReads \in Nat

VARIABLES
  tokenGen,       \* the token's generation
  notifying,      \* advance() calls that have yet to notify the waiters
  signal,         \* the waiter's Notified future has been notified
  available,      \* credits
  phase,          \* where the client task is
  expected,       \* the generation the call was made for
  out,            \* chunks of finished waves, by their place in the file
  pending,        \* the READs of this wave
  cancelled,      \* the wave ends in Cancelled
  returned,       \* how the last call returned
  calls,          \* calls made
  reads,          \* READs sent on the connection; the last one's MessageId
  server,         \* external: READs without a final answer
  cancels,        \* CANCELs on their way to the server
  inbox,          \* responses on their way to the client
  unasked,        \* external: the server has cancelled a READ by itself
  faulty          \* a call has ended in a transport or protocol fault

token == <<tokenGen, notifying>>
locals == <<expected, out, pending, cancelled>>
wire == <<server, cancels, inbox, unasked>>
wavesVars == <<token, signal, available, phase, locals, returned, calls, reads, wire, faulty>>

Stale == tokenGen # expected
Outstanding(i) == pending[i].status = "none"
AllDone == \A i \in DOMAIN pending : ~Outstanding(i)

-----------------------------------------------------------------------------
WavesInit ==
  /\ tokenGen = 0 /\ notifying = 0 /\ signal = FALSE
  /\ available = InitialCredits
  /\ phase = "idle"
  /\ expected = 0
  /\ out = << >> /\ pending = << >> /\ cancelled = FALSE
  /\ returned = "none"
  /\ calls = 0
  /\ reads = 0
  /\ server = << >> /\ cancels = << >> /\ inbox = << >> /\ unasked = FALSE
  /\ faulty = FALSE

(* The token.  advance() bumps the generation and then wakes the waiters.   *)

AdvanceSilently ==
  /\ tokenGen < MaxGeneration
  /\ tokenGen' = tokenGen + 1
  /\ UNCHANGED <<notifying, signal, available, phase, locals, returned, calls, reads, wire, faulty>>

Advance ==
  /\ tokenGen < MaxGeneration
  /\ tokenGen' = tokenGen + 1
  /\ notifying' = notifying + 1
  /\ UNCHANGED <<signal, available, phase, locals, returned, calls, reads, wire, faulty>>

Notify ==
  /\ notifying > 0
  /\ notifying' = notifying - 1
  /\ signal' = (signal \/ phase \in {"load", "wait"})
  /\ UNCHANGED <<tokenGen, available, phase, locals, returned, calls, reads, wire, faulty>>

-----------------------------------------------------------------------------
(* The client task.                                                         *)

clientOnly == <<token, calls, server, unasked>>

\* The caller may have taken the generation some time ago.  The model ends with a
\* fault; the code would let a caller without recovery try the same session again,
\* and meet the answers ReadPipeline's second call meets.
StartCall(mine) ==
  /\ phase = "idle"
  /\ ~faulty
  /\ calls < MaxCalls
  /\ calls' = calls + 1
  /\ expected' = mine
  /\ phase' = "wave"
  /\ out' = << >> /\ pending' = << >> /\ cancelled' = FALSE
  /\ returned' = "none"
  /\ UNCHANGED <<token, signal, available, reads, wire, faulty>>

\* The locals of the call are dropped.
Return(kind) ==
  /\ phase' = "idle"
  /\ returned' = kind
  /\ pending' = << >> /\ cancelled' = FALSE

\* The next wave, unless the generation has moved on.
BeginWave ==
  /\ phase = "wave"
  /\ IF Stale THEN Return("cancelled")
     ELSE phase' = "fill" /\ pending' = << >> /\ cancelled' = FALSE /\ UNCHANGED returned
  /\ UNCHANGED <<clientOnly, signal, available, expected, out, reads, cancels, inbox, faulty>>

MaySend ==
  /\ Len(pending) < MaxWave
  /\ Len(out) + Len(pending) < Target
  /\ ~Stale
  /\ available > 0

PlaceFromWave == Len(pending)

\* Where the next READ starts: after the finished waves and this one's READs.
NextPlace == Len(out) + Len(pending)

SendRead ==
  /\ phase = "fill"
  /\ MaySend
  /\ reads < MaxReads
  /\ reads' = reads + 1
  /\ available' = available - 1
  /\ pending' = Append(pending,
       [mid |-> reads + 1, place |-> NextPlace, async |-> FALSE, asked |-> "no", status |-> "none"])
  /\ server' = [m \in DOMAIN server \cup {reads + 1} |->
       IF m = reads + 1 THEN [async |-> FALSE] ELSE server[m]]
  /\ UNCHANGED <<token, signal, phase, expected, out, cancelled, returned, calls, cancels,
                 inbox, unasked, faulty>>

AskForm(read) == IF read.async THEN "async" ELSE "sync"

\* send_cancel_requests: one CANCEL per READ without an answer, in the order of
\* the READs, by AsyncId where one is known.
SendCancels ==
  /\ LET left == {i \in DOMAIN pending : Outstanding(i)} IN
     \E order \in [1 .. Cardinality(left) -> left] :
       /\ \A i, j \in DOMAIN order : i < j => order[i] < order[j]
       /\ cancels' = cancels \o [i \in DOMAIN order |->
            [mid |-> pending[order[i]].mid, async |-> pending[order[i]].async]]
  /\ pending' = [i \in DOMAIN pending |->
       IF Outstanding(i) THEN [pending[i] EXCEPT !.asked = AskForm(pending[i])]
                         ELSE pending[i]]

\* The wave is complete.  Without a READ the call is over.
EndFill ==
  /\ phase = "fill"
  /\ ~MaySend \/ reads = MaxReads
  /\ IF pending = << >>
       THEN /\ Return(IF Stale THEN "cancelled" ELSE "exhausted")
            /\ UNCHANGED cancels
       ELSE /\ phase' = "check"
            /\ cancelled' = Stale
            /\ IF Stale THEN SendCancels ELSE UNCHANGED <<pending, cancels>>
            /\ UNCHANGED returned
  /\ UNCHANGED <<clientOnly, signal, available, expected, out, reads, inbox, faulty>>

\* The top of the receive loop looks at the token once more.
CheckToken ==
  /\ phase = "check"
  /\ ~AllDone
  /\ phase' = IF cancelled \/ Stale THEN "wait" ELSE "arm"
  /\ cancelled' = (cancelled \/ Stale)
  /\ IF ~cancelled /\ Stale THEN SendCancels ELSE UNCHANGED <<pending, cancels>>
  /\ UNCHANGED <<clientOnly, signal, available, expected, out, returned, reads, inbox, faulty>>

\* wait_for_change creates its Notified future, from now on notified ...
Arm ==
  /\ phase = "arm"
  /\ signal' = FALSE
  /\ phase' = "load"
  /\ UNCHANGED <<clientOnly, available, locals, returned, reads, cancels, inbox, faulty>>

\* ... and only then loads the generation.
Load ==
  /\ phase = "load"
  /\ phase' = IF Stale THEN "changed" ELSE "wait"
  /\ UNCHANGED <<clientOnly, signal, available, locals, returned, reads, cancels, inbox, faulty>>

\* A notified waiter goes round its loop again.
Wake ==
  /\ phase = "wait"
  /\ ~cancelled
  /\ signal
  /\ signal' = FALSE
  /\ phase' = "arm"
  /\ UNCHANGED <<clientOnly, available, locals, returned, reads, cancels, inbox, faulty>>

\* The select takes the changed branch.
Changed ==
  /\ phase = "changed"
  /\ cancelled' = TRUE
  /\ SendCancels
  /\ phase' = "check"
  /\ signal' = FALSE
  /\ UNCHANGED <<clientOnly, available, expected, out, returned, reads, inbox, faulty>>

\* A receive is polled before the token, or while the token is quiet.
Receiving == phase \in {"arm", "wait"} /\ inbox # << >>

\* The READ of this wave a response answers, if any.
Answered(r) == {i \in DOMAIN pending : pending[i].mid = r.mid /\ Outstanding(i)}

ReceiveInterimOnce ==
  Receiving /\ \E i \in Answered(Head(inbox)) :
    /\ Head(inbox).status = "pending"
    /\ inbox' = Tail(inbox)
    /\ available' = available + Head(inbox).credits
    /\ pending' = [pending EXCEPT ![i].async = TRUE]
    /\ phase' = "check"
    /\ signal' = FALSE
    /\ UNCHANGED <<clientOnly, expected, out, cancelled, returned, reads, cancels, faulty>>

\* STATUS_PENDING tells the AsyncId.  A CANCEL that was sent without it may
\* have missed the READ: it is sent again.
ReceiveInterim ==
  Receiving /\ \E i \in Answered(Head(inbox)) :
    LET again == cancelled /\ pending[i].asked # "async" IN
    /\ Head(inbox).status = "pending"
    /\ inbox' = Tail(inbox)
    /\ available' = available + Head(inbox).credits
    /\ pending' = [pending EXCEPT ![i].async = TRUE,
                                  ![i].asked = IF again THEN "async" ELSE @]
    /\ cancels' = IF again THEN Append(cancels, [mid |-> pending[i].mid, async |-> TRUE])
                           ELSE cancels
    /\ phase' = "check"
    /\ signal' = FALSE
    /\ UNCHANGED <<clientOnly, expected, out, cancelled, returned, reads, faulty>>

ReceiveFinal ==
  Receiving /\ \E i \in Answered(Head(inbox)) :
    LET status == Head(inbox).status IN
    /\ status # "pending"
    /\ inbox' = Tail(inbox)
    /\ available' = available + Head(inbox).credits
    /\ pending' = [pending EXCEPT ![i].status = status]
    /\ cancelled' = (cancelled \/ status = "cancelled")
    /\ phase' = "check"
    /\ signal' = FALSE
    /\ UNCHANGED <<clientOnly, expected, out, returned, reads, cancels, faulty>>

EndWaveEager ==
  /\ phase = "check"
  /\ AllDone \/ cancelled
  /\ Return(IF cancelled THEN "cancelled" ELSE "ok")
  /\ UNCHANGED <<clientOnly, signal, available, expected, out, reads, cancels, inbox, faulty>>

Shorts == {i \in DOMAIN pending : pending[i].status = "short"}
Failures == {i \in DOMAIN pending : pending[i].status = "error"}

\* How many READs of the wave count: those before the first short one.
Kept == Cardinality({n \in DOMAIN pending : \A i \in Shorts : n < i})

\* Every READ of the wave has its final response.  A short read is a success.
EndWave ==
  /\ phase = "check"
  /\ AllDone
  /\ IF cancelled \/ Stale THEN Return("cancelled") /\ UNCHANGED out
     ELSE IF Failures # {} THEN Return("status") /\ UNCHANGED out
     ELSE /\ out' = out \o [i \in 1 .. Kept |-> pending[i].place]
          /\ IF Shorts # {} THEN Return("short")
             ELSE IF Len(out') >= Target THEN Return("ok")
             ELSE phase' = "wave" /\ UNCHANGED <<pending, cancelled, returned>>
  /\ UNCHANGED <<clientOnly, signal, available, expected, reads, cancels, inbox, faulty>>

\* A send or a receive fails or times out, or a response is not one the READs
\* of this wave can have (ReadPipeline tells those apart).  The connection is
\* not used for another call.
TransportFails ==
  /\ phase \in {"fill", "check", "arm", "wait", "changed"}
  /\ Return("fault")
  /\ faulty' = TRUE
  /\ signal' = FALSE
  /\ UNCHANGED <<clientOnly, available, expected, out, reads, cancels, inbox>>

-----------------------------------------------------------------------------
(* The server.                                                              *)

serverOnly == <<token, signal, available, phase, locals, returned, calls, reads, faulty>>

Reply(m, status, credits) ==
  inbox' = Append(inbox, [mid |-> m, status |-> status, credits |-> credits])

Forget(m) == server' = Restrict(server, DOMAIN server \ {m})

GoAsync(m) ==
  /\ ~server[m].async
  /\ server' = [server EXCEPT ![m].async = TRUE]
  /\ \E credits \in Grants : Reply(m, "pending", credits)
  /\ UNCHANGED <<serverOnly, cancels, unasked>>

Answer(m) ==
  /\ Forget(m)
  /\ \E status \in {"data", "short", "error"}, credits \in Grants : Reply(m, status, credits)
  /\ UNCHANGED <<serverOnly, cancels, unasked>>

CancelUnasked(m) ==
  /\ unasked' = TRUE
  /\ Forget(m)
  /\ \E credits \in Grants : Reply(m, "cancelled", credits)
  /\ UNCHANGED <<serverOnly, cancels>>

\* A CANCEL finds a READ in the form the server knows it by, or is ignored.
TakeCancel ==
  LET cancel == Head(cancels)
      m == cancel.mid
  IN
  /\ cancels # << >>
  /\ cancels' = Tail(cancels)
  /\ IF m \in DOMAIN server /\ server[m].async = cancel.async
       THEN Forget(m) /\ \E credits \in Grants : Reply(m, "cancelled", credits)
       ELSE UNCHANGED <<server, inbox>>
  /\ UNCHANGED <<serverOnly, unasked>>

ClientStep ==
  \/ BeginWave
  \/ SendRead
  \/ EndFill
  \/ CheckToken
  \/ Arm
  \/ Load
  \/ Wake
  \/ Changed
  \/ ReceiveInterim
  \/ ReceiveFinal
  \/ EndWave

WavesNext ==
  \/ Advance
  \/ Notify
  \/ \E mine \in 0 .. tokenGen : StartCall(mine)
  \/ ClientStep
  \/ TransportFails
  \/ TakeCancel
  \/ \E m \in DOMAIN server : GoAsync(m) \/ Answer(m) \/ CancelUnasked(m)

WavesSpec == WavesInit /\ [][WavesNext]_wavesVars

\* The task is polled, advance() gets to its end, and the server looks at
\* every CANCEL.  It has to answer no READ, and no timeout has to help.
FairWavesSpec ==
  WavesSpec /\ WF_wavesVars(ClientStep) /\ WF_wavesVars(Notify) /\ WF_wavesVars(TakeCancel)

-----------------------------------------------------------------------------
(***************************************************************************)
(* A call that returns for any reason but a transport fault, a cancelled   *)
(* one included, leaves the wire as it found it: no READ of its own is     *)
(* with the server and no answer to one is under way (cancel.rs: "drains   *)
(* every final READ response before returning").  What it returns is one   *)
(* run of chunks from its offset, through waves, short answers and answers *)
(* out of order, and complete unless it was cut short.                     *)
(***************************************************************************)
CleanReturn ==
  phase = "idle" =>
    /\ ~faulty => server = << >> /\ inbox = << >>
    /\ \A i \in DOMAIN out : out[i] = i - 1
    /\ returned = "ok" => Len(out) = Target

(***************************************************************************)
(* While a call waits after its generation has moved on, every READ it     *)
(* still waits for has been cancelled, and by AsyncId if the client knows  *)
(* one (cancel.rs: "SMB2 CANCEL is sent for every outstanding READ").      *)
(***************************************************************************)
OutstandingCancelled ==
  phase = "wait" /\ cancelled /\ Stale =>
    \A i \in DOMAIN pending : Outstanding(i) =>
      pending[i].asked = "async" \/ (pending[i].asked = "sync" /\ ~pending[i].async)

(***************************************************************************)
(* ... which holds as long as the server cancels only what it was asked to *)
(* cancel, through every crossing of CANCEL and STATUS_PENDING.            *)
(***************************************************************************)
CancelledWhenAsked == unasked \/ OutstandingCancelled

(***************************************************************************)
(* A call whose generation moves on returns, even if the server would have *)
(* answered none of its READs: no wakeup is lost between the token and the *)
(* waiter, and a READ that goes asynchronous while CANCEL is under way is  *)
(* not forgotten.                                                          *)
(***************************************************************************)
CancelReturns == phase # "idle" /\ Stale ~> phase = "idle" \/ unasked
=============================================================================
