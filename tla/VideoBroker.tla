---------------------------- MODULE VideoBroker -----------------------------
(***************************************************************************)
(* The video broker of crates/smb-stream/src/broker.rs: callers on any     *)
(* thread share one cloneable handle; one runner task owns the SMB file    *)
(* and the read-ahead cache.                                               *)
(*                                                                         *)
(* Foreground commands go through a bounded FIFO, prefetch hints through a *)
(* one-place watch channel in which a newer hint replaces an older one.    *)
(* Two generation counters invalidate work: `play` is the logical playback *)
(* position, `spec` the speculative I/O.  A handle method is several       *)
(* atomic operations, and other callers and the runner run in between.     *)
(***************************************************************************)
EXTENDS Integers, Sequences, FiniteSets

CONSTANTS
  Callers,        \* threads that hold a clone of the handle
  QueueCapacity,  \* VideoBrokerConfig::queue_capacity
  MaxPlay,        \* bound: playback generations
  MaxSpec,        \* bound: speculative generations
  MaxHints        \* bound: prefetch hints, from callers and automatic

ASSUME BrokerLimits ==
  /\ QueueCapacity \in Nat \ {0}
  /\ MaxPlay \in Nat
  /\ MaxSpec \in Nat
  /\ MaxHints \in Nat

VARIABLES
  play,           \* cancellation: the playback generation
  spec,           \* prefetch_cancellation: the speculative generation
  queue,          \* interactive_commands
  hint,           \* background_command, NoHint while it is None
  fresh,          \* the runner has not seen the newest hint
  caller,         \* per caller: where it is in a handle method, what it loaded
  answer,         \* per caller: how its last read or close ended
  runner,         \* where the runner is, and the command it works on
  active,         \* active_generation
  cached,         \* playback generations whose bytes are in the reader's cache
  interactive,    \* interactive_open
  hints,          \* hints made so far; a hint is numbered when it is made
  closes          \* SMB CLOSE requests sent

tokens == <<play, spec>>
channels == <<queue, hint, fresh>>
vars == <<tokens, channels, caller, answer, runner, active, cached, interactive,
          hints, closes>>

NoHint == [id |-> 0, play |-> 0, spec |-> 0]
Idle == [at |-> "idle", id |-> 0, play |-> 0, spec |-> 0]
Hint(n, p, s) == [id |-> n, play |-> p, spec |-> s]
ReadCommand(c) == [kind |-> "read", from |-> c, play |-> caller[c].play, spec |-> caller[c].spec]
Shutdown(c) == [kind |-> "shutdown", from |-> c, play |-> 0, spec |-> 0]

Serving(at, command) == [at |-> at, command |-> command]
Nothing == [kind |-> "nothing", from |-> "nobody", play |-> 0, spec |-> 0]
Selecting == Serving("select", Nothing)

Stopped == runner.at = "stopped"

-----------------------------------------------------------------------------
(* The handle.                                                             *)

Init ==
  /\ play = 0 /\ spec = 0
  /\ queue = << >> /\ hint = NoHint /\ fresh = FALSE
  /\ caller = [c \in Callers |-> Idle]
  /\ answer = [c \in Callers |-> "none"]
  /\ runner = Selecting
  /\ active = 0
  /\ cached = {}
  /\ interactive = TRUE
  /\ hints = 0
  /\ closes = 0

At(c, place) == caller[c].at = place
Goto(c, place) == caller' = [caller EXCEPT ![c].at = place]

AdvanceSpec == spec < MaxSpec /\ spec' = spec + 1

\* seek and close advance the playback generation in their second step.
MayAdvancePlay ==
  play + Cardinality({c \in Callers : At(c, "seek") \/ At(c, "close")}) < MaxPlay

callersOnly == <<queue, hint, fresh, answer, runner, active, cached, interactive, closes>>

SeekStart(c) ==
  /\ At(c, "idle")
  /\ MayAdvancePlay
  /\ AdvanceSpec
  /\ Goto(c, "seek")
  /\ UNCHANGED <<callersOnly, play, hints>>

SeekFinish(c) ==
  /\ At(c, "seek")
  /\ play' = play + 1
  /\ Goto(c, "idle")
  /\ UNCHANGED <<callersOnly, spec, hints>>

ReadStart(c) ==
  /\ At(c, "idle")
  /\ AdvanceSpec
  /\ caller' = [caller EXCEPT ![c].at = "read", ![c].spec = spec + 1]
  /\ UNCHANGED <<callersOnly, play, hints>>

ReadLoad(c) ==
  /\ At(c, "read")
  /\ caller' = [caller EXCEPT ![c].at = "send_read", ![c].play = play]
  /\ UNCHANGED <<callersOnly, tokens, hints>>

\* send().await: waits for a place in the queue, or finds the runner gone.
Send(c, command) ==
  /\ IF Stopped
       THEN /\ caller' = [caller EXCEPT ![c] = Idle]
            /\ answer' = [answer EXCEPT ![c] = "closed"]
            /\ UNCHANGED queue
       ELSE /\ Len(queue) < QueueCapacity
            /\ queue' = Append(queue, command)
            /\ Goto(c, "waiting")
            /\ UNCHANGED answer
  /\ UNCHANGED <<tokens, hint, fresh, runner, active, cached, interactive, hints, closes>>

ReadSend(c) == At(c, "send_read") /\ Send(c, ReadCommand(c))

PrefetchStart(c) ==
  /\ At(c, "idle")
  /\ hints < MaxHints
  /\ hints' = hints + 1
  /\ caller' = [caller EXCEPT ![c] =
       [at |-> "hint", id |-> hints + 1, play |-> play, spec |-> 0]]
  /\ UNCHANGED <<callersOnly, tokens>>

PrefetchLoad(c) ==
  /\ At(c, "hint")
  /\ caller' = [caller EXCEPT ![c].at = "publish", ![c].spec = spec]
  /\ UNCHANGED <<callersOnly, tokens, hints>>

\* The watch send fails once the runner has dropped its receiver.
PrefetchPublish(c) ==
  /\ At(c, "publish")
  /\ IF Stopped THEN UNCHANGED <<hint, fresh>>
     ELSE hint' = Hint(caller[c].id, caller[c].play, caller[c].spec) /\ fresh' = TRUE
  /\ caller' = [caller EXCEPT ![c] = Idle]
  /\ UNCHANGED <<tokens, queue, answer, runner, active, cached, interactive, hints, closes>>

CloseStart(c) ==
  /\ At(c, "idle")
  /\ MayAdvancePlay
  /\ AdvanceSpec
  /\ Goto(c, "close")
  /\ UNCHANGED <<callersOnly, play, hints>>

CloseAdvance(c) ==
  /\ At(c, "close")
  /\ play' = play + 1
  /\ Goto(c, "send_close")
  /\ UNCHANGED <<callersOnly, spec, hints>>

CloseSend(c) == At(c, "send_close") /\ Send(c, Shutdown(c))

\* The caller drops its clone of the handle.
DropHandle(c) ==
  /\ At(c, "idle")
  /\ Goto(c, "gone")
  /\ UNCHANGED <<callersOnly, tokens, hints>>

-----------------------------------------------------------------------------
(* The runner.                                                             *)

runnerOnly == <<tokens, hints>>
NoHandles == \A c \in Callers : At(c, "gone")

PrepareGenerationKeeping(generation) ==
  /\ active' = generation
  /\ UNCHANGED cached

\* prepare_generation of a command whose playback generation is current.
PrepareGeneration(generation) ==
  /\ active' = generation
  /\ cached' = IF generation # active THEN {} ELSE cached

\* The head of the queue is a read: stale ones are answered without I/O.
TakeRead(command) ==
  /\ IF command.play # play
       THEN /\ runner' = [at |-> "reply", command |-> command, result |-> "stale", auto |-> NoHint]
            /\ UNCHANGED <<active, cached>>
       ELSE /\ PrepareGeneration(command.play)
            /\ runner' = Serving("reading", command)
  /\ UNCHANGED closes

\* close_source takes the source and sends the one CLOSE.
TakeShutdown(command) ==
  /\ runner' = Serving("closing", command)
  /\ closes' = closes + 1
  /\ UNCHANGED <<active, cached>>

\* The next foreground command, from the select or from the grace period.
TakeCommand ==
  /\ runner.at \in {"select", "grace"}
  /\ queue # << >>
  /\ queue' = Tail(queue)
  /\ IF Head(queue).kind = "read" THEN TakeRead(Head(queue)) ELSE TakeShutdown(Head(queue))
  /\ UNCHANGED <<runnerOnly, hint, fresh, caller, answer, interactive>>

\* The select is biased: a hint is looked at only when recv() has nothing to say.
NoticeHint ==
  /\ runner.at = "select"
  /\ queue = << >>
  /\ interactive => ~NoHandles
  /\ fresh
  /\ fresh' = FALSE
  /\ runner' = Serving(IF interactive THEN "grace" ELSE "borrow", Nothing)
  /\ UNCHANGED <<runnerOnly, queue, hint, caller, answer, active, cached, interactive, closes>>

\* recv() returns None: every handle is dropped and the queue is drained.
HandlesGone ==
  /\ runner.at \in {"select", "grace"}
  /\ interactive
  /\ queue = << >>
  /\ NoHandles
  /\ interactive' = FALSE
  /\ runner' = IF runner.at = "grace" THEN Serving("borrow", Nothing) ELSE runner
  /\ UNCHANGED <<runnerOnly, channels, caller, answer, active, cached, closes>>

\* PREFETCH_IDLE_GRACE passes without a foreground command.
GraceOver ==
  /\ runner.at = "grace"
  /\ queue = << >>
  /\ ~NoHandles
  /\ runner' = Serving("borrow", Nothing)
  /\ UNCHANGED <<runnerOnly, channels, caller, answer, active, cached, interactive, closes>>

\* borrow_and_update takes the newest hint; process_prefetch first looks at
\* the speculative generation.
BorrowHint ==
  /\ runner.at = "borrow"
  /\ fresh' = FALSE
  /\ runner' = IF hint # NoHint /\ hint.spec = spec THEN Serving("prepare", hint) ELSE Selecting
  /\ UNCHANGED <<runnerOnly, queue, hint, caller, answer, active, cached, interactive, closes>>

\* ... and then at the playback generation.
StartPrefetch ==
  /\ runner.at = "prepare"
  /\ IF runner.command.play = play
       THEN /\ PrepareGeneration(runner.command.play)
            /\ runner' = Serving("prefetching", runner.command)
       ELSE /\ runner' = Selecting
            /\ UNCHANGED <<active, cached>>
  /\ UNCHANGED <<runnerOnly, channels, caller, answer, interactive, closes>>

\* The prefetch I/O ends: done, failed, or cancelled by the speculative token.
\* What it fetched stays cached under the playback generation it ran for.
EndPrefetch ==
  /\ runner.at = "prefetching"
  /\ \E fetched \in BOOLEAN :
       cached' = IF fetched THEN cached \cup {runner.command.play} ELSE cached
  /\ runner' = Selecting
  /\ UNCHANGED <<runnerOnly, channels, caller, answer, active, interactive, closes>>

\* The read I/O ends with data, cancelled, or with another error.  Data counts
\* only if the generation is still current; otherwise the cache is dropped.
\* A hint for what follows may be prepared while both generations are current.
EndRead ==
  LET command == runner.command IN
  /\ runner.at = "reading"
  /\ \E outcome \in {"data", "cancelled", "error"} :
       LET ok == outcome = "data" /\ command.play = play
           stale == outcome # "error" /\ ~ok
           hintable == ok /\ command.spec = spec /\ hints < MaxHints
       IN
       /\ cached' = IF stale THEN {} ELSE IF ok THEN cached \cup {command.play} ELSE cached
       /\ \E auto \in {NoHint} \cup (IF hintable THEN {Hint(hints + 1, play, spec)} ELSE {}) :
            /\ hints' = IF auto = NoHint THEN hints ELSE hints + 1
            /\ runner' = [at |-> "reply", command |-> command, auto |-> auto,
                          result |-> IF ok THEN "ok" ELSE IF stale THEN "stale" ELSE "error"]
  /\ UNCHANGED <<tokens, channels, caller, answer, active, interactive, closes>>

Reply(c, result) ==
  /\ caller' = [caller EXCEPT ![c] = Idle]
  /\ answer' = [answer EXCEPT ![c] = result]

\* The caller gets its answer before the automatic hint is published.
ReplyRead ==
  /\ runner.at = "reply"
  /\ Reply(runner.command.from, runner.result)
  /\ runner' = IF runner.auto = NoHint THEN Selecting ELSE Serving("auto", runner.auto)
  /\ UNCHANGED <<runnerOnly, channels, active, cached, interactive, closes>>

PublishAuto ==
  /\ runner.at = "auto"
  /\ hint' = runner.command
  /\ fresh' = TRUE
  /\ runner' = Selecting
  /\ UNCHANGED <<runnerOnly, queue, caller, answer, active, cached, interactive, closes>>

EndCloseRetrying ==
  /\ runner.at = "closing"
  /\ \E result \in {"ok", "error"} :
       /\ Reply(runner.command.from, result)
       /\ runner' = IF result = "ok" THEN Serving("leaving", Nothing) ELSE Selecting
  /\ UNCHANGED <<runnerOnly, channels, active, cached, interactive, closes>>

\* CLOSE has been answered, or has failed; it is not sent again.
EndClose ==
  /\ runner.at = "closing"
  /\ \E result \in {"ok", "error"} : Reply(runner.command.from, result)
  /\ runner' = Serving("leaving", Nothing)
  /\ UNCHANGED <<runnerOnly, channels, active, cached, interactive, closes>>

LeaveQuietly ==
  /\ runner.at = "leaving"
  /\ runner' = Serving("stopped", Nothing)
  /\ queue' = << >>
  /\ UNCHANGED <<runnerOnly, hint, fresh, caller, answer, active, cached, interactive, closes>>

\* run() returns and drops the receivers: whoever still waits is told so.
Leave ==
  LET waiting == {queue[i].from : i \in DOMAIN queue} IN
  /\ runner.at = "leaving"
  /\ runner' = Serving("stopped", Nothing)
  /\ queue' = << >>
  /\ caller' = [c \in Callers |-> IF c \in waiting THEN Idle ELSE caller[c]]
  /\ answer' = [c \in Callers |-> IF c \in waiting THEN "closed" ELSE answer[c]]
  /\ UNCHANGED <<runnerOnly, hint, fresh, active, cached, interactive, closes>>

RunnerStep ==
  \/ TakeCommand
  \/ NoticeHint
  \/ HandlesGone
  \/ GraceOver
  \/ BorrowHint
  \/ StartPrefetch
  \/ EndPrefetch
  \/ EndRead
  \/ ReplyRead
  \/ PublishAuto
  \/ EndClose
  \/ Leave

\* The rest of a handle method once it has begun.
MethodStep(c) ==
  \/ SeekFinish(c)
  \/ ReadLoad(c)
  \/ ReadSend(c)
  \/ PrefetchLoad(c)
  \/ PrefetchPublish(c)
  \/ CloseAdvance(c)
  \/ CloseSend(c)

CallerStep(c) ==
  \/ SeekStart(c)
  \/ ReadStart(c)
  \/ PrefetchStart(c)
  \/ CloseStart(c)
  \/ DropHandle(c)
  \/ MethodStep(c)

Next == RunnerStep \/ \E c \in Callers : CallerStep(c)

Spec == Init /\ [][Next]_vars

\* The runtime polls the runner, a method that has begun goes on, and SMB I/O
\* ends: the transport has timeouts and reconnects are bounded.  No caller has
\* to begin anything.
FairSpec == Spec /\ WF_vars(RunnerStep) /\ \A c \in Callers : WF_vars(MethodStep(c))

-----------------------------------------------------------------------------
(***************************************************************************)
(* The read-ahead cache never mixes playback positions: whatever order     *)
(* reads, prefetches, seeks and cancellations come in, cached bytes belong *)
(* to the generation the runner last prepared (prepare_generation).        *)
(***************************************************************************)
CacheOfActive == cached \subseteq {active}

(***************************************************************************)
(* CLOSE is sent at most once, also when several callers close or it       *)
(* fails, and no SMB I/O follows it (run, close_source).                   *)
(***************************************************************************)
ClosedOnce ==
  /\ closes <= 1
  /\ closes = 1 => runner.at \in {"closing", "leaving", "stopped"}

(***************************************************************************)
(* Every handle method returns: a queued command is served or, when the    *)
(* runner stops first, answered with Closed; nobody waits for ever on a    *)
(* full queue or behind a prefetch.                                        *)
(***************************************************************************)
CallAnswered ==
  \A c \in Callers : caller[c].at \notin {"idle", "gone"} ~> caller[c].at = "idle"
=============================================================================
