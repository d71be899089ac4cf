------------------------- MODULE VideoBroker_proof --------------------------
(***************************************************************************)
(* The safety of the video broker, for any number of callers, any queue    *)
(* capacity and any number of generations and hints.                       *)
(***************************************************************************)
EXTENDS VideoBroker, SequenceTheorems, TLAPS

-----------------------------------------------------------------------------
(* The inductive invariant, in named parts.                                *)

Places == {"idle", "seek", "read", "send_read", "waiting", "hint", "publish", "close",
           "send_close", "gone"}

Place == [at : Places, id : Nat, play : Nat, spec : Nat]

Command == [kind : {"read", "shutdown"}, from : Callers, play : Nat, spec : Nat]

Types ==
  /\ play \in Nat /\ spec \in Nat /\ hints \in Nat /\ closes \in Nat
  /\ caller \in [Callers -> Place]
  /\ queue \in Seq(Command)

\* The runner does I/O only for the generation it has prepared.
Prepared == runner.at \in {"reading", "prefetching"} => runner.command.play = active

\* The runner owes somebody an answer.
Owing == runner.at \in {"reading", "reply", "closing"}

(***************************************************************************)
(* Each caller that waits has one command, in the queue or with the        *)
(* runner, and every command has a caller that waits for it.               *)
(***************************************************************************)
Answerable ==
  /\ \A i \in DOMAIN queue : caller[queue[i].from].at = "waiting"
  /\ \A i, j \in DOMAIN queue : queue[i].from = queue[j].from => i = j
  /\ Owing => /\ runner.command.from \in Callers /\ caller[runner.command.from].at = "waiting"
              /\ \A i \in DOMAIN queue : queue[i].from # runner.command.from
  /\ \A c \in Callers : caller[c].at = "waiting" =>
       \/ \E i \in DOMAIN queue : queue[i].from = c
       \/ Owing /\ runner.command.from = c

IInv == Types /\ Prepared /\ CacheOfActive /\ ClosedOnce /\ Answerable
-----------------------------------------------------------------------------
(* The operators.                                                          *)

\* An idle caller has loaded nothing.
LEMMA IdlePlace == Idle \in Place /\ Idle.at = "idle"
BY DEF Idle, Place, Places

\* What a command in the queue is.
LEMMA Queued ==
  ASSUME Types
  PROVE  /\ Len(queue) \in Nat /\ DOMAIN queue = 1 .. Len(queue)
         /\ \A i \in DOMAIN queue : queue[i] \in Command /\ queue[i].from \in Callers
<1>1. queue \in Seq(Command)
  BY DEF Types
<1>2. Len(queue) \in Nat /\ DOMAIN queue = 1 .. Len(queue)
  BY <1>1
<1>3. \A i \in DOMAIN queue : queue[i] \in Command
  BY <1>1
<1>4. \A x \in Command : x.from \in Callers
  BY DEF Command
<1> QED BY <1>2, <1>3, <1>4

\* A command is appended.
LEMMA Appended ==
  ASSUME NEW S, NEW q \in Seq(S), NEW x \in S
  PROVE  /\ Append(q, x) \in Seq(S)
         /\ DOMAIN Append(q, x) = (DOMAIN q) \cup {Len(q) + 1}
         /\ Len(q) + 1 \notin DOMAIN q
         /\ Append(q, x)[Len(q) + 1] = x
         /\ \A i \in DOMAIN q : Append(q, x)[i] = q[i]
<1>1. Len(q) \in Nat /\ DOMAIN q = 1 .. Len(q)
  OBVIOUS
<1>2. Len(Append(q, x)) = Len(q) + 1 /\ Append(q, x) \in Seq(S)
  OBVIOUS
<1>3. DOMAIN Append(q, x) = 1 .. Len(q) + 1
  BY <1>1, <1>2
<1>4. 1 .. Len(q) + 1 = (1 .. Len(q)) \cup {Len(q) + 1}
  BY <1>1
<1> QED BY <1>1, <1>2, <1>3, <1>4

\* The head is taken: what is left moves up by one place.
LEMMA Taken ==
  ASSUME NEW S, NEW q \in Seq(S), q # << >>
  PROVE  /\ Head(q) = q[1] /\ 1 \in DOMAIN q /\ Head(q) \in S /\ Tail(q) \in Seq(S)
         /\ \A i \in DOMAIN Tail(q) : i + 1 \in DOMAIN q /\ i + 1 # 1 /\ Tail(q)[i] = q[i + 1]
         /\ \A i, j \in DOMAIN Tail(q) : i + 1 = j + 1 => i = j
         /\ \A i \in DOMAIN q : i # 1 => i - 1 \in DOMAIN Tail(q) /\ Tail(q)[i - 1] = q[i]
<1>1. Len(q) \in Nat /\ DOMAIN q = 1 .. Len(q) /\ Len(q) # 0
  OBVIOUS
<1>2. Tail(q) \in Seq(S) /\ Len(Tail(q)) = Len(q) - 1 /\ DOMAIN Tail(q) = 1 .. Len(q) - 1
  BY <1>1
<1>3. \A i \in 1 .. Len(q) - 1 : Tail(q)[i] = q[i + 1]
  BY <1>1
<1>4. Head(q) = q[1] /\ 1 \in DOMAIN q /\ q[1] \in S
  BY <1>1
<1>5. \A i \in DOMAIN q : i # 1 => i - 1 \in DOMAIN Tail(q) /\ (i - 1) + 1 = i
  BY <1>1, <1>2
<1> QED BY <1>1, <1>2, <1>3, <1>4, <1>5

-----------------------------------------------------------------------------
(* The callers.                                                            *)

\* A caller that goes on keeps what it has loaded.
LEMMA Moved ==
  ASSUME Types, NEW c \in Callers, NEW place \in Places, Goto(c, place)
  PROVE  /\ caller' \in [Callers -> Place] /\ caller'[c].at = place
         /\ \A d \in Callers \ {c} : caller'[d] = caller[d]
<1>1. caller \in [Callers -> Place] /\ caller' = [caller EXCEPT ![c].at = place]
  BY DEF Types, Goto
<1>2. \A d \in Callers \ {c} : caller'[d] = caller[d]
  BY <1>1
<1>3. caller'[c] = [caller[c] EXCEPT !.at = place] /\ caller[c] \in Place
  BY <1>1
<1>4. caller'[c] \in Place /\ caller'[c].at = place
  BY <1>3 DEF Place
<1>5. caller' = [d \in Callers |-> caller'[d]] /\ \A d \in Callers : caller'[d] \in Place
  BY <1>1, <1>2, <1>4
<1> QED BY <1>2, <1>4, <1>5

\* So does one that goes on with a generation it has just loaded.
LEMMA Loaded ==
  ASSUME Types, NEW c \in Callers, NEW place \in Places, NEW n \in Nat,
         \/ caller' = [caller EXCEPT ![c].at = place, ![c].spec = n]
         \/ caller' = [caller EXCEPT ![c].at = place, ![c].play = n]
  PROVE  /\ caller' \in [Callers -> Place] /\ caller'[c].at = place
         /\ \A d \in Callers \ {c} : caller'[d] = caller[d]
<1>1. caller \in [Callers -> Place] /\ caller[c] \in Place
  BY DEF Types
<1>2. \A d \in Callers \ {c} : caller'[d] = caller[d]
  BY <1>1
<1>3. \/ caller'[c] = [caller[c] EXCEPT !.at = place, !.spec = n]
      \/ caller'[c] = [caller[c] EXCEPT !.at = place, !.play = n]
  BY <1>1
<1>4. caller'[c] \in Place /\ caller'[c].at = place
  BY <1>1, <1>3 DEF Place
<1>5. caller' = [d \in Callers |-> caller'[d]] /\ \A d \in Callers : caller'[d] \in Place
  BY <1>1, <1>2, <1>4
<1> QED BY <1>2, <1>4, <1>5

\* A step of a caller that neither was nor becomes a waiting one.
LEMMA CallerAlone ==
  ASSUME IInv, NEW c \in Callers, caller[c].at # "waiting",
         caller' \in [Callers -> Place], caller'[c].at # "waiting",
         \A d \in Callers \ {c} : caller'[d] = caller[d],
         play' \in Nat, spec' \in Nat, hints' \in Nat,
         UNCHANGED <<queue, runner, active, cached, closes>>
  PROVE  IInv'
<1>1. Types'
  BY DEF IInv, Types
<1>2. Prepared' /\ CacheOfActive' /\ ClosedOnce'
  BY DEF IInv, Prepared, CacheOfActive, ClosedOnce
<1>3. \A d \in Callers : caller'[d].at = "waiting" <=> caller[d].at = "waiting"
  OBVIOUS
<1>4. \A i \in DOMAIN queue : queue[i].from \in Callers
  BY Queued DEF IInv
<1>5. (\A i \in DOMAIN queue : caller[queue[i].from].at = "waiting")'
  BY <1>3, <1>4 DEF IInv, Answerable
<1>6. (\A i, j \in DOMAIN queue : queue[i].from = queue[j].from => i = j)'
  BY DEF IInv, Answerable
<1>7. (Owing => /\ runner.command.from \in Callers /\ caller[runner.command.from].at = "waiting"
                /\ \A i \in DOMAIN queue : queue[i].from # runner.command.from)'
  BY <1>3 DEF IInv, Answerable, Owing
<1>8. (\A d \in Callers : caller[d].at = "waiting" =>
         \/ \E i \in DOMAIN queue : queue[i].from = d
         \/ Owing /\ runner.command.from = d)'
  BY <1>3 DEF IInv, Answerable, Owing
<1>9. Answerable'
  BY <1>5, <1>6, <1>7, <1>8 DEF Answerable
<1> QED BY <1>1, <1>2, <1>9 DEF IInv

\* A command enters the queue with its caller, or the caller learns that the
\* runner is gone.
LEMMA SendInv ==
  ASSUME IInv, NEW c \in Callers, NEW command \in Command, command.from = c,
         caller[c].at # "waiting", Send(c, command)
  PROVE  IInv'
<1>0. Types /\ UNCHANGED <<play, spec, hints, runner, active, cached, closes>>
  BY DEF IInv, tokens, Send
<1>1. CASE Stopped
  <2>1. Idle \in Place /\ Idle.at = "idle" /\ Idle.at # "waiting"
    BY IdlePlace
  <2>2. caller' = [caller EXCEPT ![c] = Idle] /\ queue' = queue
    BY <1>1 DEF Send
  <2>3. /\ caller' \in [Callers -> Place] /\ caller'[c] = Idle
        /\ \A d \in Callers \ {c} : caller'[d] = caller[d]
    BY <1>0, <2>1, <2>2 DEF Types
  <2>4. play' \in Nat /\ spec' \in Nat /\ hints' \in Nat
    BY <1>0 DEF Types
  <2> QED BY <1>0, <2>1, <2>2, <2>3, <2>4, CallerAlone
<1>2. CASE ~Stopped
  <2>1. queue' = Append(queue, command) /\ Goto(c, "waiting")
    BY <1>2 DEF Send
  <2>2. /\ caller' \in [Callers -> Place] /\ caller'[c].at = "waiting"
        /\ \A d \in Callers \ {c} : caller'[d] = caller[d]
    <3>1. "waiting" \in Places
      BY DEF Places
    <3> QED BY <1>0, <2>1, <3>1, Moved
  <2>3. queue \in Seq(Command) /\ Len(queue) + 1 \notin DOMAIN queue
    BY <1>0, Appended DEF Types
  <2>4. /\ queue' \in Seq(Command) /\ DOMAIN queue' = (DOMAIN queue) \cup {Len(queue) + 1}
        /\ queue'[Len(queue) + 1] = command
        /\ \A i \in DOMAIN queue : queue'[i] = queue[i]
    BY <2>1, <2>3, Appended
  <2>5. \A i \in DOMAIN queue : queue[i].from # c /\ queue[i].from \in Callers
    BY <1>0, Queued DEF IInv, Answerable
  <2>6. \A i \in DOMAIN queue' : i \in DOMAIN queue \/ i = Len(queue) + 1
    BY <2>4
  <2>7. Types'
    BY <1>0, <2>2, <2>4 DEF Types
  <2>8. Prepared' /\ CacheOfActive' /\ ClosedOnce'
    BY <1>0 DEF IInv, Prepared, CacheOfActive, ClosedOnce
  <2>9. \A i \in DOMAIN queue' : caller'[queue'[i].from].at = "waiting"
    BY <2>2, <2>4, <2>5, <2>6 DEF IInv, Answerable
  <2>10. \A i, j \in DOMAIN queue' : queue'[i].from = queue'[j].from => i = j
    BY <2>4, <2>5, <2>6 DEF IInv, Answerable
  <2>11. (Owing => /\ runner.command.from \in Callers /\ caller[runner.command.from].at = "waiting"
                   /\ \A i \in DOMAIN queue : queue[i].from # runner.command.from)'
    <3>1. Owing => /\ runner.command.from \in Callers /\ runner.command.from # c
                   /\ caller[runner.command.from].at = "waiting"
                   /\ \A i \in DOMAIN queue : queue[i].from # runner.command.from
      BY DEF IInv, Answerable
    <3> QED BY <1>0, <2>2, <2>4, <2>6, <3>1 DEF Owing
  <2>12. \A d \in Callers : caller'[d].at = "waiting" =>
           \/ \E i \in DOMAIN queue' : queue'[i].from = d
           \/ (Owing /\ runner.command.from = d)'
    <3> SUFFICES ASSUME NEW d \in Callers, caller'[d].at = "waiting"
                 PROVE  \/ \E i \in DOMAIN queue' : queue'[i].from = d
                        \/ (Owing /\ runner.command.from = d)'
      OBVIOUS
    <3>1. CASE d = c
      <4>1. Len(queue) + 1 \in DOMAIN queue'
        BY <2>4
      <4> QED BY <2>4, <3>1, <4>1
    <3>2. CASE d # c
      <4>1. caller[d].at = "waiting"
        BY <2>2, <3>2
      <4>2. \/ \E i \in DOMAIN queue : queue[i].from = d
            \/ Owing /\ runner.command.from = d
        BY <4>1 DEF IInv, Answerable
      <4>3. DOMAIN queue \subseteq DOMAIN queue'
        BY <2>4
      <4> QED BY <1>0, <2>4, <4>2, <4>3 DEF Owing
    <3> QED BY <3>1, <3>2
  <2>13. Answerable'
    BY <2>9, <2>10, <2>11, <2>12 DEF Answerable
  <2> QED BY <2>7, <2>8, <2>13 DEF IInv
<1> QED BY <1>1, <1>2

\* Every step of a handle method.
LEMMA CallerInv ==
  ASSUME IInv, NEW c \in Callers, CallerStep(c)
  PROVE  IInv'
<1>0. Types /\ play \in Nat /\ spec \in Nat /\ hints \in Nat /\ caller \in [Callers -> Place]
      /\ caller[c] \in Place
  BY DEF IInv, Types
<1>1. CASE SeekStart(c) \/ CloseStart(c) \/ DropHandle(c) \/ SeekFinish(c) \/ CloseAdvance(c)
  <2>1. PICK place \in {"seek", "close", "gone", "idle", "send_close"} : Goto(c, place)
    BY <1>1 DEF SeekStart, CloseStart, DropHandle, SeekFinish, CloseAdvance
  <2>2. place \in Places /\ place # "waiting" /\ caller[c].at # "waiting"
    BY <1>1 DEF Places, SeekStart, CloseStart, DropHandle, SeekFinish, CloseAdvance, At
  <2>3. /\ caller' \in [Callers -> Place] /\ caller'[c].at = place
        /\ \A d \in Callers \ {c} : caller'[d] = caller[d]
    BY <1>0, <2>1, <2>2, Moved
  <2>4. play' \in Nat /\ spec' \in Nat /\ hints' \in Nat
    BY <1>0, <1>1 DEF SeekStart, CloseStart, DropHandle, SeekFinish, CloseAdvance, AdvanceSpec,
                      tokens
  <2>5. UNCHANGED <<queue, runner, active, cached, closes>>
    BY <1>1 DEF SeekStart, CloseStart, DropHandle, SeekFinish, CloseAdvance, callersOnly
  <2> QED BY <2>2, <2>3, <2>4, <2>5, CallerAlone
<1>2. CASE ReadStart(c) \/ ReadLoad(c) \/ PrefetchLoad(c)
  <2>1. PICK place \in {"read", "send_read", "publish"}, n \in Nat :
          \/ caller' = [caller EXCEPT ![c].at = place, ![c].spec = n]
          \/ caller' = [caller EXCEPT ![c].at = place, ![c].play = n]
    <3>1. spec + 1 \in Nat
      BY <1>0
    <3>2. CASE ReadStart(c)
      BY <1>0, <3>1, <3>2 DEF ReadStart
    <3>3. CASE ReadLoad(c)
      BY <1>0, <3>3 DEF ReadLoad
    <3>4. CASE PrefetchLoad(c)
      BY <1>0, <3>4 DEF PrefetchLoad
    <3> QED BY <1>2, <3>2, <3>3, <3>4
  <2>2. place \in Places /\ place # "waiting" /\ caller[c].at # "waiting"
    BY <1>2 DEF Places, ReadStart, ReadLoad, PrefetchLoad, At
  <2>3. /\ caller' \in [Callers -> Place] /\ caller'[c].at = place
        /\ \A d \in Callers \ {c} : caller'[d] = caller[d]
    BY <1>0, <2>1, <2>2, Loaded
  <2>4. play' \in Nat /\ spec' \in Nat /\ hints' \in Nat
    BY <1>0, <1>2 DEF ReadStart, ReadLoad, PrefetchLoad, AdvanceSpec, tokens
  <2>5. UNCHANGED <<queue, runner, active, cached, closes>>
    BY <1>2 DEF ReadStart, ReadLoad, PrefetchLoad, callersOnly
  <2> QED BY <2>2, <2>3, <2>4, <2>5, CallerAlone
<1>3. CASE PrefetchStart(c) \/ PrefetchPublish(c)
  <2>1. PICK x \in Place : x.at # "waiting" /\ caller' = [caller EXCEPT ![c] = x]
    <3>1. CASE PrefetchStart(c)
      <4>1. [at |-> "hint", id |-> hints + 1, play |-> play, spec |-> 0] \in Place
        BY <1>0 DEF Place, Places
      <4> QED BY <3>1, <4>1 DEF PrefetchStart
    <3>2. CASE PrefetchPublish(c)
      BY <3>2, IdlePlace DEF PrefetchPublish
    <3> QED BY <1>3, <3>1, <3>2
  <2>2. caller[c].at # "waiting"
    BY <1>3 DEF PrefetchStart, PrefetchPublish, At
  <2>3. /\ caller' \in [Callers -> Place] /\ caller'[c] = x
        /\ \A d \in Callers \ {c} : caller'[d] = caller[d]
    BY <1>0, <2>1
  <2>4. play' \in Nat /\ spec' \in Nat /\ hints' \in Nat
    BY <1>0, <1>3 DEF PrefetchStart, PrefetchPublish, tokens
  <2>5. UNCHANGED <<queue, runner, active, cached, closes>>
    BY <1>3 DEF PrefetchStart, PrefetchPublish, callersOnly
  <2> QED BY <2>1, <2>2, <2>3, <2>4, <2>5, CallerAlone
<1>4. CASE ReadSend(c)
  <2>1. caller[c].play \in Nat /\ caller[c].spec \in Nat
    BY <1>0 DEF Place
  <2>2. ReadCommand(c) \in Command /\ ReadCommand(c).from = c
    BY <2>1 DEF ReadCommand, Command
  <2>3. caller[c].at # "waiting" /\ Send(c, ReadCommand(c))
    BY <1>4 DEF ReadSend, At
  <2> QED BY <2>2, <2>3, SendInv
<1>5. CASE CloseSend(c)
  <2>1. Shutdown(c) \in Command /\ Shutdown(c).from = c
    BY DEF Shutdown, Command
  <2>2. caller[c].at # "waiting" /\ Send(c, Shutdown(c))
    BY <1>5 DEF CloseSend, At
  <2> QED BY <2>1, <2>2, SendInv
<1> QED BY <1>1, <1>2, <1>3, <1>4, <1>5 DEF CallerStep, MethodStep

-----------------------------------------------------------------------------
(* The runner.                                                             *)

\* A step that neither takes a command nor answers one.
LEMMA RunnerAlone ==
  ASSUME IInv, UNCHANGED <<play, spec, caller, queue, closes>>, hints' \in Nat,
         Owing' <=> Owing, Owing => runner'.command.from = runner.command.from,
         closes = 1 => runner'.at \in {"closing", "leaving", "stopped"},
         Prepared', CacheOfActive'
  PROVE  IInv'
<1>1. Types' /\ ClosedOnce'
  BY DEF IInv, Types, ClosedOnce
<1>2. (Owing => /\ runner.command.from \in Callers /\ caller[runner.command.from].at = "waiting"
                /\ \A i \in DOMAIN queue : queue[i].from # runner.command.from)'
  BY DEF IInv, Answerable
<1>3. (\A d \in Callers : caller[d].at = "waiting" =>
         \/ \E i \in DOMAIN queue : queue[i].from = d
         \/ Owing /\ runner.command.from = d)'
  BY DEF IInv, Answerable
<1>4. Answerable'
  BY <1>2, <1>3 DEF IInv, Answerable
<1> QED BY <1>1, <1>4 DEF IInv

\* Hints: noticing one, waiting out the grace period, borrowing and publishing one.
LEMMA HintInv ==
  ASSUME IInv, NoticeHint \/ HandlesGone \/ GraceOver \/ BorrowHint \/ PublishAuto
  PROVE  IInv'
<1>1. UNCHANGED <<play, spec, hints, caller, queue, closes, active, cached>>
  BY DEF NoticeHint, HandlesGone, GraceOver, BorrowHint, PublishAuto, runnerOnly, tokens, channels
<1>2. runner.at \in {"select", "grace", "borrow", "auto"}
  BY DEF NoticeHint, HandlesGone, GraceOver, BorrowHint, PublishAuto
<1>3. runner'.at \in {"select", "grace", "borrow", "prepare"}
  BY DEF NoticeHint, HandlesGone, GraceOver, BorrowHint, PublishAuto, Serving, Selecting
<1>4. ~Owing /\ ~Owing' /\ closes # 1 /\ hints' \in Nat
  BY <1>1, <1>2, <1>3 DEF Owing, IInv, ClosedOnce, Types
<1>5. Prepared' /\ CacheOfActive'
  BY <1>1, <1>3 DEF Prepared, CacheOfActive, IInv
<1> QED BY <1>1, <1>4, <1>5, RunnerAlone

\* A prefetch: the generation is prepared before the I/O, and what the I/O
\* brings is of that generation.
LEMMA PrefetchInv ==
  ASSUME IInv, StartPrefetch \/ EndPrefetch
  PROVE  IInv'
<1>1. UNCHANGED <<play, spec, hints, caller, queue, closes>>
  BY DEF StartPrefetch, EndPrefetch, runnerOnly, tokens, channels
<1>2. runner.at \in {"prepare", "prefetching"} /\ runner'.at \in {"select", "prefetching"}
  BY DEF StartPrefetch, EndPrefetch, Serving, Selecting
<1>3. ~Owing /\ ~Owing' /\ closes # 1 /\ hints' \in Nat
  BY <1>1, <1>2 DEF Owing, IInv, ClosedOnce, Types
<1>4. CASE StartPrefetch
  <2>1. CacheOfActive'
    BY <1>4 DEF StartPrefetch, PrepareGeneration, CacheOfActive, IInv
  <2>2. Prepared'
    BY <1>4 DEF StartPrefetch, PrepareGeneration, Prepared, Serving, Selecting
  <2> QED BY <1>1, <1>3, <2>1, <2>2, RunnerAlone
<1>5. CASE EndPrefetch
  <2>1. CacheOfActive'
    BY <1>5 DEF EndPrefetch, CacheOfActive, Prepared, IInv
  <2>2. Prepared'
    BY <1>5 DEF EndPrefetch, Prepared, Serving, Selecting
  <2> QED BY <1>1, <1>3, <2>1, <2>2, RunnerAlone
<1> QED BY <1>4, <1>5

\* A read's I/O ends: its bytes are of the active generation, or dropped.
LEMMA EndReadInv ==
  ASSUME IInv, EndRead
  PROVE  IInv'
<1>1. /\ UNCHANGED <<play, spec, caller, queue, closes, active>>
      /\ runner.at = "reading" /\ runner'.at = "reply" /\ runner'.command = runner.command
      /\ hints' \in {hints, hints + 1}
      /\ cached' \in {{}, cached, cached \cup {runner.command.play}}
  BY DEF EndRead, tokens, channels
<1>2. Owing /\ Owing' /\ closes # 1 /\ hints' \in Nat
  BY <1>1 DEF Owing, IInv, ClosedOnce, Types
<1>3. CacheOfActive'
  BY <1>1 DEF CacheOfActive, Prepared, IInv
<1>4. Prepared'
  BY <1>1 DEF Prepared
<1> QED BY <1>1, <1>2, <1>3, <1>4, RunnerAlone

\* The head of the queue becomes the command the runner works on.
LEMMA TakeCommandInv ==
  ASSUME IInv, TakeCommand
  PROVE  IInv'
<1>1. /\ Types /\ queue \in Seq(Command) /\ queue # << >> /\ queue' = Tail(queue)
      /\ runner.at \in {"select", "grace"}
      /\ UNCHANGED <<play, spec, hints, caller>>
  BY DEF IInv, Types, TakeCommand, runnerOnly, tokens
<1>2. /\ Head(queue) = queue[1] /\ 1 \in DOMAIN queue /\ queue' \in Seq(Command)
      /\ \A i \in DOMAIN queue' : i + 1 \in DOMAIN queue /\ i + 1 # 1 /\ queue'[i] = queue[i + 1]
      /\ \A i, j \in DOMAIN queue' : i + 1 = j + 1 => i = j
      /\ \A i \in DOMAIN queue : i # 1 => i - 1 \in DOMAIN queue' /\ queue'[i - 1] = queue[i]
  BY <1>1, Taken
<1>3. /\ runner'.command = queue[1] /\ runner'.at \in {"reading", "reply", "closing"}
      /\ runner'.at = "reading" => active' = queue[1].play
      /\ \/ active' = active /\ cached' = cached
         \/ active' = queue[1].play /\ cached' = IF queue[1].play # active THEN {} ELSE cached
      /\ \/ closes' = closes + 1 /\ runner'.at = "closing"
         \/ closes' = closes
  BY <1>2 DEF TakeCommand, TakeRead, TakeShutdown, PrepareGeneration, Serving
<1>4. closes = 0 /\ ~Owing /\ Owing'
  BY <1>1, <1>3 DEF IInv, Types, ClosedOnce, Owing
<1>5. Types' /\ ClosedOnce'
  <2>1. closes' \in {0, 1}
    BY <1>3, <1>4
  <2>2. ClosedOnce'
    BY <1>3, <1>4, <2>1 DEF ClosedOnce
  <2> QED BY <1>1, <1>2, <2>1, <2>2 DEF Types
<1>6. Prepared' /\ CacheOfActive'
  BY <1>3 DEF IInv, Prepared, CacheOfActive
<1>7. /\ \A i \in DOMAIN queue : queue[i].from \in Callers /\ caller[queue[i].from].at = "waiting"
      /\ \A i, j \in DOMAIN queue : queue[i].from = queue[j].from => i = j
      /\ \A c \in Callers : caller[c].at = "waiting" => \E i \in DOMAIN queue : queue[i].from = c
  BY <1>1, <1>4, Queued DEF IInv, Answerable
<1>8. (\A i \in DOMAIN queue : caller[queue[i].from].at = "waiting")'
  BY <1>1, <1>2, <1>7
<1>9. (\A i, j \in DOMAIN queue : queue[i].from = queue[j].from => i = j)'
  BY <1>2, <1>7
<1>10. (/\ runner.command.from \in Callers /\ caller[runner.command.from].at = "waiting"
        /\ \A i \in DOMAIN queue : queue[i].from # runner.command.from)'
  BY <1>1, <1>2, <1>3, <1>7
<1>11. (\A c \in Callers : caller[c].at = "waiting" =>
          \/ \E i \in DOMAIN queue : queue[i].from = c
          \/ runner.command.from = c)'
  <2> SUFFICES ASSUME NEW c \in Callers, caller[c].at = "waiting"
               PROVE  \/ \E i \in DOMAIN queue' : queue'[i].from = c
                      \/ runner'.command.from = c
    BY <1>1
  <2>1. PICK i \in DOMAIN queue : queue[i].from = c
    BY <1>7
  <2> QED BY <1>2, <1>3, <2>1
<1>12. Answerable'
  BY <1>4, <1>8, <1>9, <1>10, <1>11 DEF Answerable
<1> QED BY <1>5, <1>6, <1>12 DEF IInv

\* The caller the runner owes an answer gets it.
LEMMA ReplyInv ==
  ASSUME IInv, Owing, NEW result, Reply(runner.command.from, result), ~Owing', Prepared',
         UNCHANGED <<play, spec, hints, queue, closes, active, cached>>,
         closes = 1 => runner'.at \in {"closing", "leaving", "stopped"}
  PROVE  IInv'
<1> DEFINE c == runner.command.from
<1>1. /\ c \in Callers /\ caller \in [Callers -> Place]
      /\ caller' = [caller EXCEPT ![c] = Idle]
      /\ \A i \in DOMAIN queue : queue[i].from # c
  BY DEF IInv, Types, Answerable, Reply
<1>2. /\ caller' \in [Callers -> Place] /\ caller'[c].at = "idle"
      /\ \A d \in Callers : d # c => caller'[d] = caller[d]
  BY <1>1, IdlePlace
<1>3. Types' /\ ClosedOnce'
  BY <1>2 DEF IInv, Types, ClosedOnce
<1>4. Prepared' /\ CacheOfActive'
  BY DEF IInv, CacheOfActive
<1>5. \A i \in DOMAIN queue : queue[i].from \in Callers /\ queue[i].from # c
  BY <1>1, Queued DEF IInv
<1>6. (\A i \in DOMAIN queue : caller[queue[i].from].at = "waiting")'
  BY <1>2, <1>5 DEF IInv, Answerable
<1>7. (\A d \in Callers : caller[d].at = "waiting" => \E i \in DOMAIN queue : queue[i].from = d)'
  <2>1. \A d \in Callers : caller[d].at = "waiting" =>
           d = c \/ \E i \in DOMAIN queue : queue[i].from = d
    BY DEF IInv, Answerable
  <2>2. "idle" # "waiting"
    OBVIOUS
  <2> QED BY <1>2, <2>1, <2>2
<1>8. Answerable'
  BY <1>6, <1>7 DEF IInv, Answerable
<1> QED BY <1>3, <1>4, <1>8 DEF IInv

\* run() returns: nobody is left waiting.
LEMMA LeaveInv ==
  ASSUME IInv, Leave
  PROVE  IInv'
<1> DEFINE waiting == {queue[i].from : i \in DOMAIN queue}
<1>1. /\ UNCHANGED <<play, spec, hints, closes, active, cached>>
      /\ runner.at = "leaving" /\ runner'.at = "stopped" /\ queue' = << >>
      /\ caller' = [c \in Callers |-> IF c \in waiting THEN Idle ELSE caller[c]]
  BY DEF Leave, Serving, runnerOnly, tokens
<1>2. ~Owing /\ ~Owing'
  BY <1>1 DEF Owing
<1>3. \A c \in Callers : caller[c].at = "waiting" => c \in waiting
  BY <1>2 DEF IInv, Answerable
<1> HIDE DEF waiting
<1>4. caller \in [Callers -> Place]
  BY DEF IInv, Types
<1>5. caller' \in [Callers -> Place] /\ \A c \in Callers : caller'[c].at # "waiting"
  BY <1>1, <1>3, <1>4, IdlePlace
<1>6. queue' \in Seq(Command) /\ DOMAIN queue' = {}
  BY <1>1
<1>7. Types' /\ ClosedOnce'
  BY <1>1, <1>5, <1>6 DEF IInv, Types, ClosedOnce
<1>8. Prepared' /\ CacheOfActive'
  BY <1>1 DEF IInv, Prepared, CacheOfActive
<1>9. Answerable'
  BY <1>2, <1>5, <1>6 DEF Answerable
<1> QED BY <1>7, <1>8, <1>9 DEF IInv

-----------------------------------------------------------------------------
(* The theorems.                                                           *)

\* The broker starts idle.
LEMMA InitInv == Init => IInv
<1> SUFFICES ASSUME Init PROVE IInv
  OBVIOUS
<1>1. runner.at = "select" /\ queue = << >> /\ queue \in Seq(Command) /\ DOMAIN queue = {}
  BY DEF Init, Selecting, Serving
<1>2. Types
  BY <1>1, IdlePlace DEF Init, Types
<1>3. \A c \in Callers : caller[c].at = "idle"
  BY IdlePlace DEF Init
<1>4. Prepared /\ CacheOfActive /\ ClosedOnce
  BY <1>1 DEF Init, Prepared, CacheOfActive, ClosedOnce
<1>5. Answerable
  BY <1>1, <1>3 DEF Answerable, Owing
<1> QED BY <1>2, <1>4, <1>5 DEF IInv

\* Every step of a caller or of the runner keeps the invariant.
LEMMA StepInv == IInv /\ [Next]_vars => IInv'
<1> SUFFICES ASSUME IInv, [Next]_vars PROVE IInv'
  OBVIOUS
<1>1. ASSUME NEW c \in Callers, CallerStep(c) PROVE IInv'
  BY <1>1, CallerInv
<1>2. CASE NoticeHint \/ HandlesGone \/ GraceOver \/ BorrowHint \/ PublishAuto
  BY <1>2, HintInv
<1>3. CASE StartPrefetch \/ EndPrefetch
  BY <1>3, PrefetchInv
<1>4. CASE EndRead
  BY <1>4, EndReadInv
<1>5. CASE TakeCommand
  BY <1>5, TakeCommandInv
<1>6. CASE ReplyRead
  <2>1. /\ runner.at = "reply" /\ Reply(runner.command.from, runner.result)
        /\ runner'.at \in {"select", "auto"}
        /\ UNCHANGED <<play, spec, hints, queue, closes, active, cached>>
    BY <1>6 DEF ReplyRead, Selecting, Serving, runnerOnly, tokens, channels
  <2>2. Owing /\ ~Owing' /\ Prepared' /\ closes # 1
    BY <2>1 DEF Owing, Prepared, IInv, ClosedOnce
  <2> QED BY <2>1, <2>2, ReplyInv
<1>7. CASE EndClose
  <2>1. /\ runner.at = "closing" /\ runner'.at = "leaving"
        /\ UNCHANGED <<play, spec, hints, queue, closes, active, cached>>
    BY <1>7 DEF EndClose, Serving, runnerOnly, tokens, channels
  <2>2. PICK result : Reply(runner.command.from, result)
    BY <1>7 DEF EndClose
  <2>3. Owing /\ ~Owing' /\ Prepared'
    BY <2>1 DEF Owing, Prepared
  <2> QED BY <2>1, <2>2, <2>3, ReplyInv
<1>8. CASE Leave
  BY <1>8, LeaveInv
<1>9. CASE UNCHANGED vars
  BY <1>9 DEF vars, tokens, channels, IInv, Types, Prepared, CacheOfActive, ClosedOnce, Answerable, Owing
<1> QED BY <1>1, <1>2, <1>3, <1>4, <1>5, <1>6, <1>7, <1>8, <1>9 DEF Next, RunnerStep

(***************************************************************************)
(* The invariant of the broker: the parts the theorems below take from it. *)
(***************************************************************************)
THEOREM BrokerInv == Spec => []IInv
BY InitInv, StepInv, PTL DEF Spec

(***************************************************************************)
(* Cached bytes belong to the generation last prepared                     *)
(* (prepare_generation), whatever order reads, prefetches, seeks and       *)
(* cancellations come in, and however many callers there are.              *)
(***************************************************************************)
THEOREM CacheCorrect == Spec => []CacheOfActive
<1>1. IInv => CacheOfActive
  BY DEF IInv
<1> QED BY <1>1, BrokerInv, PTL

(***************************************************************************)
(* CLOSE is sent at most once and no SMB I/O follows it (run,              *)
(* close_source), however many callers close.                              *)
(***************************************************************************)
THEOREM CloseCorrect == Spec => []ClosedOnce
<1>1. IInv => ClosedOnce
  BY DEF IInv
<1> QED BY <1>1, BrokerInv, PTL

(***************************************************************************)
(* A caller that waits for an answer has exactly one command, in the queue *)
(* or with the runner, and each command there has its caller waiting: no   *)
(* command is lost, answered twice or answered to somebody else.           *)
(***************************************************************************)
THEOREM AnswerCorrect == Spec => []Answerable
<1>1. IInv => Answerable
  BY DEF IInv
<1> QED BY <1>1, BrokerInv, PTL
=============================================================================
