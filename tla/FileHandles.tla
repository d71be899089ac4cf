----------------------------- MODULE FileHandles ----------------------------
(***************************************************************************)
(* One editable file handle of crates/smb-android/src/engine.rs, shared by *)
(* the threads of the Android process: a random-access handle              *)
(* (RandomEntry: open/read/write/set_length/flush/close_random) or an      *)
(* output stream (WritableSession: open/write/flush/close_writable).       *)
(*                                                                         *)
(* A call looks the handle up in its HandleTable, and only then locks the  *)
(* session; CLOSE removes it from the table first and locks afterwards.    *)
(* Other calls run between any two of these steps.  The SMB file is        *)
(* external: it may have applied any part of a request that failed.        *)
(* Nobody but this handle changes the file.                                *)
(***************************************************************************)
EXTENDS Integers

CONSTANTS
  Threads,        \* Java threads that share the handle
  MaxLen,         \* i64::MAX, the largest end of file
  MaxCalls        \* bound: number of calls

ASSUME HandleLimits ==
  /\ "nobody" \notin Threads
  /\ MaxLen \in Nat
  /\ MaxCalls \in Nat

VARIABLES
  kind,           \* "none", then the kind of handle that was opened
  listed,         \* the handle is in its HandleTable
  closing,        \* RandomEntry::closing
  lock,           \* the thread that holds the session's Mutex, or Nobody
  poisoned,       \* the session's poisoned flag
  len,            \* FileHandle::end_of_file, which clips every READ
  thread,         \* per thread: where it is in a call, which call, its range
  calls,          \* calls begun
  eof,            \* external: the end of the file on the server
  closes,         \* external: CLOSE requests sent
  broken          \* external: a request other than CLOSE has failed

session == <<lock, poisoned, len>>
file == <<eof, closes, broken>>
vars == <<kind, listed, closing, session, thread, calls, file>>

Nobody == "nobody"
Idle == [at |-> "idle", op |-> "none", off |-> 0, size |-> 0]
Call(at, op, off, size) == [at |-> at, op |-> op, off |-> off, size |-> size]

Larger(a, b) == IF a >= b THEN a ELSE b

At(t, place) == thread[t].at = place
Goto(t, place) == thread' = [thread EXCEPT ![t].at = place]
Done(t) == thread' = [thread EXCEPT ![t] = Idle]

-----------------------------------------------------------------------------
Init ==
  /\ kind = "none"
  /\ listed = FALSE
  /\ closing = FALSE
  /\ lock = Nobody
  /\ poisoned = FALSE
  /\ len = 0
  /\ thread = [t \in Threads |-> Idle]
  /\ calls = 0
  /\ eof \in 0 .. MaxLen
  /\ closes = 0
  /\ broken = FALSE

\* FILE_OPEN keeps the content, and CREATE reports its length.
OpenRandom ==
  /\ kind = "none"
  /\ kind' = "random"
  /\ listed' = TRUE
  /\ len' = eof
  /\ UNCHANGED <<closing, lock, poisoned, thread, calls, file>>

\* OVERWRITE_IF truncates the file.
OpenWritable ==
  /\ kind = "none"
  /\ kind' = "writable"
  /\ listed' = TRUE
  /\ len' = 0
  /\ eof' = 0
  /\ UNCHANGED <<closing, lock, poisoned, thread, calls, closes, broken>>

-----------------------------------------------------------------------------
(* Looking the handle up.  A call on a handle that is not listed returns    *)
(* InvalidHandle and changes nothing.                                       *)

RandomOnly == {"read", "resize"}

Get(t, op, off, size) ==
  /\ At(t, "idle")
  /\ calls < MaxCalls
  /\ listed
  /\ op \in RandomOnly => kind = "random"
  /\ calls' = calls + 1
  /\ thread' = [thread EXCEPT ![t] = Call("got", op, off, size)]
  /\ UNCHANGED <<kind, listed, closing, session, file>>

GetRead(t, off, size) == Get(t, "read", off, size)

\* A random-access write checks the end of its range before the lookup; for an
\* output stream the server alone does.
GetWrite(t, off, size) ==
  /\ kind = "random" => off + size <= MaxLen
  /\ Get(t, "write", off, size)

GetResize(t, size) == size <= MaxLen /\ Get(t, "resize", 0, size)

GetFlush(t) == Get(t, "flush", 0, 0)

RemoveKeeping(t) ==
  /\ At(t, "idle")
  /\ calls < MaxCalls
  /\ listed
  /\ calls' = calls + 1
  /\ thread' = [thread EXCEPT ![t] = Call("removed", "close", 0, 0)]
  /\ UNCHANGED <<kind, listed, closing, session, file>>

\* close takes the handle out of the table: nobody finds it any more.
RemoveHandle(t) ==
  /\ At(t, "idle")
  /\ calls < MaxCalls
  /\ listed
  /\ listed' = FALSE
  /\ calls' = calls + 1
  /\ thread' = [thread EXCEPT ![t] = Call("removed", "close", 0, 0)]
  /\ UNCHANGED <<kind, closing, session, file>>

MarkClosingNever(t) ==
  /\ At(t, "removed")
  /\ Goto(t, "got")
  /\ UNCHANGED <<kind, listed, closing, session, calls, file>>

\* closing.store(true), which only random-access handles have.
MarkClosing(t) ==
  /\ At(t, "removed")
  /\ closing' = (kind = "random")
  /\ Goto(t, "got")
  /\ UNCHANGED <<kind, listed, session, calls, file>>

-----------------------------------------------------------------------------
(* Under the lock.                                                          *)

\* The lock is taken and the call refused without any request: the handle has
\* failed, or CLOSE has claimed it, or there is nothing to transfer.
Refuse(t) ==
  /\ At(t, "got")
  /\ lock = Nobody
  /\ thread[t].op # "close"
  /\ \/ closing
     \/ poisoned
     \/ thread[t].op \in {"read", "write"} /\ thread[t].size = 0
  /\ Done(t)
  /\ UNCHANGED <<kind, listed, closing, session, calls, file>>

\* The lock is held for as long as the requests of the call run.
StartIo(t) ==
  /\ At(t, "got")
  /\ lock = Nobody
  /\ ~closing /\ ~poisoned
  /\ thread[t].op \in {"read", "write"} => thread[t].size > 0
  /\ thread[t].op # "close"
  /\ lock' = t
  /\ Goto(t, "io")
  /\ UNCHANGED <<kind, listed, closing, poisoned, len, calls, file>>

\* CLOSE is sent whatever state the handle is in.
StartClose(t) ==
  /\ At(t, "got")
  /\ lock = Nobody
  /\ thread[t].op = "close"
  /\ lock' = t
  /\ Goto(t, "io")
  /\ closes' = closes + 1
  /\ UNCHANGED <<kind, listed, closing, poisoned, len, calls, eof, broken>>

Succeed(t) ==
  /\ lock' = Nobody
  /\ Done(t)
  /\ UNCHANGED <<kind, listed, closing, poisoned, calls, closes, broken>>

\* READ and FLUSH change nothing; nor does CLOSE, however it ends.
EndQuiet(t) ==
  /\ At(t, "io")
  /\ thread[t].op \in {"read", "flush", "close"}
  /\ Succeed(t)
  /\ UNCHANGED <<len, eof>>

RecordWriteEnd(end) == end

\* record_confirmed_len after a WRITE that ends at `end`.
RecordWrite(end) == Larger(len, end)

\* Every chunk was written; no server takes one past MaxLen.  The cached length
\* of an output stream is never used and stays as it was.
EndWrite(t) ==
  LET end == thread[t].off + thread[t].size IN
  /\ At(t, "io")
  /\ thread[t].op = "write"
  /\ end <= MaxLen
  /\ eof' = Larger(eof, end)
  /\ len' = IF kind = "random" THEN RecordWrite(end) ELSE len
  /\ Succeed(t)

EndResize(t) ==
  /\ At(t, "io")
  /\ thread[t].op = "resize"
  /\ eof' = thread[t].size
  /\ len' = thread[t].size
  /\ Succeed(t)

\* What the server may have done of a request whose outcome is unknown.
MayHaveApplied(t) ==
  CASE thread[t].op = "write" ->
         {Larger(eof, end) :
            end \in {0} \cup (0 .. MaxLen \cap
                             thread[t].off + 1 .. thread[t].off + thread[t].size)}
    [] thread[t].op = "resize" -> {eof, thread[t].size}
    [] OTHER -> {eof}

\* Any error poisons the handle and leaves the cached length alone.
FailIo(t) ==
  /\ At(t, "io")
  /\ thread[t].op # "close"
  /\ eof' \in MayHaveApplied(t)
  /\ poisoned' = TRUE
  /\ broken' = TRUE
  /\ lock' = Nobody
  /\ Done(t)
  /\ UNCHANGED <<kind, listed, closing, len, calls, closes>>

ThreadStep(t) ==
  \/ \E off \in 0 .. MaxLen, size \in 0 .. MaxLen : GetRead(t, off, size)
  \/ \E off \in 0 .. MaxLen, size \in 0 .. MaxLen + 1 : GetWrite(t, off, size)
  \/ \E size \in 0 .. MaxLen + 1 : GetResize(t, size)
  \/ GetFlush(t)
  \/ RemoveHandle(t)
  \/ MarkClosing(t)
  \/ Refuse(t)
  \/ StartIo(t)
  \/ StartClose(t)
  \/ EndQuiet(t)
  \/ EndWrite(t)
  \/ EndResize(t)
  \/ FailIo(t)

Next == OpenRandom \/ OpenWritable \/ \E t \in Threads : ThreadStep(t)

Spec == Init /\ [][Next]_vars

-----------------------------------------------------------------------------
Ops == {"none", "read", "write", "resize", "flush", "close"}

CallRecord == [at : {"idle", "got", "removed", "io"}, op : Ops, off : Nat, size : Nat]

FlagTypes ==
  /\ listed \in BOOLEAN /\ closing \in BOOLEAN
  /\ poisoned \in BOOLEAN /\ broken \in BOOLEAN

FileTypes ==
  /\ kind \in {"none", "random", "writable"}
  /\ lock \in Threads \cup {Nobody}
  /\ len \in 0 .. MaxLen
  /\ thread \in [Threads -> CallRecord]
  /\ calls \in Nat
  /\ eof \in 0 .. MaxLen
  /\ closes \in Nat

\* The handle, its callers and the file; no end of file passes i64::MAX.
TypeOK == FlagTypes /\ FileTypes

(***************************************************************************)
(* No request goes out on a handle whose earlier mutation may be half      *)
(* done, and on a random-access handle none at all once CLOSE was sent,    *)
(* not even from a thread that had looked the handle up before and waited  *)
(* for the lock (RandomEntry: "A waiter must not issue I/O after CLOSE has *)
(* claimed this handle").                                                  *)
(***************************************************************************)
SafeTraffic ==
  \A t \in Threads : At(t, "io") /\ thread[t].op # "close" =>
    /\ ~broken
    /\ kind = "random" => closes = 0

(***************************************************************************)
(* Only one of the threads that close the handle sends CLOSE, and while it *)
(* does no other request is on the wire.                                   *)
(***************************************************************************)
ClosedAlone ==
  /\ closes <= 1
  /\ \A t \in Threads : At(t, "io") /\ thread[t].op = "close" =>
       \A u \in Threads \ {t} : ~At(u, "io")

(***************************************************************************)
(* Whenever a random-access handle may still be used, the length that      *)
(* clips its READs is the file's: growing, shrinking and failing calls of  *)
(* several threads never leave it stale (file.rs: "Never update it after a *)
(* failed or ambiguous mutation").                                         *)
(***************************************************************************)
CachedLength == kind = "random" /\ ~poisoned => len = eof
=============================================================================
