--------------------------- MODULE RecoveringRead ---------------------------
(***************************************************************************)
(* A read-only file that outlives its connection: RecoveringReadOnlyFile   *)
(* (crates/smb-client/src/recovering_read.rs) over the recipe, the         *)
(* identity check and the durable open of reconnect.rs and                 *)
(* durable_open.rs.                                                        *)
(*                                                                         *)
(* A call reads, and after a retryable failure makes a new connection in   *)
(* at most `policy` attempts and replays the READ once.  Each await of     *)
(* connect_read_only_file is a phase: the network may fail in it, and in   *)
(* a cancellable call the future is dropped in it when the token advances. *)
(* The identity of a file is its length and time as the CREATE response    *)
(* gives them and up to three samples, each an await of its own.           *)
(* Meanwhile the file at the path is replaced or modified and the server   *)
(* forgets durable opens.                                                  *)
(***************************************************************************)
EXTENDS Integers, Sequences

CONSTANTS
  Inodes,         \* files the path may name
  FirstFile,      \* the file at the path to begin with
  NoFile,         \* no file
  Versions,       \* data and LastWriteTime of a file; time 0 if the server gives none
  SampleBytes,    \* IDENTITY_SAMPLE_BYTES
  MaxAttempts,    \* largest ReadReconnectPolicy::max_connect_attempts
  MaxFaults,      \* failures of network and server, a bound
  MaxChanges,     \* replacements and modifications of the file, a bound
  MaxSeeks        \* advances of the cancellation token, a bound

ASSUME RecoveryLimits ==
  /\ FirstFile \in Inodes /\ NoFile \notin Inodes
  /\ \A v \in Versions : v \in [data : Seq(Nat), time : Nat]
  /\ SampleBytes \in Nat \ {0}
  /\ MaxAttempts \in Nat
  /\ MaxFaults \in Nat
  /\ MaxChanges \in Nat
  /\ MaxSeeks \in Nat

VARIABLES
  policy,         \* max_connect_attempts
  enabled,        \* durable_v2_enabled
  identity,       \* the recipe's FileIdentity, NoIdentity until it is set
  origin,         \* history: what the file was while that identity was captured
  handle,         \* the file of DurableRecoveryState::handle, NoFile if None
  unavailable,    \* DurableRecoveryState::unavailable
  session,        \* the session and file in use
  call,           \* the call in progress
  conn,           \* the open that is being made
  path,           \* the file at the path
  disk,           \* the version of every file
  kept,           \* the server still has the durable open `handle` names
  advanced,       \* the token has advanced since the call began
  outcome,        \* how the last call ended, while there is no other
  faults, changes, seeks

recipe == <<policy, enabled, identity, origin, handle, unavailable>>
serverSide == <<path, disk, kept>>
bounds == <<faults, changes, seeks>>
fileVars == <<recipe, session, call, conn, serverSide, advanced, outcome, bounds>>

NoIdentity == [len |-> 0, time |-> -1, samples |-> <<>>]
NoSession == [net |-> "none", late |-> FALSE, file |-> NoFile]

\* `seen` is history: the versions of the opened file since its CREATE.
NoOpen ==
  [file |-> NoFile, len |-> 0, time |-> 0, samples |-> <<>>, error |-> "none", seen |-> {}]

\* A call is in one of these phases; between "setup" and "closing" it connects.
Connecting == {"setup", "reclaim", "reclaimCheck", "openDurable", "durableCheck",
               "openPath", "pathCheck", "closing"}
Checking == {"reclaimCheck", "durableCheck", "pathCheck"}

NoCall == [phase |-> "idle", cancelable |-> FALSE, first |-> FALSE, attempt |-> 0, reads |-> 0]

-----------------------------------------------------------------------------
(* Helpers of the client.                                                  *)

\* An unknown time matches every time.
TimestampMatches(original, reopened) ==
  original = 0 \/ reopened = 0 \/ original = reopened

IsCompatible(original, reopened) ==
  /\ original.len = reopened.len
  /\ TimestampMatches(original.time, reopened.time)
  /\ original.samples = reopened.samples

Least(a, b) == IF a < b THEN a ELSE b

SampleOffsetsNoEnd(len) ==
  LET sample == Least(len, SampleBytes)
  IN  IF len = 0 THEN {} ELSE {0, Least(len \div 2 - sample \div 2, len - sample)}

\* identity_sample_offsets: beginning, middle and end, as far as they differ.
SampleOffsets(len) ==
  LET sample    == Least(len, SampleBytes)
      lastStart == len - sample
  IN  IF len = 0 THEN {} ELSE {0, Least(len \div 2 - sample \div 2, lastStart), lastStart}

SampleLen(len, offset) == Least(len - offset, SampleBytes)

\* The bytes a sample read at `offset` of a file opened with length `len` gets.
Sample(data, len, offset) == [i \in offset + 1 .. offset + SampleLen(len, offset) |-> data[i]]

Dropped == call.cancelable /\ advanced

\* The call returns.  Without a session it was connect_with_policy, and the
\* recipe is dropped with the error.
EndCall(status) ==
  /\ outcome' = status
  /\ call' = NoCall
  /\ conn' = NoOpen

GoTo(phase) == call' = [call EXCEPT !.phase = phase]

FailsOneMore(error) ==
  IF error = "retryable" /\ call.attempt <= policy /\ ~call.first
    THEN /\ GoTo("backoff")
         /\ conn' = NoOpen
         /\ UNCHANGED outcome
    ELSE EndCall(error)

\* The error of one connection attempt: another attempt, or the end of the call.
Fails(error) ==
  IF error = "retryable" /\ call.attempt < policy /\ ~call.first
    THEN /\ GoTo("backoff")
         /\ conn' = NoOpen
         /\ UNCHANGED outcome
    ELSE EndCall(error)

Fault == faults < MaxFaults /\ faults' = faults + 1

-----------------------------------------------------------------------------
FileInit ==
  /\ policy \in 0 .. MaxAttempts
  /\ enabled \in BOOLEAN
  /\ identity = NoIdentity
  /\ origin = {}
  /\ handle = NoFile
  /\ unavailable = FALSE
  /\ session = NoSession
  /\ call = NoCall
  /\ conn = NoOpen
  /\ path = FirstFile
  /\ \E version \in Versions : disk = [file \in Inodes |-> version]
  /\ kept = FALSE
  /\ advanced = FALSE
  /\ outcome = "none"
  /\ faults = 0 /\ changes = 0 /\ seeks = 0

\* connect_with_policy: one attempt, with a recipe that remembers nothing.  A file
\* that was not opened, or was closed, is gone; the next is another behaviour.
Connect ==
  /\ call = NoCall
  /\ session = NoSession /\ outcome = "none"
  /\ call' = [NoCall EXCEPT !.phase = "setup", !.first = TRUE]
  /\ UNCHANGED <<recipe, session, conn, serverSide, advanced, outcome, bounds>>

\* The plain and the cancellable read differ in whether they look at the token.
StartRead(cancelable) ==
  /\ call = NoCall
  /\ session # NoSession
  /\ call' = [NoCall EXCEPT !.phase = "sending", !.cancelable = cancelable]
  /\ advanced' = FALSE
  /\ outcome' = "none"
  /\ UNCHANGED <<recipe, session, conn, serverSide, bounds>>

\* The READs are sent unless the token has advanced.
BeginRead ==
  /\ call.phase = "sending"
  /\ IF Dropped
       THEN EndCall("cancelled")
       ELSE /\ call' = [call EXCEPT !.phase = "reading", !.reads = @ + 1]
            /\ UNCHANGED <<conn, outcome>>
  /\ UNCHANGED <<recipe, session, serverSide, advanced, bounds>>

ReadSucceeds ==
  /\ call.phase = "reading"
  /\ session.net = "up"
  /\ EndCall("data")
  /\ UNCHANGED <<recipe, session, serverSide, advanced, bounds>>

\* Outstanding READs are cancelled and drained.
ReadCancelled ==
  /\ call.phase = "reading"
  /\ Dropped
  /\ EndCall("cancelled")
  /\ UNCHANGED <<recipe, session, serverSide, advanced, bounds>>

\* An answer to a READ of an earlier call: no such MessageId is outstanding, a
\* protocol error.  This call's own answer is then the late one.
ReadMeetsLate ==
  /\ call.phase = "reading"
  /\ session.late
  /\ session' = [session EXCEPT !.late = session.net = "up"]
  /\ EndCall("fatal")
  /\ UNCHANGED <<recipe, serverSide, advanced, bounds>>

\* A status that does not call for a new connection.
ReadRefused ==
  /\ call.phase = "reading"
  /\ session.net = "up"
  /\ Fault
  /\ EndCall("fatal")
  /\ UNCHANGED <<recipe, session, serverSide, advanced, changes, seeks>>

\* should_recover; the replay's error is returned as it is.
ShouldRecover == policy > 0 /\ call.reads = 1

\* The loop of reconnect begins, unless the token has advanced.
Recover ==
  IF ~ShouldRecover THEN EndCall("retryable")
  ELSE IF Dropped THEN EndCall("cancelled")
  ELSE /\ call' = [call EXCEPT !.phase = "setup", !.attempt = 1]
       /\ UNCHANGED <<conn, outcome>>

\* The connection broke, or the server has forgotten the session.
ReadBroken ==
  /\ call.phase = "reading"
  /\ \/ session.net = "dead" /\ UNCHANGED faults
     \/ session.net = "up" /\ Fault
  /\ session' = [session EXCEPT !.net = "dead"]
  /\ Recover
  /\ UNCHANGED <<recipe, serverSide, advanced, changes, seeks>>

\* The answer takes longer than io_timeout; it may still come.
ReadTimesOut ==
  /\ call.phase = "reading"
  /\ session.net = "up"
  /\ Fault
  /\ session' = [session EXCEPT !.late = TRUE]
  /\ Recover
  /\ UNCHANGED <<recipe, serverSide, advanced, changes, seeks>>

BackoffUnchecked ==
  /\ call.phase = "backoff"
  /\ call' = [call EXCEPT !.phase = "setup", !.attempt = @ + 1]
  /\ UNCHANGED <<recipe, session, conn, serverSide, advanced, outcome, bounds>>

\* The next attempt, after reconnect_backoff_cancelable.
Backoff ==
  /\ call.phase = "backoff"
  /\ IF Dropped
       THEN EndCall("cancelled")
       ELSE /\ call' = [call EXCEPT !.phase = "setup", !.attempt = @ + 1]
            /\ UNCHANGED <<conn, outcome>>
  /\ UNCHANGED <<recipe, session, serverSide, advanced, bounds>>

\* NEGOTIATE, SESSION_SETUP and TREE_CONNECT succeed.
SetUp ==
  /\ call.phase = "setup"
  /\ GoTo(CASE enabled /\ handle # NoFile -> "reclaim"
            [] enabled /\ handle = NoFile /\ ~unavailable -> "openDurable"
            [] OTHER -> "openPath")
  /\ UNCHANGED <<recipe, session, conn, serverSide, advanced, outcome, bounds>>

\* An await of the connection attempt fails.
ConnectFails(error) ==
  /\ call.phase \in {"setup", "reclaim", "openDurable", "openPath", "pathCheck"}
  /\ Fault
  /\ Fails(error)
  /\ UNCHANGED <<recipe, session, serverSide, advanced, changes, seeks>>

Opened(file, phase) ==
  /\ GoTo(phase)
  /\ conn' = [file |-> file, len |-> Len(disk[file].data), time |-> disk[file].time,
              samples |-> <<>>, error |-> "none", seen |-> {disk[file]}]

\* reconnect_file_durable_v2, the DH2C request.
Reclaim ==
  /\ call.phase = "reclaim"
  /\ kept
  /\ Opened(handle, "reclaimCheck")
  /\ UNCHANGED <<recipe, session, serverSide, advanced, outcome, bounds>>

ReclaimNotFoundAgain ==
  /\ call.phase = "reclaim"
  /\ ~kept
  /\ GoTo("setup")
  /\ UNCHANGED <<recipe, session, conn, serverSide, advanced, outcome, bounds>>

ReclaimNotFoundFatal ==
  /\ call.phase = "reclaim"
  /\ ~kept
  /\ Fails("fatal")
  /\ UNCHANGED <<recipe, session, serverSide, advanced, bounds>>

\* The server no longer has the open, after a restart or its timeout.
ReclaimNotFound ==
  /\ call.phase = "reclaim"
  /\ ~kept
  /\ handle' = NoFile
  /\ GoTo(IF unavailable THEN "openPath" ELSE "openDurable")
  /\ UNCHANGED <<policy, enabled, identity, origin, unavailable, session, conn, serverSide,
                 advanced, outcome, bounds>>

\* The server now speaks a dialect without durable handles.
ReclaimUnavailable ==
  /\ call.phase = "reclaim"
  /\ handle' = NoFile
  /\ unavailable' = TRUE
  /\ GoTo("openPath")
  /\ UNCHANGED <<policy, enabled, identity, origin, session, conn, serverSide, advanced, outcome,
                 bounds>>

\* open_file_durable_v2 is granted.
OpenDurable ==
  /\ call.phase = "openDurable"
  /\ Opened(path, "durableCheck")
  /\ UNCHANGED <<recipe, session, serverSide, advanced, outcome, bounds>>

\* It is not granted: the plain open it made is closed again.
DurableNotGranted ==
  /\ call.phase = "openDurable"
  /\ unavailable' = TRUE
  /\ GoTo("openPath")
  /\ UNCHANGED <<policy, enabled, identity, origin, handle, session, conn, serverSide, advanced,
                 outcome, bounds>>

OpenPath ==
  /\ call.phase = "openPath"
  /\ Opened(path, "pathCheck")
  /\ UNCHANGED <<recipe, session, serverSide, advanced, outcome, bounds>>

Unread == SampleOffsets(conn.len) \ DOMAIN conn.samples

\* The sample capture_file_identity reads next.
NextSample(offset) == offset \in Unread /\ \A other \in Unread : offset <= other

\* The opened file still has the bytes of the sample, by the length of its CREATE.
Covers(data, len, offset) == offset + SampleLen(len, offset) <= Len(data)

\* One read_at of capture_file_identity; the file may have changed since the last.
ReadSample ==
  /\ call.phase \in Checking
  /\ \E offset \in Unread :
       /\ NextSample(offset)
       /\ Covers(disk[conn.file].data, conn.len, offset)
       /\ conn' = [conn EXCEPT !.samples =
                     [o \in DOMAIN @ \cup {offset} |->
                        IF o = offset THEN Sample(disk[conn.file].data, conn.len, offset)
                        ELSE @[o]]]
  /\ UNCHANGED <<recipe, session, call, serverSide, advanced, outcome, bounds>>

\* The sample is shorter than asked for, a protocol error.
ShortSample ==
  \E offset \in Unread :
    NextSample(offset) /\ ~Covers(disk[conn.file].data, conn.len, offset)

Captured == [len |-> conn.len, time |-> conn.time, samples |-> conn.samples]

\* remember_or_validate_file, once all samples are read.
Validates == Unread = {} /\ (identity = NoIdentity \/ IsCompatible(identity, Captured))

CheckFails == ShortSample \/ (Unread = {} /\ ~Validates)

\* The new session and file take the place of the old ones.
Accept ==
  /\ identity' = IF identity = NoIdentity THEN Captured ELSE identity
  /\ origin' = IF identity = NoIdentity THEN conn.seen ELSE origin
  /\ session' = [net |-> "up", late |-> FALSE, file |-> conn.file]
  /\ conn' = NoOpen
  /\ call' = IF call.first THEN NoCall ELSE [call EXCEPT !.phase = "sending"]
  /\ outcome' = IF call.first THEN "data" ELSE outcome

AcceptDurable ==
  /\ call.phase \in {"reclaimCheck", "durableCheck"}
  /\ Validates
  /\ Accept
  /\ handle' = conn.file
  /\ kept' = TRUE
  /\ UNCHANGED <<policy, enabled, unavailable, path, disk, advanced, bounds>>

AcceptPath ==
  /\ call.phase = "pathCheck"
  /\ Validates
  /\ Accept
  /\ UNCHANGED <<policy, enabled, handle, unavailable, serverSide, advanced, bounds>>

\* The check fails for the file or for the network: the durable open is given
\* up and closed.
RefuseDurable(error) ==
  /\ call.phase \in {"reclaimCheck", "durableCheck"}
  /\ \/ error = "fatal" /\ CheckFails /\ UNCHANGED faults
     \/ Fault
  /\ handle' = IF call.phase = "reclaimCheck" THEN NoFile ELSE handle
  /\ GoTo("closing")
  /\ conn' = [conn EXCEPT !.error = error]
  /\ UNCHANGED <<policy, enabled, identity, origin, unavailable, session, serverSide, advanced,
                 outcome, changes, seeks>>

\* CLOSE ends one way or the other and the error of the check is returned.
CloseRefused ==
  /\ call.phase = "closing"
  /\ Fails(conn.error)
  /\ UNCHANGED <<recipe, session, serverSide, advanced, bounds>>

RefusePath ==
  /\ call.phase = "pathCheck"
  /\ CheckFails
  /\ Fails("fatal")
  /\ UNCHANGED <<recipe, session, serverSide, advanced, bounds>>

\* The token wins the select of connect_read_only_file_cancelable: the attempt
\* is dropped where it is.
DropAttempt ==
  /\ call.phase \in Connecting
  /\ Dropped
  /\ EndCall("cancelled")
  /\ UNCHANGED <<recipe, session, serverSide, advanced, bounds>>

CallStep ==
  \/ Connect
  \/ \E cancelable \in BOOLEAN : StartRead(cancelable)
  \/ BeginRead \/ ReadSucceeds \/ ReadCancelled \/ ReadMeetsLate \/ ReadRefused
  \/ ReadBroken \/ ReadTimesOut \/ Backoff
  \/ SetUp
  \/ \E error \in {"retryable", "fatal"} : ConnectFails(error) \/ RefuseDurable(error)
  \/ Reclaim \/ ReclaimNotFound \/ ReclaimUnavailable
  \/ OpenDurable \/ DurableNotGranted \/ OpenPath \/ ReadSample
  \/ AcceptDurable \/ AcceptPath \/ CloseRefused \/ RefusePath
  \/ DropAttempt

\* close sends CLOSE once, without recovery, and gives up the file and its recipe.
Close ==
  /\ call = NoCall
  /\ session # NoSession
  /\ session' = NoSession
  /\ outcome' = "closed"
  /\ UNCHANGED <<recipe, call, conn, serverSide, advanced, bounds>>

-----------------------------------------------------------------------------
(* The player, the server and others who use the share.                    *)

AdvanceToken ==
  /\ call.cancelable /\ ~advanced
  /\ seeks < MaxSeeks
  /\ seeks' = seeks + 1
  /\ advanced' = TRUE
  /\ UNCHANGED <<recipe, session, call, conn, serverSide, outcome, faults, changes>>

\* A change before the first open is another initial state.
ChangesCount == changes < MaxChanges /\ (session # NoSession \/ conn # NoOpen)

\* Someone writes to a file that can be opened or is open.
Modify(file, version) ==
  /\ ChangesCount
  /\ file \in {path, handle, conn.file, session.file} \ {NoFile}
  /\ version # disk[file]
  /\ changes' = changes + 1
  /\ disk' = [disk EXCEPT ![file] = version]
  /\ conn' = IF conn.file = file THEN [conn EXCEPT !.seen = @ \cup {version}] ELSE conn
  /\ UNCHANGED <<recipe, session, call, path, kept, advanced, outcome, faults, seeks>>

\* Someone puts another file at the path; whoever has the old one open keeps it.
Replace(file, version) ==
  /\ ChangesCount
  /\ file \notin {path, handle, conn.file, session.file}
  /\ changes' = changes + 1
  /\ path' = file
  /\ disk' = [disk EXCEPT ![file] = version]
  /\ UNCHANGED <<recipe, session, call, conn, kept, advanced, outcome, faults, seeks>>

ServerForgets ==
  /\ kept
  /\ kept' = FALSE
  /\ UNCHANGED <<recipe, session, call, conn, path, disk, advanced, outcome, bounds>>

FileNext ==
  \/ CallStep
  \/ Close
  \/ AdvanceToken
  \/ \E file \in Inodes, version \in Versions : Modify(file, version) \/ Replace(file, version)
  \/ ServerForgets

FileSpec == FileInit /\ [][FileNext]_fileVars

\* A call goes on until it returns, and the player goes on reading: every await
\* ends (timeouts bound connect, send and receive).
FairFileSpec == FileSpec /\ WF_fileVars(CallStep)

-----------------------------------------------------------------------------
(***************************************************************************)
(* "a different file at the same path is never silently accepted", as far  *)
(* as capture_file_identity can tell.  When a connection takes the place   *)
(* of the one in use, by durable handle or by path, its file had at CREATE *)
(* the length of the file first accepted and no other known time, and its  *)
(* first, middle and last byte were, at some moment since that CREATE, the *)
(* bytes the first file had while it was opened.  So a file that nobody    *)
(* writes to during either open is the same in all of these; one that is   *)
(* written to during an open may be accepted with samples of two versions, *)
(* but never with a byte it did not have.                                  *)
(***************************************************************************)
Places(len) == IF len = 0 THEN {} ELSE {1, len \div 2 + 1, len}

SameFile(first, now) ==
  \E u \in first, v \in now :
    /\ Len(u.data) = Len(v.data)
    /\ TimestampMatches(u.time, v.time)
    /\ \A place \in Places(Len(v.data)) :
         \E x \in first, y \in now :
           /\ place \in DOMAIN x.data /\ place \in DOMAIN y.data
           /\ x.data[place] = y.data[place]

AcceptedSame ==
  [][call.phase \in Connecting /\ session' # session => SameFile(origin', conn.seen)]_fileVars

(***************************************************************************)
(* "the READ itself is replayed at most once", only over a connection made *)
(* for it, and the attempts keep to the policy.                            *)
(***************************************************************************)
ReplayedOnce ==
  /\ call.reads <= 2
  /\ call.reads = 2 => call.attempt > 0
  /\ call.attempt <= policy

(***************************************************************************)
(* "cancellation is never converted into a retry": once the token has      *)
(* advanced, a cancellable call begins no attempt and sends no READ.       *)
(***************************************************************************)
CancelStops ==
  [][Dropped => call'.attempt <= call.attempt /\ call'.reads <= call.reads]_fileVars

(***************************************************************************)
(* Every call returns: attempts, backoffs and replays do not chase one     *)
(* another for ever.                                                       *)
(***************************************************************************)
CallReturns == call # NoCall ~> call = NoCall

\* What capture_file_identity gets of a file that stays as it is.
IdentityOf(version) ==
  LET len == Len(version.data)
  IN  [len |-> len, time |-> version.time,
       samples |-> [o \in SampleOffsets(len) |-> Sample(version.data, len, o)]]

\* The file that a new connection would find is no longer the one first opened.
FileChanged ==
  \E file \in {path, handle} \ {NoFile} :
    ~IsCompatible(identity, IdentityOf(disk[file]))

(***************************************************************************)
(* A broken connection is restored by the reads that follow, once the      *)
(* network is well, unless the file has changed: neither a cancelled       *)
(* attempt, a lost durable open nor an attempt that failed halfway leaves  *)
(* the recipe unable to.                                                   *)
(***************************************************************************)
BrokenRestored ==
  session.net = "dead" /\ policy > 0 ~> session.net # "dead" \/ FileChanged

(***************************************************************************)
(* "Long-lived read-only SMB file that can restore its                     *)
(* transport/session/tree/file after a retryable connection failure": a    *)
(* READ that timed out is a retryable failure, and reads work again.       *)
(***************************************************************************)
TimeoutRestored ==
  session.late /\ policy > 0 ~> outcome = "data" \/ ~session.late \/ FileChanged
=============================================================================
