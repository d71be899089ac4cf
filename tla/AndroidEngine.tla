--------------------------- MODULE AndroidEngine ----------------------------
(***************************************************************************)
(* The Android library as Java sees it: the native functions               *)
(* (crates/smb-android/src/jni.rs), the four handle tables and the         *)
(* one-shot mutations of the engine (engine.rs), and the requests these    *)
(* make (crates/smb-fs/src/mutation.rs; the open options of smb-client).   *)
(*                                                                         *)
(* Calls run at the same time, each on an SMB session of its own.  The     *)
(* share is external: names that lead to nodes, and the opens that keep a  *)
(* node alive.  A request whose answer is lost may run then, later or      *)
(* never.  What happens inside an open handle is modelled by VideoBroker,  *)
(* Directories and FileHandles.                                            *)
(***************************************************************************)
EXTENDS Integers, Sequences, FiniteSets, SequencesExt

CONSTANTS
  Tag,         \* RANDOM_HANDLE_FLAG, 2^60
  MaxJniBytes, \* the longest array range a native takes, 1 MiB
  MaxRead,     \* max_read_bytes of the engine
  Spellings,   \* paths as Java writes them: the components between separators
  Names,       \* the names on the share
  Shares,      \* what the share may hold at first: name -> "none", "file", "dir"
  Nodes,       \* bound: the files and directories there can be
  MaxCalls,    \* bound: the calls Java makes
  MaxThreads   \* bound: the calls that run at the same time

ASSUME EngineLimits ==
  /\ MaxCalls \in Nat /\ MaxThreads \in Nat
  /\ Tag \in Nat /\ Tag > MaxCalls   \* Java opens fewer than 2^60 handles
  /\ MaxJniBytes \in Nat /\ MaxRead \in Nat
  /\ Spellings \subseteq Seq(STRING) \ {<<>>}
  /\ Nodes \subseteq Nat \ {0} /\ \E f \in [Names -> Nodes] : IsInjective(f)
  /\ Shares \subseteq [Names -> {"none", "file", "dir"}]

VARIABLES
  engine,   \* ENGINE, the OnceLock: unset, ready, or broken for good
  next,     \* HandleTable::next of every table
  table,    \* HandleTable::entries: key -> the call that opened the session
  current,  \* calls made so far
  calls,    \* every call: what it does, how far it is, how it ended
  closed,   \* sessions whose handle a native has closed
  open,     \* the node the connection of a call has open on the server
  names,    \* the share: name -> node
  nodes     \* kind, content and delete-pending flag of every node

local == <<engine, next, table, current, calls, closed>>
share == <<open, names, nodes>>
vars == <<local, share>>

Calls == 1 .. MaxCalls
Kinds == {"video", "directory", "writable", "random"}
OneShots == {"mkdir", "create_file", "rename", "delete_file"}
NoNode == 0
NoSession == 0

-----------------------------------------------------------------------------
(***************************************************************************)
(* Handles: the key in the table and, for all but videos, a tag bit.       *)
(***************************************************************************)
RandomFlag == Tag
WritableFlag == 2 * Tag
DirectoryFlag == 4 * Tag

Has(raw, flag) == (raw \div flag) % 2 = 1

RawOf(kind, key) ==
  key + CASE kind = "video" -> 0 [] kind = "directory" -> DirectoryFlag
          [] kind = "writable" -> WritableFlag [] kind = "random" -> RandomFlag

\* Each table_key refuses what is not tagged as its own; 0 is in no table.
DirectoryKey(raw) ==
  IF ~Has(raw, DirectoryFlag) \/ raw = DirectoryFlag THEN 0 ELSE raw - DirectoryFlag

WritableKey(raw) ==
  IF ~Has(raw, WritableFlag) \/ Has(raw, DirectoryFlag) \/ raw = WritableFlag
    THEN 0 ELSE raw - WritableFlag

RandomKey(raw) ==
  IF ~Has(raw, RandomFlag) \/ Has(raw, DirectoryFlag) \/ Has(raw, WritableFlag) \/ raw = RandomFlag
    THEN 0 ELSE raw - RandomFlag

Key(kind, raw) ==
  CASE raw <= 0 -> 0   \* the natives refuse it
    [] kind = "video" -> raw
    [] kind = "directory" -> DirectoryKey(raw)
    [] kind = "writable" -> WritableKey(raw)
    [] OTHER -> RandomKey(raw)

\* HandleTable::get
Resolve(kind, raw) ==
  LET key == Key(kind, raw) IN IF key \in Calls THEN table[kind][key] ELSE NoSession

Raws == -1 .. 8 * Tag - 1

-----------------------------------------------------------------------------
(***************************************************************************)
(* Paths.  A path that is empty or starts with a separator has an empty    *)
(* first component.                                                        *)
(***************************************************************************)
ValidMutationPath(path) == path[1] # "" /\ \A i \in DOMAIN path : path[i] # "."

ValidDirectoryPath(path) == path = <<"">> \/ ValidMutationPath(path)

ValidVideoPath(path) == path # <<"">>

NormalizeMutationPath(path) == SelectSeq(path, LAMBDA component : component # "")

\* Opens keep their path as it is; the empty one is the share root.
NormalizeRelativePath(path) == IF path = <<"">> THEN <<>> ELSE path

ServerName(op, path) ==
  IF op \in OneShots THEN NormalizeMutationPath(path) ELSE NormalizeRelativePath(path)

Valid(op, path, dest) ==
  CASE op = "video" -> ValidVideoPath(path)
    [] op = "directory" -> ValidDirectoryPath(path)
    [] op = "rename" -> ValidMutationPath(path) /\ ValidMutationPath(dest)
    [] OTHER -> ValidMutationPath(path)

-----------------------------------------------------------------------------
(***************************************************************************)
(* Which CREATE each operation sends.                                      *)
(***************************************************************************)
ReadExistingRandom == [disposition |-> "OPEN", type |-> "file"]
ReadExistingDirectory == [disposition |-> "OPEN", type |-> "dir"]
WritableRandom(disposition) == [disposition |-> disposition, type |-> "file"]
CreateNewRandom == WritableRandom("CREATE")
WriteExistingRandom == WritableRandom("OPEN")
OverwriteForStream == WritableRandom("OVERWRITE_IF")
CreateDirectory == [disposition |-> "CREATE", type |-> "dir"]
MutationExisting == [disposition |-> "OPEN", type |-> "any"]
\* Mutant: the entry to delete may be a directory.
MutationExistingAny == MutationExisting
MutationExistingFile == [MutationExisting EXCEPT !.type = "file"]

OptionsOf(op) ==
  CASE op = "video" -> ReadExistingRandom
    [] op = "directory" -> ReadExistingDirectory
    [] op = "writable" -> OverwriteForStream
    [] op = "random" -> WriteExistingRandom
    [] op = "mkdir" -> CreateDirectory
    [] op = "create_file" -> CreateNewRandom
    [] op = "rename" -> MutationExisting
    [] op = "delete_file" -> MutationExistingFile

\* Mutant: a rename asks the server to replace its destination.
ReplaceExisting == TRUE

\* What the engine passes as replace_if_exists, and the SET_INFO of a rename.
ReplaceIfExists == FALSE

RenameInfo(dest) == [dest |-> NormalizeMutationPath(dest), replace |-> ReplaceIfExists]

-----------------------------------------------------------------------------
(***************************************************************************)
(* The server.                                                             *)
(***************************************************************************)
Fresh == CHOOSE n \in Nodes : nodes[n].kind = "none"

CanCreate(name, options) ==
  /\ name \in Names
  /\ IF names[name] = NoNode
       THEN options.disposition # "OPEN" /\ \E n \in Nodes : nodes[n].kind = "none"
       ELSE /\ options.disposition # "CREATE"
            /\ options.type \in {"any", nodes[names[name]].kind}
            /\ ~nodes[names[name]].pending

ServerCreate(c, name, options) ==
  LET node == IF names[name] = NoNode THEN Fresh ELSE names[name] IN
  /\ CanCreate(name, options)
  /\ open' = [open EXCEPT ![c] = node]
  /\ names' = [names EXCEPT ![name] = node]
  /\ nodes' = [nodes EXCEPT ![node] =
       IF names[name] = NoNode
         THEN [kind |-> options.type, data |-> "empty", pending |-> FALSE]
         ELSE [@ EXCEPT !.data = IF options.disposition = "OVERWRITE_IF" THEN "empty"
                                 ELSE nodes[node].data]]

\* FILE_RENAME_INFORMATION.  A file that nobody has open is replaced on request.
CanRename(node, info) ==
  /\ info.dest \in Names /\ node \in {names[p] : p \in Names}
  /\ LET old == names[info.dest] IN
     old # NoNode => info.replace /\ nodes[old].kind = "file" /\ \A d \in Calls : open[d] # old

ServerRename(c, info) ==
  LET old == names[info.dest] IN
  /\ CanRename(open[c], info)
  /\ names' = [p \in Names |-> IF p = info.dest THEN open[c]
                               ELSE IF names[p] = open[c] THEN NoNode ELSE names[p]]
  /\ nodes' = IF old = NoNode THEN nodes ELSE [nodes EXCEPT ![old].kind = "none"]
  /\ UNCHANGED open

\* FILE_DISPOSITION_INFORMATION: the node goes with its last open.
ServerDispose(c) ==
  /\ nodes' = [nodes EXCEPT ![open[c]].pending = TRUE]
  /\ UNCHANGED <<open, names>>

ServerSetInfo(c) ==
  IF calls[c].op = "rename" THEN ServerRename(c, RenameInfo(calls[c].dest))
  ELSE ServerDispose(c)

\* CLOSE, or the end of the connection.
ServerRelease(c) ==
  LET node == open[c]
      last == node # NoNode /\ nodes[node].pending /\ \A d \in Calls \ {c} : open[d] # node
  IN /\ open' = [open EXCEPT ![c] = NoNode]
     /\ nodes' = IF last THEN [nodes EXCEPT ![node].kind = "none", ![node].pending = FALSE] ELSE nodes
     /\ names' = [p \in Names |-> IF last /\ names[p] = node THEN NoNode ELSE names[p]]

-----------------------------------------------------------------------------
NoCall == [op |-> "none", kind |-> "none", path |-> <<>>, dest |-> <<>>, at |-> "none",
           session |-> NoSession, raw |-> 0, ended |-> "none", applied |-> 0]

At(c, place) == calls[c].at = place

\* What Java is told: map_client_error makes the same error of a status whether it
\* came for CREATE and SET_INFO ("refused") or for the CLOSE after them.
Told(c) == IF calls[c].ended = "refused late" THEN "refused" ELSE calls[c].ended

End(c, result) ==
  calls' = [calls EXCEPT ![c] = [@ EXCEPT !.at = "done", !.ended = result,
                                          !.path = <<>>, !.dest = <<>>]]

\* Java calls a native, and engine() has an engine for it.
CanCall ==
  /\ engine = "ready" /\ current < MaxCalls
  /\ Cardinality({c \in 1 .. current : ~At(c, "done")}) < MaxThreads

Begin(call) ==
  /\ current' = current + 1
  /\ calls' = [calls EXCEPT ![current + 1] = call]

Applies(op, request) ==
  IF op \in {"mkdir", "create_file"} THEN request = "create"
  ELSE op \in {"rename", "delete_file"} /\ request = "set"

-----------------------------------------------------------------------------
\* Mutants: an id that was given back is handed out again; CREATE is sent again
\* when its answer is lost.
InsertReusing(c) ==
  LET kind == calls[c].op
      key == CHOOSE k \in Calls : table[kind][k] = NoSession
             /\ \A j \in Calls : table[kind][j] = NoSession => k <= j
  IN /\ At(c, "insert")
     /\ table' = [table EXCEPT ![kind][key] = c]
     /\ next' = [next EXCEPT ![kind] = @ + 1]
     /\ calls' = [calls EXCEPT ![c] = [NoCall EXCEPT !.op = kind, !.at = "done", !.ended = "ok",
                                         !.raw = RawOf(kind, key)]]
     /\ UNCHANGED <<engine, current, closed>> /\ UNCHANGED share

CreateLostRetried(c) ==
  LET call == calls[c] IN
  /\ At(c, "create")
  /\ ServerCreate(c, ServerName(call.op, call.path), OptionsOf(call.op))
  /\ calls' = [calls EXCEPT ![c].applied = @ + (IF Applies(call.op, "create") THEN 1 ELSE 0)]
  /\ UNCHANGED <<engine, next, table, current, closed>>

-----------------------------------------------------------------------------
Init ==
  /\ engine = "unset"
  /\ next = [kind \in Kinds |-> 1]
  /\ table = [kind \in Kinds |-> [key \in Calls |-> NoSession]]
  /\ current = 0
  /\ calls = [c \in Calls |-> NoCall]
  /\ closed = {}
  /\ open = [c \in Calls |-> NoNode]
  /\ \E first \in Shares :
       LET held == {p \in Names : first[p] # "none"}
           node == CHOOSE f \in [Names -> Nodes] : IsInjective(f)
           kindOf(n) == IF \E p \in held : node[p] = n
                          THEN first[CHOOSE p \in held : node[p] = n] ELSE "none"
       IN /\ names = [p \in Names |-> IF p \in held THEN node[p] ELSE NoNode]
          /\ nodes = [n \in Nodes |-> [kind |-> kindOf(n), data |-> "old", pending |-> FALSE]]

\* engine(): get_or_init runs AndroidEngine::new once and keeps its error, too.
InitEngine ==
  /\ engine = "unset"
  /\ engine' \in {"ready", "broken"}
  /\ UNCHANGED <<next, table, current, calls, closed>> /\ UNCHANGED share

(***************************************************************************)
(* Natives that open a handle or mutate the share.  A bad port or path     *)
(* throws before a connection is made.                                     *)
(***************************************************************************)
MutationRequest(port) == port > 0

Request(op, port, path, dest) ==
  /\ MutationRequest(port) /\ Valid(op, path, dest)
  /\ Begin([NoCall EXCEPT !.op = op, !.path = path, !.dest = dest, !.at = "create"])
  /\ UNCHANGED <<engine, next, table, closed>> /\ UNCHANGED share

NativeOpenVideo(port, path) == Request("video", port, path, path)
NativeOpenDirectory(port, path) == Request("directory", port, path, path)
NativeOpenWritable(port, path) == Request("writable", port, path, path)
NativeOpenRandom(port, path) == Request("random", port, path, path)
NativeMkdir(port, path) == Request("mkdir", port, path, path)
NativeCreateFile(port, path) == Request("create_file", port, path, path)
NativeRename(port, path, dest) == Request("rename", port, path, dest)
NativeDeleteFile(port, path) == Request("delete_file", port, path, path)

\* connect_share fails, or open_file refuses the path itself.
ConnectFails(c) ==
  /\ At(c, "create")
  /\ End(c, "refused")
  /\ UNCHANGED <<engine, next, table, current, closed>> /\ UNCHANGED share

\* What follows a CREATE that succeeded.
AfterCreate(op) ==
  IF op \in Kinds THEN "insert" ELSE IF op \in {"mkdir", "create_file"} THEN "close" ELSE "set"

Create(c) ==
  LET call == calls[c] IN
  /\ At(c, "create")
  /\ ServerCreate(c, ServerName(call.op, call.path), OptionsOf(call.op))
  /\ calls' = [calls EXCEPT ![c].at = AfterCreate(call.op),
                 ![c].applied = @ + (IF Applies(call.op, "create") THEN 1 ELSE 0)]
  /\ UNCHANGED <<engine, next, table, current, closed>>

\* A server may refuse anything, and must refuse what cannot be done.
\* map_client_error turns the statuses it knows into errors of their own.
CreateRefused(c) ==
  /\ At(c, "create")
  /\ \E known \in BOOLEAN : End(c, IF known THEN "refused" ELSE "unknown")
  /\ UNCHANGED <<engine, next, table, current, closed>> /\ UNCHANGED share

\* No answer, or none that open_file accepts: the session is dropped with the
\* request on its way.
CreateLost(c) ==
  /\ At(c, "create")
  /\ calls' = [calls EXCEPT ![c].at = "late create", ![c].ended = "unknown"]
  /\ UNCHANGED <<engine, next, table, current, closed>> /\ UNCHANGED share

LateCreate(c) ==
  LET call == calls[c] IN
  /\ At(c, "late create")
  /\ ServerCreate(c, ServerName(call.op, call.path), OptionsOf(call.op))
  /\ calls' = [calls EXCEPT ![c].at = "dropped",
                 ![c].applied = @ + (IF Applies(call.op, "create") THEN 1 ELSE 0)]
  /\ UNCHANGED <<engine, next, table, current, closed>>

\* HandleTable::insert and the tag of the kind.
Insert(c) ==
  LET kind == calls[c].op
      key == next[kind]
  IN /\ At(c, "insert")
     /\ table' = [table EXCEPT ![kind][key] = c]
     /\ next' = [next EXCEPT ![kind] = @ + 1]
     /\ calls' = [calls EXCEPT ![c] = [NoCall EXCEPT !.op = kind, !.at = "done", !.ended = "ok",
                                         !.raw = RawOf(kind, key)]]
     /\ UNCHANGED <<engine, current, closed>> /\ UNCHANGED share

-----------------------------------------------------------------------------
(***************************************************************************)
(* mutate_then_close: SET_INFO, then CLOSE whatever came of it.            *)
(***************************************************************************)
Mutate(c) ==
  /\ At(c, "set")
  /\ ServerSetInfo(c)
  /\ calls' = [calls EXCEPT ![c].at = "close", ![c].applied = @ + 1]
  /\ UNCHANGED <<engine, next, table, current, closed>>

MutateRefused(c) ==
  /\ At(c, "set")
  /\ \E known \in BOOLEAN :
       calls' = [calls EXCEPT ![c].at = "close", ![c].ended = IF known THEN "refused" ELSE "unknown"]
  /\ UNCHANGED <<engine, next, table, current, closed>> /\ UNCHANGED share

\* The CLOSE that follows cannot take the late answer for its own.
MutateLost(c) ==
  /\ At(c, "set")
  /\ calls' = [calls EXCEPT ![c].at = "late set", ![c].ended = "unknown"]
  /\ UNCHANGED <<engine, next, table, current, closed>> /\ UNCHANGED share

LateSet(c) ==
  /\ At(c, "late set")
  /\ ServerSetInfo(c)
  /\ calls' = [calls EXCEPT ![c].at = "dropped", ![c].applied = @ + 1]
  /\ UNCHANGED <<engine, next, table, current, closed>>

Close(c) ==
  /\ At(c, "close")
  /\ End(c, IF calls[c].ended = "none" THEN "ok" ELSE calls[c].ended)
  /\ ServerRelease(c)
  /\ UNCHANGED <<engine, next, table, current, closed>>

\* No answer to CLOSE, or a status after a mutation that took effect.
CloseFails(c) ==
  /\ At(c, "close")
  /\ \E late \in {"unknown", "refused late"} :
       calls' = [calls EXCEPT ![c].at = "dropped",
                   ![c].ended = IF @ = "none" THEN late ELSE @]
  /\ UNCHANGED <<engine, next, table, current, closed>> /\ UNCHANGED share

\* The CLOSE of a call that gave up is carried out after all, or its connection
\* ends, and with it what it had open.
Dropped(c) ==
  /\ calls[c].at \in {"late create", "late set", "dropped"}
  /\ End(c, calls[c].ended)
  /\ ServerRelease(c)
  /\ UNCHANGED <<engine, next, table, current, closed>>

-----------------------------------------------------------------------------
(***************************************************************************)
(* Natives on a handle: they check their arguments and look the session    *)
(* up.  What they do with it is in VideoBroker, Directories, FileHandles.  *)
(***************************************************************************)
Use(kind, raw) ==
  /\ Resolve(kind, raw) # NoSession
  /\ Begin([NoCall EXCEPT !.op = "use", !.kind = kind, !.raw = raw,
              !.session = Resolve(kind, raw), !.at = "done"])
  /\ UNCHANGED <<engine, next, table, closed>> /\ UNCHANGED share

\* The range of a Java array that a native copies.
ArrayRange(offset, length, array) == offset >= 0 /\ length >= 0 /\ offset + length <= array

JniRange(offset, length, array) == ArrayRange(offset, length, array) /\ length <= MaxJniBytes

ValidateReadLength(length) == length <= MaxRead

NativeLen(raw) == Use("video", raw)

NativeReadAt(raw, position, offset, length, array) ==
  /\ position >= 0 /\ length > 0 /\ ArrayRange(offset, length, array)
  /\ ValidateReadLength(length)
  /\ Use("video", raw)

NativePrefetch(raw, position, length) ==
  /\ position >= 0 /\ length > 0 /\ ValidateReadLength(length)
  /\ Use("video", raw)

NativeSeek(raw, position) == position >= 0 /\ Use("video", raw)

NativeReadDirectoryPage(raw) == Use("directory", raw)
NativeDirectoryCapacity(raw) == Use("directory", raw)
NativeDirectorySize(raw) == Use("directory", raw)

NativeWriteAt(raw, position, offset, length, array) ==
  position >= 0 /\ JniRange(offset, length, array) /\ Use("writable", raw)

NativeFlushWritable(raw) == Use("writable", raw)

NativeReadRandomAt(raw, position, offset, length, array) ==
  position >= 0 /\ JniRange(offset, length, array) /\ Use("random", raw)

NativeWriteRandomAt(raw, position, offset, length, array) ==
  position >= 0 /\ JniRange(offset, length, array) /\ Use("random", raw)

NativeSetRandomLength(raw, length) == length >= 0 /\ Use("random", raw)

NativeFlushRandom(raw) == Use("random", raw)

\* HandleTable::remove comes first: the handle is gone whatever CLOSE does.
CloseHandle(kind, raw) ==
  LET session == Resolve(kind, raw) IN
  /\ session # NoSession
  /\ table' = [table EXCEPT ![kind][Key(kind, raw)] = NoSession]
  /\ closed' = closed \cup {session}
  /\ Begin([NoCall EXCEPT !.op = "close", !.kind = kind, !.raw = raw,
              !.session = session, !.at = "closing"])
  /\ UNCHANGED <<engine, next>> /\ UNCHANGED share

NativeClose(raw) == CloseHandle("video", raw)
NativeCloseDirectory(raw) == CloseHandle("directory", raw)
NativeCloseWritable(raw) == CloseHandle("writable", raw)
NativeCloseRandom(raw) == CloseHandle("random", raw)

CloseSession(c) ==
  /\ At(c, "closing")
  /\ \/ ServerRelease(calls[c].session) /\ End(c, "ok")
     \/ UNCHANGED share /\ End(c, "unknown")
  /\ UNCHANGED <<engine, next, table, current, closed>>

\* The connection of an open handle ends: it broke, or the handle was closed and
\* nobody uses its session any more.
ConnectionEnds(s) ==
  /\ calls[s].op \in Kinds /\ At(s, "done") /\ open[s] # NoNode
  /\ ServerRelease(s)
  /\ UNCHANGED local

-----------------------------------------------------------------------------
OpenOrMutate ==
  /\ CanCall
  /\ \E port \in {0, 445}, path \in Spellings :
       \/ NativeOpenVideo(port, path) \/ NativeOpenDirectory(port, path)
       \/ NativeOpenWritable(port, path) \/ NativeOpenRandom(port, path)
       \/ NativeMkdir(port, path) \/ NativeCreateFile(port, path) \/ NativeDeleteFile(port, path)
       \/ \E dest \in Spellings : NativeRename(port, path, dest)

UseOrClose ==
  /\ CanCall
  /\ \E raw \in Raws :
       \/ NativeLen(raw)
       \/ NativeReadDirectoryPage(raw) \/ NativeDirectoryCapacity(raw) \/ NativeDirectorySize(raw)
       \/ NativeFlushWritable(raw) \/ NativeFlushRandom(raw)
       \/ NativeClose(raw) \/ NativeCloseDirectory(raw)
       \/ NativeCloseWritable(raw) \/ NativeCloseRandom(raw)
       \/ \E at \in {-1, 0} :
            \/ NativeSeek(raw, at) \/ NativePrefetch(raw, at, 1) \/ NativeSetRandomLength(raw, at)
            \/ \E length \in {1, 2} :
                 \/ NativeReadAt(raw, at, 0, length, 2) \/ NativeWriteAt(raw, at, 0, length, 2)
                 \/ NativeReadRandomAt(raw, at, 0, length, 2)
                 \/ NativeWriteRandomAt(raw, at, 0, length, 2)

Next ==
  \/ InitEngine \/ OpenOrMutate \/ UseOrClose
  \/ \E c \in Calls :
       \/ ConnectFails(c) \/ Create(c) \/ CreateRefused(c) \/ CreateLost(c) \/ LateCreate(c)
       \/ Insert(c) \/ Mutate(c) \/ MutateRefused(c) \/ MutateLost(c) \/ LateSet(c)
       \/ Close(c) \/ CloseFails(c) \/ Dropped(c) \/ CloseSession(c) \/ ConnectionEnds(c)

Spec == Init /\ [][Next]_vars

-----------------------------------------------------------------------------
(***************************************************************************)
(* Whatever long Java passes to whichever native, the session it reaches   *)
(* is the one this very handle was returned for, of that kind, and not     *)
(* closed; a handle that is not closed reaches its session, and one that   *)
(* is closed reaches none, however many were opened since (engine.rs:      *)
(* "opaque_handle_table_never_reuses_live_handle").  It rests on keys that *)
(* are never given twice and on disjoint tags.                             *)
(***************************************************************************)
HandlesFaithful ==
  /\ \A kind \in Kinds, raw \in Raws :
       LET s == Resolve(kind, raw) IN
       s # NoSession => calls[s].op = kind /\ calls[s].raw = raw /\ s \notin closed
  /\ \A s \in Calls :
       calls[s].op \in Kinds /\ calls[s].ended = "ok" /\ s \notin closed =>
         Resolve(calls[s].op, calls[s].raw) = s
  /\ \A s \in closed, kind \in Kinds : Resolve(kind, calls[s].raw) = NoSession

(***************************************************************************)
(* A mutation takes effect at most once, and Ok means it did (engine.rs:   *)
(* "Do not repeat the operation if the server response is lost").  An      *)
(* error of the set-up or with a name of its own means it did not and will *)
(* not, with one exception Java cannot see: a server that refuses the      *)
(* CLOSE after the mutation gives the same error although the mutation     *)
(* took effect.  All other errors leave it open.                           *)
(***************************************************************************)
MutationOutcome ==
  \A c \in Calls :
    calls[c].op \in OneShots =>
      /\ calls[c].applied <= 1
      /\ Told(c) = "ok" => calls[c].applied = 1
      /\ Told(c) = "refused" => calls[c].applied = IF calls[c].ended = "refused late" THEN 1 ELSE 0

(***************************************************************************)
(* No file or directory is ever replaced or lost by the operations on the  *)
(* share: what disappears is a file whose deletion was asked for, and only *)
(* the output stream opened on its own name empties a file (engine.rs:     *)
(* "without replacing an existing destination", "Delete one regular file   *)
(* only", "refusing collisions").                                          *)
(***************************************************************************)
NothingReplaced ==
  [][\A n \in Nodes :
       nodes[n].kind # "none" =>
         /\ nodes'[n].kind = "none" => nodes[n].kind = "file" /\ nodes[n].pending
         /\ nodes'[n].kind # "none" => \E p \in Names : names'[p] = n
         /\ nodes'[n].data # nodes[n].data =>
              \E c \in Calls :
                /\ calls[c].op = "writable" /\ calls[c].at \in {"create", "late create"}
                /\ NormalizeRelativePath(calls[c].path) \in Names
                /\ names[NormalizeRelativePath(calls[c].path)] = n]_vars
=============================================================================
