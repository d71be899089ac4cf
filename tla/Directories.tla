---------------------------- MODULE Directories -----------------------------
(***************************************************************************)
(* One directory handle of the Android engine and the threads that share   *)
(* it (crates/smb-android/src/engine.rs), with the decoders of listings    *)
(* (crates/smb-fs/src/query.rs).                                           *)
(*                                                                         *)
(* The handle owns an SMB session and the server's scan of its directory.  *)
(* Every operation finds the entry in the table, then waits for the lock,  *)
(* so a close may overtake threads that have the entry already.  The size  *)
(* walk uses the same session to open, list and close one directory after  *)
(* the other.  An answer that comes too late stays in the session and      *)
(* meets the next request: from then on every request fails.               *)
(***************************************************************************)
EXTENDS Integers, Sequences, FiniteSets, SequencesExt

CONSTANTS
  Callers,      \* Java threads using the handle
  Trees,        \* directory trees: directory -> sequence of entries
  Root,         \* root_path of the handle
  MaxLong,      \* i64::MAX
  MaxResult,    \* MAX_DIRECTORY_RESULT_BYTES, in entries
  MaxLookups,   \* bound: the calls the threads make
  MaxPage       \* bound: entries in one answer of the server

None == "none"

ASSUME DirectoryLimits ==
  /\ MaxLong \in Nat /\ MaxResult \in Nat /\ MaxLookups \in Nat
  /\ MaxPage \in Nat \ {0}
  /\ None \notin Callers

(***************************************************************************)
(* Entries are [name, kind, size, to]: the length of the name; one of file,*)
(* dir, link (a directory that is a reparse point) and odd (a name that is *)
(* empty, dots, or contains a separator); the length; the directory it     *)
(* leads to.  Directories lie in each other without a cycle; only reparse  *)
(* points lead back up.                                                    *)
(***************************************************************************)
Entry(dirs) ==
  [name : Nat, kind : {"file", "dir", "link", "odd"}, size : Nat, to : dirs \cup {None}]

SubDirs(listing) == {listing[i].to : i \in {j \in DOMAIN listing : listing[j].kind = "dir"}}

IsTree(t) ==
  /\ IsFiniteSet(DOMAIN t) /\ Root \in DOMAIN t /\ None \notin DOMAIN t
  /\ t \in [DOMAIN t -> Seq(Entry(DOMAIN t))]
  /\ \E height \in [DOMAIN t -> 0 .. Cardinality(DOMAIN t) - 1] :
       \A d \in DOMAIN t : \A sub \in SubDirs(t[d]) :
         sub \in DOMAIN t /\ height[sub] < height[d]

ASSUME TreesAreTrees == \A t \in Trees : IsTree(t)

VARIABLES
  tree,       \* what is on the server
  inTable,    \* the handle is in the table `directories`
  holder,     \* who has the Mutex of the entry
  exhausted,  \* DirectorySession::exhausted
  scan,       \* the server's open of the handle: is it open, entries returned
  stale,      \* an answer the client gave up on comes before all others
  begun,      \* calls begun so far
  op, pc,     \* what each thread is doing
  result,     \* what its last call returned
  walk,       \* the locals of directory_size
  openDirs,   \* directories the walk has opened on the server
  pages,      \* the entries of the pages returned, in the order of the lock
  lost        \* entries of pages that were refused

directoryVars ==
  <<tree, inTable, holder, exhausted, scan, stale, begun, op, pc, result,
    walk, openDirs, pages, lost>>

Failed == [ok |-> FALSE, value |-> 0]
Ok(value) == [ok |-> TRUE, value |-> value]
NoWalk == [pending |-> <<>>, total |-> 0, dir |-> None, listed |-> 0, failed |-> FALSE]

-----------------------------------------------------------------------------
(***************************************************************************)
(* A listing as it is on the wire: every entry starts with its next offset *)
(* and carries its name, padded to eight bytes.  Fixed stands for the 80   *)
(* fixed bytes of FileIdFullDirectoryInformation.                          *)
(***************************************************************************)
Fixed == 16

NameBytes(entry) == 2 * entry.name

SlotLen(entry) == ((Fixed + NameBytes(entry) + 7) \div 8) * 8

\* PartialSums(w)[k] is the sum of the first k numbers of w.
PartialSums(w) ==
  LET sum[k \in 0 .. Len(w)] == IF k = 0 THEN 0 ELSE sum[k - 1] + w[k] IN sum

SumOf(w) == PartialSums(w)[Len(w)]

SlotLens(entries) == [i \in DOMAIN entries |-> SlotLen(entries[i])]

OffsetOf(entries, i) == PartialSums(SlotLens(entries))[i - 1]

\* The buffer of an honest server: the last entry has no padding and next = 0.
Buffer(entries) ==
  [len |-> OffsetOf(entries, Len(entries)) + Fixed + NameBytes(Last(entries)),
   slots |-> [i \in DOMAIN entries |->
      [at |-> OffsetOf(entries, i), entry |-> entries[i], name |-> NameBytes(entries[i]),
       next |-> IF i = Len(entries) THEN 0 ELSE SlotLen(entries[i])]]]

\* The ways a server may break the first entry of a buffer.
Damaged(buffer) ==
  {[buffer EXCEPT !.slots[1].next = n] :
      n \in {8, SlotLen(buffer.slots[1].entry) + 1, buffer.len + 8}}
    \cup {[buffer EXCEPT !.slots[1].name = n] : n \in {3, buffer.len}}
    \cup {[buffer EXCEPT !.slots[1].entry.size = -1], [buffer EXCEPT !.len = Fixed - 1]}

\* The loop of decode_file_id_full_directory_metadata: its offset, the entries
\* so far, and ok = FALSE once it has refused the buffer.
DecodeStart == [offset |-> 0, entries |-> <<>>, ok |-> TRUE, more |-> TRUE]

SlotAt(buffer, offset) == CHOOSE s \in Range(buffer.slots) : s.at = offset

DecodeTurn(buffer, loop) ==
  LET left == buffer.len - loop.offset
      slot == SlotAt(buffer, loop.offset)
      nameEnd == Fixed + slot.name
      refused == [loop EXCEPT !.ok = FALSE, !.more = FALSE]
      kept == Append(loop.entries, slot.entry)
  IN IF ~loop.more \/ loop.offset >= buffer.len
       THEN [loop EXCEPT !.more = FALSE]
     ELSE IF \/ left < Fixed
             \/ slot.entry.size < 0
             \/ slot.name % 2 # 0
             \/ nameEnd > left
       THEN refused
     ELSE IF slot.next = 0
       THEN [loop EXCEPT !.entries = kept, !.more = FALSE]
     ELSE IF slot.next < nameEnd \/ slot.next > left \/ slot.next % 8 # 0
       THEN refused
     ELSE [loop EXCEPT !.entries = kept, !.offset = @ + slot.next]

\* Every turn leaves one slot behind.
DecodeLoop(buffer) ==
  LET loop[k \in 0 .. Len(buffer.slots)] ==
        IF k = 0 THEN DecodeStart ELSE DecodeTurn(buffer, loop[k - 1])
  IN loop

Saturated(n) == IF n > MaxLong THEN MaxLong ELSE n

-----------------------------------------------------------------------------
\* Mutants: the decoder stops before the last entry, reparse points are followed,
\* a listing that fails leaves its directory open.
DecodeShort(buffer) ==
  LET end == DecodeLoop(buffer)[Len(buffer.slots)] IN
  [ok |-> end.ok,
   entries |-> IF Len(end.entries) > 1 THEN Front(end.entries) ELSE end.entries]

AccumulateLink(entry, sum) ==
  IF entry.kind \in {"dir", "link"} THEN [sum EXCEPT !.pending = Append(@, entry.to)]
  ELSE IF entry.kind = "file" THEN [sum EXCEPT !.total = Saturated(@ + entry.size)]
  ELSE sum

WalkQueryFailsReturns(t) ==
  /\ pc[t] = "list"
  /\ pc' = [pc EXCEPT ![t] = "idle"]
  /\ holder' = None
  /\ result' = [result EXCEPT ![t] = Failed]
  /\ walk' = NoWalk
  /\ UNCHANGED <<tree, inTable, exhausted, scan, stale, begun, op, openDirs, pages, lost>>

-----------------------------------------------------------------------------
Decode(buffer) ==
  LET end == DecodeLoop(buffer)[Len(buffer.slots)] IN
  [ok |-> end.ok, entries |-> end.entries]

\* accumulate_directory_entries: real directories are pushed, the lengths of all
\* that is no directory are added up to i64::MAX.
AccumulateEntry(entry, sum) ==
  IF entry.kind = "dir" THEN [sum EXCEPT !.pending = Append(@, entry.to)]
  ELSE IF entry.kind = "file" THEN [sum EXCEPT !.total = Saturated(@ + entry.size)]
  ELSE sum

AccumulateLoop(entries, start) ==
  LET sum[k \in 0 .. Len(entries)] ==
        IF k = 0 THEN start ELSE AccumulateEntry(entries[k], sum[k - 1])
  IN sum

Accumulate(entries, pending, total) ==
  AccumulateLoop(entries, [pending |-> pending, total |-> total])[Len(entries)]

\* FileFsFullSizeInformation::capacity_bytes of units and bytes per unit.
CapacityBytes(units, bytesPerUnit) == Saturated(units * bytesPerUnit)

-----------------------------------------------------------------------------
DirectoryInit ==
  /\ tree \in Trees
  /\ inTable = TRUE /\ holder = None /\ exhausted = FALSE
  /\ scan = [open |-> TRUE, returned |-> 0]
  /\ stale = FALSE /\ begun = 0
  /\ op = [t \in Callers |-> None] /\ pc = [t \in Callers |-> "idle"]
  /\ result = [t \in Callers |-> Failed]
  /\ walk = NoWalk /\ openDirs = {} /\ pages = <<>> /\ lost = FALSE

\* HandleTable::get, or remove for a close.
Lookup(t, what) ==
  /\ pc[t] = "idle" /\ inTable /\ begun < MaxLookups
  /\ begun' = begun + 1
  /\ inTable' = (what # "close")
  /\ op' = [op EXCEPT ![t] = what]
  /\ pc' = [pc EXCEPT ![t] = "lock"]
  /\ UNCHANGED <<tree, holder, exhausted, scan, stale, result, walk, openDirs, pages, lost>>

\* The lock, held until the call returns.  A walk starts with the root.
Lock(t) ==
  /\ pc[t] = "lock" /\ holder = None
  /\ holder' = t
  /\ pc' = [pc EXCEPT ![t] = IF op[t] = "size" THEN "pop" ELSE op[t]]
  /\ walk' = IF op[t] = "size" THEN [NoWalk EXCEPT !.pending = <<Root>>] ELSE walk
  /\ UNCHANGED <<tree, inTable, exhausted, scan, stale, begun, op, result, openDirs, pages, lost>>

Return(t, value) ==
  /\ pc' = [pc EXCEPT ![t] = "idle"]
  /\ holder' = None
  /\ result' = [result EXCEPT ![t] = value]

\* A request that fails: the server refuses it, or the client stops waiting and
\* leaves the answer in the session.
Fails == stale' \in {stale, TRUE}

-----------------------------------------------------------------------------
(***************************************************************************)
(* read_directory_page.                                                    *)
(***************************************************************************)
PageExhausted(t) ==
  /\ pc[t] = "page" /\ exhausted
  /\ Return(t, Ok(0))
  /\ UNCHANGED <<tree, inTable, exhausted, scan, stale, begun, op, walk, openDirs, pages, lost>>

\* The next n entries of a listing with so many returned; none means the end.
Slice(listing, returned, n) == SubSeq(listing, returned + 1, returned + n)

Pages(listing, returned) ==
  {n \in 0 .. MaxPage : /\ returned + n <= Len(listing)
                        /\ n = 0 => returned = Len(listing)}

Answers == ~stale /\ scan.open

PageEnd(t) ==
  /\ pc[t] = "page" /\ ~exhausted /\ Answers
  /\ 0 \in Pages(tree[Root], scan.returned)
  /\ exhausted' = TRUE
  /\ Return(t, Ok(0))
  /\ UNCHANGED <<tree, inTable, scan, stale, begun, op, walk, openDirs, pages, lost>>

\* A page that decodes and fits in the payload for Java is returned whole;
\* any other is an error, and the server has moved on.
PageAnswer(t, n) ==
  /\ pc[t] = "page" /\ ~exhausted /\ Answers
  /\ n > 0 /\ n \in Pages(tree[Root], scan.returned)
  /\ scan' = [scan EXCEPT !.returned = @ + n]
  /\ \E buffer \in LET honest == Buffer(Slice(tree[Root], scan.returned, n))
                   IN {honest} \cup Damaged(honest) :
       LET decoded == Decode(buffer) IN
       IF decoded.ok /\ Len(decoded.entries) <= MaxResult
         THEN /\ pages' = pages \o decoded.entries
              /\ Return(t, Ok(n)) /\ UNCHANGED lost
         ELSE /\ lost' = TRUE
              /\ Return(t, Failed) /\ UNCHANGED pages
  /\ UNCHANGED <<tree, inTable, exhausted, stale, begun, op, walk, openDirs>>

\* The server may have moved its scan although the answer never came.
PageFails(t) ==
  /\ pc[t] = "page" /\ ~exhausted
  /\ Fails
  /\ \E n \in IF stale' /\ scan.open THEN Pages(tree[Root], scan.returned) ELSE {0} :
       scan' = [scan EXCEPT !.returned = @ + n]
  /\ Return(t, Failed)
  /\ UNCHANGED <<tree, inTable, exhausted, begun, op, walk, openDirs, pages, lost>>

-----------------------------------------------------------------------------
(***************************************************************************)
(* directory_capacity and close_directory.                                 *)
(***************************************************************************)
Capacity(t, units, bytesPerUnit) ==
  /\ pc[t] = "capacity" /\ Answers
  /\ Return(t, Ok(CapacityBytes(units, bytesPerUnit)))
  /\ UNCHANGED <<tree, inTable, exhausted, scan, stale, begun, op, walk, openDirs, pages, lost>>

CapacityFails(t) ==
  /\ pc[t] = "capacity"
  /\ Fails
  /\ Return(t, Failed)
  /\ UNCHANGED <<tree, inTable, exhausted, scan, begun, op, walk, openDirs, pages, lost>>

CloseDirectory(t) ==
  /\ pc[t] = "close" /\ Answers
  /\ scan' = [scan EXCEPT !.open = FALSE]
  /\ Return(t, Ok(0))
  /\ UNCHANGED <<tree, inTable, exhausted, stale, begun, op, walk, openDirs, pages, lost>>

CloseFails(t) ==
  /\ pc[t] = "close"
  /\ Fails
  /\ scan' \in {scan, [scan EXCEPT !.open = FALSE]}
  /\ Return(t, Failed)
  /\ UNCHANGED <<tree, inTable, exhausted, begun, op, walk, openDirs, pages, lost>>

-----------------------------------------------------------------------------
(***************************************************************************)
(* directory_size: pop a path, open it, list it to the end or to the first *)
(* failure, close it in either case.                                       *)
(***************************************************************************)
WalkDone(t) ==
  /\ pc[t] = "pop" /\ walk.pending = <<>>
  /\ Return(t, Ok(walk.total))
  /\ walk' = NoWalk
  /\ UNCHANGED <<tree, inTable, exhausted, scan, stale, begun, op, openDirs, pages, lost>>

WalkOpen(t) ==
  /\ pc[t] = "pop" /\ walk.pending # <<>> /\ ~stale
  /\ LET dir == Last(walk.pending) IN
     /\ walk' = [walk EXCEPT !.pending = Front(@), !.dir = dir, !.listed = 0]
     /\ openDirs' = openDirs \cup {dir}
  /\ pc' = [pc EXCEPT ![t] = "list"]
  /\ UNCHANGED <<tree, inTable, holder, exhausted, scan, stale, begun, op, result, pages, lost>>

\* An open whose answer is lost leaves a directory open that nobody can close.
WalkOpenFails(t) ==
  /\ pc[t] = "pop" /\ walk.pending # <<>>
  /\ Fails
  /\ openDirs' \in {openDirs, openDirs \cup IF stale' THEN {Last(walk.pending)} ELSE {}}
  /\ Return(t, Failed)
  /\ walk' = NoWalk
  /\ UNCHANGED <<tree, inTable, exhausted, scan, begun, op, pages, lost>>

WalkAnswer(t, n) ==
  /\ pc[t] = "list" /\ ~stale
  /\ n \in Pages(tree[walk.dir], walk.listed)
  /\ IF n = 0
       THEN /\ pc' = [pc EXCEPT ![t] = "closing"] /\ UNCHANGED walk
       ELSE \E buffer \in LET honest == Buffer(Slice(tree[walk.dir], walk.listed, n))
                          IN {honest} \cup Damaged(honest) :
         LET decoded == Decode(buffer)
             sum == Accumulate(decoded.entries, walk.pending, walk.total)
         IN IF decoded.ok
              THEN /\ walk' = [walk EXCEPT !.listed = @ + n, !.total = sum.total,
                                           !.pending = sum.pending]
                   /\ UNCHANGED pc
              ELSE /\ walk' = [walk EXCEPT !.failed = TRUE]
                   /\ pc' = [pc EXCEPT ![t] = "closing"]
  /\ UNCHANGED <<tree, inTable, holder, exhausted, scan, stale, begun, op, result,
                 openDirs, pages, lost>>

WalkQueryFails(t) ==
  /\ pc[t] = "list"
  /\ Fails
  /\ walk' = [walk EXCEPT !.failed = TRUE]
  /\ pc' = [pc EXCEPT ![t] = "closing"]
  /\ UNCHANGED <<tree, inTable, holder, exhausted, scan, begun, op, result,
                 openDirs, pages, lost>>

WalkClose(t) ==
  /\ pc[t] = "closing" /\ ~stale
  /\ openDirs' = openDirs \ {walk.dir}
  /\ IF walk.failed
       THEN Return(t, Failed) /\ walk' = NoWalk
       ELSE /\ pc' = [pc EXCEPT ![t] = "pop"]
            /\ walk' = [walk EXCEPT !.dir = None]
            /\ UNCHANGED <<holder, result>>
  /\ UNCHANGED <<tree, inTable, exhausted, scan, stale, begun, op, pages, lost>>

\* A CLOSE that is given up on may not have been carried out; a server refuses
\* one because it has no such open any more.
WalkCloseFails(t) ==
  /\ pc[t] = "closing"
  /\ Fails
  /\ openDirs' \in {openDirs \ {walk.dir}} \cup IF stale' THEN {openDirs} ELSE {}
  /\ Return(t, Failed)
  /\ walk' = NoWalk
  /\ UNCHANGED <<tree, inTable, exhausted, scan, begun, op, pages, lost>>

-----------------------------------------------------------------------------
Step(t) ==
  \/ Lock(t)
  \/ PageExhausted(t) \/ PageEnd(t) \/ PageFails(t)
  \/ \E n \in 1 .. MaxPage : PageAnswer(t, n)
  \/ \E units \in {0, 1, MaxLong} : Capacity(t, units, 2)
  \/ CapacityFails(t) \/ CloseDirectory(t) \/ CloseFails(t)
  \/ WalkDone(t) \/ WalkOpen(t) \/ WalkOpenFails(t) \/ WalkQueryFails(t)
  \/ \E n \in 0 .. MaxPage : WalkAnswer(t, n)
  \/ WalkClose(t) \/ WalkCloseFails(t)

DirectoryNext ==
  \E t \in Callers :
    Step(t) \/ \E what \in {"page", "capacity", "size", "close"} : Lookup(t, what)

(***************************************************************************)
(* A thread that is inside a call runs on: requests end with an answer or  *)
(* with the timeout of the transport.                                      *)
(***************************************************************************)
DirectorySpec ==
  /\ DirectoryInit /\ [][DirectoryNext]_directoryVars
  /\ \A t \in Callers : WF_directoryVars(Step(t))

-----------------------------------------------------------------------------
(***************************************************************************)
(* The pages of all threads together are the listing from its start: no    *)
(* entry is skipped or repeated unless a page was refused, and the empty   *)
(* page that ends it comes only when every entry was returned; a timeout   *)
(* that loses a page spoils the session, so nothing follows the gap        *)
(* (engine.rs: "Pages are independent of total folder size and never       *)
(* restart the remote scan").                                              *)
(***************************************************************************)
PagesContiguous ==
  ~lost => /\ IsPrefix(pages, tree[Root])
           /\ exhausted => pages = tree[Root]
           /\ ~stale => Len(pages) = scan.returned

\* What a directory holds, from what its subdirectories hold, and so on down the
\* tree: as many rounds as there are directories reach every one.
Weight(entry, held) ==
  IF entry.kind = "file" THEN entry.size
  ELSE IF entry.kind = "dir" THEN held[entry.to]
  ELSE 0

Weights(listing, held) == [i \in DOMAIN listing |-> Weight(listing[i], held)]

Rounds(t) ==
  LET held[k \in 0 .. Cardinality(DOMAIN t)] ==
        IF k = 0 THEN [d \in DOMAIN t |-> 0]
        ELSE [d \in DOMAIN t |-> SumOf(Weights(t[d], held[k - 1]))]
  IN held

Below(t) == Rounds(t)[Cardinality(DOMAIN t)]

(***************************************************************************)
(* A size that is returned counts every file once, whatever the pages and  *)
(* the order of the walk, or is i64::MAX where the sum is larger           *)
(* (engine.rs: directory_size); and a walk that is over has closed every   *)
(* directory it opened, also after a listing that failed, as long as the   *)
(* session answers.                                                        *)
(***************************************************************************)
SizeExact ==
  /\ \A t \in Callers :
       op[t] = "size" /\ pc[t] = "idle" /\ result[t].ok =>
         result[t].value = Saturated(Below(tree)[Root])
  /\ openDirs # {} => \/ stale
                      \/ \E t \in Callers : holder = t /\ openDirs = {walk.dir}

(***************************************************************************)
(* Every call on the handle returns, those included that wait for the lock *)
(* behind a walk or find the directory closed when they get it: the walk   *)
(* does not follow the reparse points that lead back up.                   *)
(***************************************************************************)
CallReturns == \A t \in Callers : pc[t] = "lock" ~> pc[t] = "idle"
=============================================================================
