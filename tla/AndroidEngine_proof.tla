------------------------ MODULE AndroidEngine_proof -------------------------
(***************************************************************************)
(* The Android engine, for any number of calls, names and nodes and any    *)
(* tag: handles reach their own session, a mutation ends as reported, and  *)
(* nothing on the share is replaced.                                       *)
(***************************************************************************)
EXTENDS AndroidEngine, FiniteSetTheorems, TLAPS

-----------------------------------------------------------------------------
(* Handles.                                                                *)

\* Dividing by a flag.
LEMMA DivZero ==
  ASSUME NEW f \in Nat, NEW r \in Nat, r < f
  PROVE  r \div f = 0 /\ 0 % 2 = 0
OBVIOUS

LEMMA DivOne ==
  ASSUME NEW f \in Nat, NEW r \in Nat, f <= r, r < 2 * f
  PROVE  r \div f = 1 /\ 1 % 2 = 1
OBVIOUS

\* Keys are smaller than every flag.
LEMMA KeyRange ==
  /\ Tag \in Nat /\ Tag > 0 /\ MaxCalls \in Nat
  /\ \A key \in Calls : key \in Nat /\ key > 0 /\ key < Tag
BY EngineLimits DEF Calls

\* The handle of a kind and a key.
LEMMA RawValue ==
  ASSUME NEW key \in Nat
  PROVE  /\ RawOf("video", key) = key
         /\ RawOf("random", key) = key + Tag
         /\ RawOf("writable", key) = key + 2 * Tag
         /\ RawOf("directory", key) = key + 4 * Tag
BY EngineLimits DEF RawOf, RandomFlag, WritableFlag, DirectoryFlag

\* Which flags a handle has.
LEMMA Flags ==
  ASSUME NEW key \in Calls
  PROVE  /\ Has(key + Tag, Tag) /\ ~Has(key + Tag, 2 * Tag) /\ ~Has(key + Tag, 4 * Tag)
         /\ Has(key + 2 * Tag, 2 * Tag) /\ ~Has(key + 2 * Tag, 4 * Tag)
         /\ Has(key + 4 * Tag, 4 * Tag)
<1>0. Tag \in Nat /\ key \in Nat /\ key > 0 /\ key < Tag
  BY KeyRange
<1>1. Has(key + Tag, Tag)
  <2>1. key + Tag \in Nat /\ Tag <= key + Tag /\ key + Tag < 2 * Tag
    BY <1>0
  <2> QED BY <1>0, <2>1, DivOne DEF Has
<1>2. ~Has(key + Tag, 2 * Tag) /\ ~Has(key + Tag, 4 * Tag)
  <2>1. 2 * Tag \in Nat /\ 4 * Tag \in Nat /\ key + Tag \in Nat /\ key + Tag < 2 * Tag /\ key + Tag < 4 * Tag
    BY <1>0
  <2>2. (key + Tag) \div (2 * Tag) = 0 /\ (key + Tag) \div (4 * Tag) = 0 /\ 0 % 2 = 0
    BY <2>1, DivZero
  <2> QED BY <2>2 DEF Has
<1>3. Has(key + 2 * Tag, 2 * Tag)
  <2>1. 2 * Tag \in Nat /\ key + 2 * Tag \in Nat /\ 2 * Tag <= key + 2 * Tag /\ key + 2 * Tag < 2 * (2 * Tag)
    BY <1>0
  <2>2. (key + 2 * Tag) \div (2 * Tag) = 1 /\ 1 % 2 = 1
    BY <2>1, DivOne
  <2> QED BY <2>2 DEF Has
<1>4. ~Has(key + 2 * Tag, 4 * Tag)
  <2>1. 4 * Tag \in Nat /\ key + 2 * Tag \in Nat /\ key + 2 * Tag < 4 * Tag
    BY <1>0
  <2>2. (key + 2 * Tag) \div (4 * Tag) = 0 /\ 0 % 2 = 0
    BY <2>1, DivZero
  <2> QED BY <2>2 DEF Has
<1>5. Has(key + 4 * Tag, 4 * Tag)
  <2>1. 4 * Tag \in Nat /\ key + 4 * Tag \in Nat /\ 4 * Tag <= key + 4 * Tag /\ key + 4 * Tag < 2 * (4 * Tag)
    BY <1>0
  <2>2. (key + 4 * Tag) \div (4 * Tag) = 1 /\ 1 % 2 = 1
    BY <2>1, DivOne
  <2> QED BY <2>2 DEF Has
<1> QED BY <1>1, <1>2, <1>3, <1>4, <1>5

\* A handle leads back to its key.
LEMMA OwnKey ==
  ASSUME NEW kind \in Kinds, NEW key \in Calls
  PROVE  Key(kind, RawOf(kind, key)) = key
<1>0. Tag \in Nat /\ key \in Nat /\ key > 0 /\ key < Tag
  BY KeyRange
<1>1. ~(key <= 0) /\ ~(key + Tag <= 0) /\ ~(key + 2 * Tag <= 0) /\ ~(key + 4 * Tag <= 0)
  BY <1>0
<1>2. key + Tag # Tag /\ key + 2 * Tag # 2 * Tag /\ key + 4 * Tag # 4 * Tag
      /\ (key + Tag) - Tag = key /\ (key + 2 * Tag) - 2 * Tag = key /\ (key + 4 * Tag) - 4 * Tag = key
  BY <1>0
<1>3. CASE kind = "video"
  BY <1>0, <1>1, <1>3, RawValue DEF Key
<1>4. CASE kind = "directory"
  <2>1. RawOf(kind, key) = key + 4 * Tag
    BY <1>0, <1>4, RawValue
  <2>2. Key(kind, key + 4 * Tag) = DirectoryKey(key + 4 * Tag)
    BY <1>1, <1>4 DEF Key
  <2>3. DirectoryKey(key + 4 * Tag) = key
    BY <1>2, Flags DEF DirectoryKey, DirectoryFlag
  <2> QED BY <2>1, <2>2, <2>3
<1>5. CASE kind = "writable"
  <2>1. RawOf(kind, key) = key + 2 * Tag
    BY <1>0, <1>5, RawValue
  <2>2. Key(kind, key + 2 * Tag) = WritableKey(key + 2 * Tag)
    BY <1>1, <1>5 DEF Key
  <2>3. WritableKey(key + 2 * Tag) = key
    BY <1>2, Flags DEF WritableKey, WritableFlag, DirectoryFlag
  <2> QED BY <2>1, <2>2, <2>3
<1>6. CASE kind = "random"
  <2>1. RawOf(kind, key) = key + Tag
    BY <1>0, <1>6, RawValue
  <2>2. Key(kind, key + Tag) = RandomKey(key + Tag)
    BY <1>1, <1>6 DEF Key
  <2>3. RandomKey(key + Tag) = key
    BY <1>2, Flags DEF RandomKey, RandomFlag, WritableFlag, DirectoryFlag
  <2> QED BY <2>1, <2>2, <2>3
<1> QED BY <1>3, <1>4, <1>5, <1>6 DEF Kinds

\* A long that a table takes for one of its keys is the handle of that key.
LEMMA KeyOwn ==
  ASSUME NEW kind \in Kinds, NEW raw \in Int, Key(kind, raw) \in Calls
  PROVE  raw = RawOf(kind, Key(kind, raw))
<1> DEFINE key == Key(kind, raw)
<1>0. Tag \in Nat /\ key \in Nat /\ key > 0
  BY KeyRange
<1>1. RawOf("video", key) = key /\ RawOf("random", key) = key + Tag
      /\ RawOf("writable", key) = key + 2 * Tag /\ RawOf("directory", key) = key + 4 * Tag
  BY <1>0, RawValue
<1>2. /\ kind = "video" => key = raw
      /\ kind = "directory" => key = raw - 4 * Tag
      /\ kind = "writable" => key = raw - 2 * Tag
      /\ kind = "random" => key = raw - Tag
  BY <1>0 DEF Key, DirectoryKey, WritableKey, RandomKey, DirectoryFlag, WritableFlag, RandomFlag
<1> HIDE DEF key
<1>3. /\ kind = "video" => raw = key
      /\ kind = "directory" => raw = key + 4 * Tag
      /\ kind = "writable" => raw = key + 2 * Tag
      /\ kind = "random" => raw = key + Tag
  BY <1>0, <1>2
<1>4. raw = RawOf(kind, key)
  BY <1>1, <1>3 DEF Kinds
<1> QED BY <1>4 DEF key

\* Handles of different kinds, and of different keys, differ.
LEMMA RawDistinct ==
  ASSUME NEW kind \in Kinds, NEW other \in Kinds, NEW a \in Calls, NEW b \in Calls,
         RawOf(kind, a) = RawOf(other, b)
  PROVE  kind = other /\ a = b
<1>0. /\ Tag \in Nat /\ a \in Nat /\ a > 0 /\ a < Tag /\ b \in Nat /\ b > 0 /\ b < Tag
  BY KeyRange
<1> DEFINE W == 2 * Tag
           D == 4 * Tag
<1>1. W = Tag + Tag /\ D = W + W /\ W \in Nat /\ D \in Nat
  BY <1>0
<1>2. /\ RawOf("video", a) = a /\ RawOf("random", a) = a + Tag
      /\ RawOf("writable", a) = a + W /\ RawOf("directory", a) = a + D
      /\ RawOf("video", b) = b /\ RawOf("random", b) = b + Tag
      /\ RawOf("writable", b) = b + W /\ RawOf("directory", b) = b + D
  BY <1>0, RawValue
<1> HIDE DEF W, D
<1> DEFINE x == CASE kind = "video" -> 0 [] kind = "random" -> Tag
                  [] kind = "writable" -> W [] kind = "directory" -> D
           y == CASE other = "video" -> 0 [] other = "random" -> Tag
                  [] other = "writable" -> W [] other = "directory" -> D
<1>3. a + x = b + y
  BY <1>0, <1>1, <1>2 DEF Kinds
<1>4. kind = other
  BY <1>0, <1>1, <1>3 DEF Kinds
<1>5. x \in Nat /\ x = y
  BY <1>0, <1>1, <1>4 DEF Kinds
<1> HIDE DEF x, y
<1>6. a = b
  BY <1>0, <1>3, <1>5
<1> QED BY <1>4, <1>6

-----------------------------------------------------------------------------
(* Calls.                                                                  *)

Ops == Kinds \cup OneShots \cup {"none", "use", "close"}
Places == {"none", "create", "late create", "insert", "set", "late set", "close", "dropped",
           "closing", "done"}
Results == {"none", "ok", "refused", "unknown", "refused late"}

CallRec ==
  [op : Ops, kind : Kinds \cup {"none"}, path : Seq(STRING), dest : Seq(STRING), at : Places,
   session : Nat, raw : Int, ended : Results, applied : Nat]

\* How far a mutation is, what it has done and what Java is told of it.
MutationOk(at, result, applied) ==
  /\ at \in {"create", "late create", "set", "late set", "close", "dropped", "done"}
  /\ at \in {"create", "set"} => applied = 0 /\ result = "none"
  /\ at \in {"late create", "late set"} => applied = 0 /\ result = "unknown"
  /\ at = "close" => /\ result \in {"none", "refused", "unknown"}
                     /\ applied = IF result = "none" THEN 1 ELSE 0
  /\ at \in {"dropped", "done"} =>
       /\ applied \in {0, 1}
       /\ result # "none"
       /\ result \in {"ok", "refused late"} => applied = 1
       /\ result = "refused" => applied = 0

\* How far the opening of a handle is; once it is open the call is over.
OpeningOk(at, result) ==
  /\ at \in {"create", "late create", "insert", "dropped", "done"}
  /\ result = "ok" => at = "done"

CallOk(op, at, result, applied) ==
  /\ op \in OneShots => MutationOk(at, result, applied)
  /\ op \in Kinds => OpeningOk(at, result)
  /\ op = "none" => at = "none"
  /\ op = "use" => at = "done"
  /\ op = "close" => at \in {"closing", "done"}
  /\ at \in {"set", "late set"} => op \in {"rename", "delete_file"}

CallsInv ==
  /\ current \in 0 .. MaxCalls /\ calls \in [Calls -> CallRec]
  /\ \A c \in Calls : CallOk(calls[c].op, calls[c].at, calls[c].ended, calls[c].applied)
  /\ \A c \in Calls : c > current => calls[c].op = "none"

\* The call c goes on; the others stay where they are.
Turns(c, at, result, applied) ==
  /\ calls' \in [Calls -> CallRec]
  /\ \A d \in Calls \ {c} : calls'[d] = calls[d]
  /\ calls'[c].op = calls[c].op /\ calls'[c].raw = calls[c].raw
  /\ calls'[c].session = calls[c].session
  /\ calls'[c].at = at /\ calls'[c].ended = result /\ calls'[c].applied = applied

\* A call that was not made.
LEMMA NoCallRec ==
  /\ NoCall \in CallRec /\ NoCall.op = "none" /\ NoCall.at = "none" /\ NoCall.session = 0
  /\ NoCall.raw = 0 /\ NoCall.ended = "none" /\ NoCall.applied = 0 /\ NoCall.kind = "none"
<1>1. << >> \in Seq(STRING)
  OBVIOUS
<1> QED BY <1>1 DEF NoCall, CallRec, Ops, Places, Results, Kinds, NoSession

\* One call is replaced.
LEMMA Replaced ==
  ASSUME calls \in [Calls -> CallRec], NEW c \in Calls, NEW r \in CallRec,
         calls' = [calls EXCEPT ![c] = r]
  PROVE  /\ calls' \in [Calls -> CallRec] /\ calls'[c] = r
         /\ \A d \in Calls \ {c} : calls'[d] = calls[d]
OBVIOUS

\* A call ends.
LEMMA EndTurns ==
  ASSUME calls \in [Calls -> CallRec], NEW c \in Calls, NEW result \in Results, End(c, result)
  PROVE  Turns(c, "done", result, calls[c].applied)
<1> DEFINE r == [calls[c] EXCEPT !.at = "done", !.ended = result, !.path = << >>, !.dest = << >>]
<1>1. calls[c] \in CallRec /\ << >> \in Seq(STRING)
  OBVIOUS
<1>2. /\ r \in CallRec /\ r.at = "done" /\ r.ended = result /\ r.applied = calls[c].applied
      /\ r.op = calls[c].op /\ r.raw = calls[c].raw /\ r.session = calls[c].session
  BY <1>1 DEF CallRec, Places
<1>3. calls' = [calls EXCEPT ![c] = r]
  BY DEF End
<1> HIDE DEF r
<1> QED BY <1>2, <1>3, Replaced DEF Turns

\* A call goes on, with a result or having taken effect.
LEMMA StepTurns ==
  ASSUME calls \in [Calls -> CallRec], NEW c \in Calls, NEW at \in Places, NEW result \in Results,
         NEW n \in Nat,
         \/ calls' = [calls EXCEPT ![c].at = at, ![c].ended = result] /\ n = calls[c].applied
         \/ calls' = [calls EXCEPT ![c].at = at, ![c].applied = n] /\ result = calls[c].ended
  PROVE  Turns(c, at, result, n)
<1>1. calls[c] \in CallRec
  OBVIOUS
<1>2. \A d \in Calls \ {c} : calls'[d] = calls[d]
  OBVIOUS
<1>3. \/ calls'[c] = [calls[c] EXCEPT !.at = at, !.ended = result] /\ n = calls[c].applied
      \/ calls'[c] = [calls[c] EXCEPT !.at = at, !.applied = n] /\ result = calls[c].ended
  OBVIOUS
<1>4. /\ calls'[c] \in CallRec /\ calls'[c].at = at /\ calls'[c].ended = result
      /\ calls'[c].applied = n /\ calls'[c].op = calls[c].op /\ calls'[c].raw = calls[c].raw
      /\ calls'[c].session = calls[c].session
  BY <1>1, <1>3 DEF CallRec
<1>5. calls' = [d \in Calls |-> calls'[d]]
  OBVIOUS
<1>6. calls' \in [Calls -> CallRec]
  BY <1>2, <1>4, <1>5
<1> QED BY <1>2, <1>4, <1>6 DEF Turns

\* The sessions whose handle Java has been given.
OkSession(r) == r.op \in Kinds /\ r.ended = "ok"

\* A call that goes on: neither before nor after it is an open session, and it is
\* at its SET_INFO only behind its CREATE.
Goes(c) ==
  /\ calls' \in [Calls -> CallRec]
  /\ \A d \in Calls \ {c} : calls'[d] = calls[d]
  /\ calls'[c].op = calls[c].op /\ calls[c].op # "none"
  /\ CallOk(calls[c].op, calls'[c].at, calls'[c].ended, calls'[c].applied)
  /\ ~OkSession(calls[c]) /\ ~OkSession(calls'[c])
  /\ calls'[c].at # "closing"
  /\ calls'[c].at \in {"set", "late set"} => Create(c) \/ calls[c].at = "set"
  /\ UNCHANGED <<engine, next, table, current, closed>>

LEMMA TurnGoes ==
  ASSUME NEW c \in Calls, NEW at, NEW result, NEW n, Turns(c, at, result, n),
         CallOk(calls[c].op, at, result, n), calls[c].op # "none",
         calls[c].op \in Kinds => calls[c].ended # "ok" /\ result # "ok",
         at # "closing", at \in {"set", "late set"} => Create(c) \/ calls[c].at = "set",
         UNCHANGED <<engine, next, table, current, closed>>
  PROVE  Goes(c)
<1>1. /\ calls' \in [Calls -> CallRec]
      /\ \A d \in Calls \ {c} : calls'[d] = calls[d]
      /\ calls'[c].op = calls[c].op /\ calls'[c].at = at /\ calls'[c].ended = result
      /\ calls'[c].applied = n
  BY DEF Turns
<1>2. ~OkSession(calls[c]) /\ ~OkSession(calls'[c])
  BY <1>1 DEF OkSession
<1>3. CallOk(calls[c].op, calls'[c].at, calls'[c].ended, calls'[c].applied)
  BY <1>1
<1> QED BY <1>1, <1>2, <1>3 DEF Goes

\* What a call may be doing.
LEMMA CallAt ==
  ASSUME CallsInv, NEW c \in Calls
  PROVE  /\ calls \in [Calls -> CallRec] /\ calls[c] \in CallRec
         /\ calls[c].op \in Ops /\ calls[c].applied \in Nat /\ calls[c].ended \in Results
         /\ CallOk(calls[c].op, calls[c].at, calls[c].ended, calls[c].applied)
BY DEF CallsInv, CallRec

\* Before its CREATE is answered a call has no result and no effect.
LEMMA CreateGoes ==
  ASSUME CallsInv, NEW c \in Calls,
         ConnectFails(c) \/ CreateRefused(c) \/ Create(c) \/ CreateLost(c)
  PROVE  Goes(c)
<1> DEFINE op == calls[c].op
           m == calls[c].applied
           was == calls[c].ended
<1>0. /\ calls[c].at = "create" /\ UNCHANGED <<engine, next, table, current, closed>>
      /\ calls \in [Calls -> CallRec]
  BY DEF ConnectFails, CreateRefused, Create, CreateLost, At, CallsInv
<1>1. op \in Ops /\ m \in Nat /\ was \in Results /\ CallOk(op, "create", was, m)
  BY <1>0, CallAt
<1>2. CASE ConnectFails(c) \/ CreateRefused(c)
  <2>1. PICK result \in {"refused", "unknown"} : End(c, result)
    BY <1>2 DEF ConnectFails, CreateRefused
  <2>2. Turns(c, "done", result, m)
    BY <1>0, <2>1, EndTurns DEF Results
  <2> HIDE DEF op, m, was
  <2>3. CallOk(op, "done", result, m) /\ op # "none" /\ (op \in Kinds => was # "ok")
    BY <1>1 DEF CallOk, MutationOk, OpeningOk
  <2> QED BY <1>0, <2>2, <2>3, TurnGoes DEF op, m, was
<1>3. CASE CreateLost(c)
  <2>1. calls' = [calls EXCEPT ![c].at = "late create", ![c].ended = "unknown"]
    BY <1>3 DEF CreateLost
  <2>2. Turns(c, "late create", "unknown", m)
    BY <1>0, <1>1, <2>1, StepTurns DEF Places, Results
  <2> HIDE DEF op, m, was
  <2>3. CallOk(op, "late create", "unknown", m) /\ op # "none" /\ (op \in Kinds => was # "ok")
    BY <1>1 DEF CallOk, MutationOk, OpeningOk
  <2> QED BY <1>0, <2>2, <2>3, TurnGoes DEF op, m, was
<1>4. CASE Create(c)
  <2> DEFINE n == m + (IF Applies(op, "create") THEN 1 ELSE 0)
             at == AfterCreate(op)
  <2>1. calls' = [calls EXCEPT ![c].at = at, ![c].applied = n]
    BY <1>0, <1>4 DEF Create
  <2>2. n \in Nat /\ (op \in {"mkdir", "create_file"} => n = m + 1)
        /\ (op \in {"rename", "delete_file"} => n = m)
    BY <1>1 DEF Applies
  <2>3. at \in {"insert", "close", "set"} /\ at \in Places
    BY DEF AfterCreate, Places
  <2> HIDE DEF n, at
  <2>4. Turns(c, at, was, n)
    BY <1>0, <1>1, <2>1, <2>2, <2>3, StepTurns
  <2> HIDE DEF op, m, was
  <2>5. op \in Kinds \cup OneShots /\ was # "ok" /\ (op \in OneShots => was = "none" /\ m = 0)
    BY <1>1 DEF CallOk, MutationOk, OpeningOk, Ops
  <2>6. CallOk(op, at, was, n)
    <3>1. CASE op \in Kinds
      BY <2>5, <3>1 DEF CallOk, OpeningOk, AfterCreate, Kinds, OneShots, at
    <3>2. CASE op \in {"mkdir", "create_file"}
      BY <2>2, <2>5, <3>2 DEF CallOk, MutationOk, AfterCreate, Kinds, OneShots, at
    <3>3. CASE op \in {"rename", "delete_file"}
      BY <2>2, <2>5, <3>3 DEF CallOk, MutationOk, AfterCreate, Kinds, OneShots, at
    <3> QED BY <2>5, <3>1, <3>2, <3>3 DEF OneShots
  <2>7. op # "none"
    BY <2>5 DEF Kinds, OneShots
  <2> QED BY <1>0, <1>4, <2>3, <2>4, <2>5, <2>6, <2>7, TurnGoes DEF op, was
<1> QED BY <1>2, <1>3, <1>4

\* A call at its SET_INFO, or without an answer to it, is a rename or a delete.
LEMMA SetGoes ==
  ASSUME CallsInv, NEW c \in Calls,
         Mutate(c) \/ MutateRefused(c) \/ MutateLost(c) \/ LateSet(c)
  PROVE  Goes(c)
<1> DEFINE op == calls[c].op
           m == calls[c].applied
           was == calls[c].ended
           at == calls[c].at
<1>0. /\ at \in {"set", "late set"} /\ UNCHANGED <<engine, next, table, current, closed>>
      /\ calls \in [Calls -> CallRec]
  BY DEF Mutate, MutateRefused, MutateLost, LateSet, At, CallsInv
<1>1. op \in Ops /\ m \in Nat /\ was \in Results /\ CallOk(op, at, was, m)
  BY <1>0, CallAt
<1>2. /\ op \in {"rename", "delete_file"} /\ op \in OneShots /\ op \notin Kinds /\ op # "none"
      /\ m = 0 /\ was = IF at = "set" THEN "none" ELSE "unknown"
  <2> HIDE DEF op, m, was, at
  <2> QED BY <1>0, <1>1 DEF CallOk, MutationOk, OneShots, Kinds
<1>3. m + 1 \in Nat /\ m + 1 = 1
  <2> HIDE DEF m
  <2> QED BY <1>2
<1>4. CASE Mutate(c)
  <2>1. calls' = [calls EXCEPT ![c].at = "close", ![c].applied = m + 1] /\ at = "set"
    BY <1>0, <1>4 DEF Mutate, At
  <2>2. Turns(c, "close", was, m + 1)
    BY <1>0, <1>1, <1>3, <2>1, StepTurns DEF Places
  <2> HIDE DEF op, m, was, at
  <2>3. CallOk(op, "close", was, m + 1)
    BY <1>2, <1>3, <2>1 DEF CallOk, MutationOk, OneShots, Kinds
  <2> QED BY <1>0, <1>2, <2>2, <2>3, TurnGoes DEF op, was
<1>5. CASE MutateRefused(c)
  <2>1. PICK result \in {"refused", "unknown"} :
          calls' = [calls EXCEPT ![c].at = "close", ![c].ended = result]
    BY <1>5 DEF MutateRefused
  <2>2. Turns(c, "close", result, m)
    BY <1>0, <1>1, <2>1, StepTurns DEF Places, Results
  <2> HIDE DEF op, m, was, at
  <2>3. CallOk(op, "close", result, m)
    BY <1>2 DEF CallOk, MutationOk, OneShots, Kinds
  <2> QED BY <1>0, <1>2, <2>2, <2>3, TurnGoes DEF op, was
<1>6. CASE MutateLost(c)
  <2>1. calls' = [calls EXCEPT ![c].at = "late set", ![c].ended = "unknown"] /\ at = "set"
    BY <1>6 DEF MutateLost, At
  <2>2. Turns(c, "late set", "unknown", m)
    BY <1>0, <1>1, <2>1, StepTurns DEF Places, Results
  <2> HIDE DEF op, m, was
  <2>3. CallOk(op, "late set", "unknown", m)
    BY <1>2 DEF CallOk, MutationOk, OneShots, Kinds
  <2> QED BY <1>0, <1>2, <2>1, <2>2, <2>3, TurnGoes DEF op, was
<1>7. CASE LateSet(c)
  <2>1. calls' = [calls EXCEPT ![c].at = "dropped", ![c].applied = m + 1] /\ at = "late set"
    BY <1>0, <1>7 DEF LateSet, At
  <2>2. Turns(c, "dropped", was, m + 1)
    BY <1>0, <1>1, <1>3, <2>1, StepTurns DEF Places
  <2> HIDE DEF op, m, was, at
  <2>3. CallOk(op, "dropped", was, m + 1)
    BY <1>2, <1>3, <2>1 DEF CallOk, MutationOk, OneShots, Kinds
  <2> QED BY <1>0, <1>2, <2>2, <2>3, TurnGoes DEF op, was
<1> QED BY <1>4, <1>5, <1>6, <1>7

\* The end of a call.
LEMMA CloseGoes ==
  ASSUME CallsInv, NEW c \in Calls,
         LateCreate(c) \/ Close(c) \/ CloseFails(c) \/ Dropped(c) \/ CloseSession(c)
  PROVE  Goes(c)
<1> DEFINE op == calls[c].op
           m == calls[c].applied
           was == calls[c].ended
           at == calls[c].at
<1>0. UNCHANGED <<engine, next, table, current, closed>> /\ calls \in [Calls -> CallRec]
  BY DEF LateCreate, Close, CloseFails, Dropped, CloseSession, CallsInv
<1>1. op \in Ops /\ m \in Nat /\ was \in Results /\ CallOk(op, at, was, m)
  BY <1>0, CallAt
<1>2. CASE LateCreate(c)
  <2> DEFINE n == m + (IF Applies(op, "create") THEN 1 ELSE 0)
  <2>1. calls' = [calls EXCEPT ![c].at = "dropped", ![c].applied = n] /\ at = "late create"
    BY <1>0, <1>2 DEF LateCreate, At
  <2>2. n \in Nat /\ (m = 0 => n \in {0, 1})
    BY <1>1
  <2> HIDE DEF n
  <2>3. Turns(c, "dropped", was, n)
    BY <1>0, <1>1, <2>1, <2>2, StepTurns DEF Places
  <2> HIDE DEF op, m, was, at
  <2>4. CallOk(op, "dropped", was, n) /\ op # "none" /\ (op \in Kinds => was # "ok")
    BY <1>1, <2>1, <2>2 DEF CallOk, MutationOk, OpeningOk
  <2> QED BY <1>0, <2>3, <2>4, TurnGoes DEF op, was
<1>3. CASE Close(c)
  <2> DEFINE result == IF was = "none" THEN "ok" ELSE was
  <2>1. End(c, result) /\ at = "close"
    BY <1>3 DEF Close, At
  <2>2. result \in Results
    BY <1>1 DEF Results
  <2>3. Turns(c, "done", result, m)
    BY <1>0, <2>1, <2>2, EndTurns
  <2> HIDE DEF op, m, was, at
  <2>4. CallOk(op, "done", result, m) /\ op # "none" /\ op \notin Kinds
    BY <1>1, <2>1 DEF CallOk, MutationOk, OpeningOk
  <2> QED BY <1>0, <2>3, <2>4, TurnGoes DEF op, was, m
<1>4. CASE CloseFails(c)
  <2>1. PICK late \in {"unknown", "refused late"} :
          calls' = [calls EXCEPT ![c].at = "dropped", ![c].ended = IF was = "none" THEN late ELSE was]
    BY <1>0, <1>4 DEF CloseFails
  <2> DEFINE result == IF was = "none" THEN late ELSE was
  <2>2. result \in Results
    BY <1>1 DEF Results
  <2>3. Turns(c, "dropped", result, m)
    BY <1>0, <1>1, <2>1, <2>2, StepTurns DEF Places
  <2>4. at = "close"
    BY <1>4 DEF CloseFails, At
  <2> HIDE DEF op, m, was, at
  <2>5. CallOk(op, "dropped", result, m) /\ op # "none" /\ op \notin Kinds
    BY <1>1, <2>4 DEF CallOk, MutationOk, OpeningOk
  <2> QED BY <1>0, <2>3, <2>5, TurnGoes DEF op, was, m
<1>5. CASE Dropped(c)
  <2>1. End(c, was) /\ at \in {"late create", "late set", "dropped"}
    BY <1>5 DEF Dropped
  <2>2. Turns(c, "done", was, m)
    BY <1>0, <1>1, <2>1, EndTurns
  <2> HIDE DEF op, m, was, at
  <2>3. CallOk(op, "done", was, m) /\ op # "none" /\ (op \in Kinds => was # "ok")
    BY <1>1, <2>1 DEF CallOk, MutationOk, OpeningOk
  <2> QED BY <1>0, <2>2, <2>3, TurnGoes DEF op, was, m
<1>6. CASE CloseSession(c)
  <2>1. PICK result \in {"ok", "unknown"} : End(c, result)
    BY <1>6 DEF CloseSession
  <2>2. Turns(c, "done", result, m)
    BY <1>0, <2>1, EndTurns DEF Results
  <2>3. at = "closing"
    BY <1>6 DEF CloseSession, At
  <2> HIDE DEF op, m, was, at
  <2>4. op = "close"
    BY <1>1, <2>3 DEF CallOk, MutationOk, OpeningOk, Ops
  <2>5. CallOk(op, "done", result, m) /\ op # "none" /\ op \notin Kinds
    BY <2>4 DEF CallOk, Kinds, OneShots
  <2> QED BY <1>0, <2>2, <2>5, TurnGoes DEF op, was, m
<1> QED BY <1>2, <1>3, <1>4, <1>5, <1>6

\* A call that goes on leaves every call in a place it may be in.
LEMMA GoesInv ==
  ASSUME CallsInv, NEW c \in Calls, Goes(c)
  PROVE  CallsInv'
<1>1. /\ calls' \in [Calls -> CallRec] /\ \A d \in Calls \ {c} : calls'[d] = calls[d]
      /\ calls'[c].op = calls[c].op /\ current' = current
      /\ CallOk(calls'[c].op, calls'[c].at, calls'[c].ended, calls'[c].applied)
  BY DEF Goes
<1>2. \A d \in Calls : CallOk(calls'[d].op, calls'[d].at, calls'[d].ended, calls'[d].applied)
  BY <1>1 DEF CallsInv
<1>3. \A d \in Calls : calls'[d].op = calls[d].op
  BY <1>1
<1>4. \A d \in Calls : d > current' => calls'[d].op = "none"
  BY <1>1, <1>3 DEF CallsInv
<1> QED BY <1>1, <1>2, <1>4 DEF CallsInv

\* Java makes a call.
LEMMA BeginInv ==
  ASSUME CallsInv, NEW r \in CallRec, current < MaxCalls, Begin(r),
         CallOk(r.op, r.at, r.ended, r.applied)
  PROVE  /\ CallsInv' /\ current + 1 \in Calls /\ calls[current + 1].op = "none"
         /\ calls'[current + 1] = r
         /\ \A d \in Calls \ {current + 1} : calls'[d] = calls[d]
<1> DEFINE c == current + 1
<1>1. c \in Calls /\ c > current /\ current \in 0 .. MaxCalls /\ MaxCalls \in Nat /\ c \in 0 .. MaxCalls
  BY KeyRange DEF CallsInv, Calls
<1>2. /\ current' = c /\ calls' = [calls EXCEPT ![c] = r] /\ calls \in [Calls -> CallRec]
      /\ calls[c].op = "none"
  BY <1>1 DEF Begin, CallsInv
<1> HIDE DEF c
<1>3. /\ calls' \in [Calls -> CallRec] /\ calls'[c] = r
      /\ \A d \in Calls \ {c} : calls'[d] = calls[d]
  BY <1>1, <1>2, Replaced
<1>4. \A d \in Calls : CallOk(calls'[d].op, calls'[d].at, calls'[d].ended, calls'[d].applied)
  BY <1>3 DEF CallsInv
<1>5. \A d \in Calls : d > c => calls'[d].op = "none"
  <2>1. \A d \in Calls : d > c => d > current /\ d # c
    BY <1>1 DEF c, Calls
  <2> QED BY <1>3, <2>1 DEF CallsInv
<1>6. CallsInv'
  BY <1>1, <1>2, <1>3, <1>4, <1>5 DEF CallsInv
<1> QED BY <1>1, <1>2, <1>3, <1>6 DEF c

-----------------------------------------------------------------------------
(* The handle tables.                                                      *)

OpenedIn(cs, kind) == {s \in Calls : OkSession(cs[s]) /\ cs[s].op = kind}

TableTypes ==
  /\ next \in [Kinds -> Nat] /\ table \in [Kinds -> [Calls -> Nat]]
  /\ closed \subseteq {s \in Calls : OkSession(calls[s])}

\* Keys are given out one after the other, one for each session.
Counted == \A kind \in Kinds : next[kind] = Cardinality(OpenedIn(calls, kind)) + 1

\* What a table holds is an open session under its own handle.
Entries ==
  \A kind \in Kinds, key \in Calls :
    table[kind][key] # NoSession =>
      /\ table[kind][key] \in Calls \ closed
      /\ OkSession(calls[table[kind][key]]) /\ calls[table[kind][key]].op = kind
      /\ calls[table[kind][key]].raw = RawOf(kind, key)

\* A session is in its table until its handle is closed, and nothing is there after it.
Sessions ==
  \A s \in Calls : OkSession(calls[s]) =>
    \E key \in Calls :
      /\ key < next[calls[s].op] /\ calls[s].raw = RawOf(calls[s].op, key)
      /\ table[calls[s].op][key] = IF s \in closed THEN NoSession ELSE s

\* No two sessions have the same handle.
Unshared ==
  \A s, t \in Calls :
    OkSession(calls[s]) /\ OkSession(calls[t]) /\ calls[s].raw = calls[t].raw => s = t

\* A native that closes a session has closed its handle.
Closing == \A c \in Calls : calls[c].at = "closing" => calls[c].session \in closed

TableInv == TableTypes /\ Counted /\ Entries /\ Sessions /\ Unshared /\ Closing

\* A step that opens and closes no handle.
LEMMA TableQuiet ==
  ASSUME TableInv, UNCHANGED <<next, table, closed>>,
         \A s \in Calls : OkSession(calls'[s]) <=> OkSession(calls[s]),
         \A s \in Calls : OkSession(calls[s]) =>
           calls'[s].op = calls[s].op /\ calls'[s].raw = calls[s].raw,
         \A s \in Calls : calls'[s].at = "closing" =>
           calls[s].at = "closing" /\ calls'[s].session = calls[s].session
  PROVE  TableInv'
<1>1. TableTypes'
  BY DEF TableInv, TableTypes
<1>2. Counted'
  <2> SUFFICES ASSUME NEW kind \in Kinds
               PROVE  next'[kind] = Cardinality(OpenedIn(calls', kind)) + 1
    BY DEF Counted
  <2>1. OpenedIn(calls', kind) = OpenedIn(calls, kind)
    BY DEF OpenedIn
  <2> QED BY <2>1 DEF TableInv, Counted
<1>3. Entries'
  BY DEF TableInv, Entries
<1>4. Sessions'
  BY DEF TableInv, Sessions
<1>5. Unshared'
  BY DEF TableInv, Unshared
<1>6. Closing'
  BY DEF TableInv, Closing
<1> QED BY <1>1, <1>2, <1>3, <1>4, <1>5, <1>6 DEF TableInv

\* One entry of one table changes.
LEMMA TableSet ==
  ASSUME table \in [Kinds -> [Calls -> Nat]], NEW kind \in Kinds, NEW key \in Calls, NEW v \in Nat,
         table' = [table EXCEPT ![kind][key] = v]
  PROVE  /\ table' \in [Kinds -> [Calls -> Nat]] /\ table'[kind][key] = v
         /\ \A other \in Kinds, k \in Calls : other # kind \/ k # key =>
              table'[other][k] = table[other][k]
<1>1. table'[kind] = [table[kind] EXCEPT ![key] = v] /\ table[kind] \in [Calls -> Nat]
  OBVIOUS
<1>2. \A other \in Kinds : other # kind => table'[other] = table[other]
  OBVIOUS
<1>3. table'[kind] \in [Calls -> Nat] /\ table'[kind][key] = v
      /\ \A k \in Calls : k # key => table'[kind][k] = table[kind][k]
  BY <1>1
<1>4. table' = [other \in Kinds |-> table'[other]]
  OBVIOUS
<1> QED BY <1>2, <1>3, <1>4

\* The next key is one of the table's.
LEMMA NextKey ==
  ASSUME TableInv, NEW c \in Calls, NEW kind \in Kinds, ~OkSession(calls[c])
  PROVE  /\ next[kind] \in Calls
         /\ Cardinality(OpenedIn(calls, kind) \cup {c}) = next[kind]
<1> DEFINE O == OpenedIn(calls, kind)
<1>1. next[kind] = Cardinality(O) + 1 /\ O \subseteq Calls /\ c \notin O
  BY DEF TableInv, Counted, OpenedIn
<1> HIDE DEF O
<1>2. MaxCalls \in Nat /\ IsFiniteSet(Calls) /\ Cardinality(Calls) = MaxCalls
  <2>1. MaxCalls \in Nat /\ 1 \in Int /\ MaxCalls \in Int
    BY KeyRange
  <2>2. IsFiniteSet(1 .. MaxCalls)
        /\ Cardinality(1 .. MaxCalls) = IF 1 > MaxCalls THEN 0 ELSE MaxCalls - 1 + 1
    BY <2>1, FS_Interval
  <2> QED BY <2>1, <2>2 DEF Calls
<1>3. IsFiniteSet(O)
  BY <1>1, <1>2, FS_Subset
<1>4. IsFiniteSet(O \cup {c}) /\ Cardinality(O \cup {c}) = Cardinality(O) + 1
  BY <1>1, <1>3, FS_AddElement
<1>5. O \cup {c} \subseteq Calls
  BY <1>1
<1>6. Cardinality(O \cup {c}) <= MaxCalls
  BY <1>2, <1>5, FS_Subset
<1>7. Cardinality(O) \in Nat
  BY <1>3, FS_CardinalityType
<1>8. next[kind] \in 1 .. MaxCalls
  BY <1>1, <1>2, <1>4, <1>6, <1>7
<1> QED BY <1>1, <1>4, <1>8 DEF O, Calls

\* A handle is a number.
LEMMA RawInt ==
  ASSUME NEW kind \in Kinds, NEW key \in Calls
  PROVE  RawOf(kind, key) \in Int
<1>1. key \in Nat /\ Tag \in Nat
  BY KeyRange
<1>2. key \in Int /\ key + Tag \in Int /\ key + 2 * Tag \in Int /\ key + 4 * Tag \in Int
  BY <1>1
<1> QED BY <1>1, <1>2, RawValue DEF Kinds

\* HandleTable::insert gives a session the next key, which nobody had before.
LEMMA InsertInv ==
  ASSUME CallsInv, TableInv, NEW c \in Calls, Insert(c)
  PROVE  CallsInv' /\ TableInv'
<1> DEFINE kind == calls[c].op
           key == next[kind]
           r == [NoCall EXCEPT !.op = kind, !.at = "done", !.ended = "ok", !.raw = RawOf(kind, key)]
<1>0. /\ kind \in Ops /\ CallOk(kind, "insert", calls[c].ended, calls[c].applied)
      /\ calls \in [Calls -> CallRec]
  BY CallAt DEF Insert, At
<1>1. kind \in Kinds /\ calls[c].ended # "ok"
  <2> HIDE DEF kind
  <2> QED BY <1>0 DEF CallOk, MutationOk, OpeningOk, Ops
<1>2. ~OkSession(calls[c])
  BY <1>1 DEF OkSession
<1>3. key \in Calls /\ Cardinality(OpenedIn(calls, kind) \cup {c}) = key
  BY <1>1, <1>2, NextKey
<1>4. /\ calls' = [calls EXCEPT ![c] = r] /\ table' = [table EXCEPT ![kind][key] = c]
      /\ next' = [next EXCEPT ![kind] = key + 1] /\ UNCHANGED <<engine, current, closed>>
  BY DEF Insert
<1>5. RawOf(kind, key) \in Int
  BY <1>1, <1>3, RawInt
<1> HIDE DEF kind, key
<1>6. r \in CallRec /\ r.op = kind /\ r.at = "done" /\ r.ended = "ok" /\ r.raw = RawOf(kind, key)
  BY <1>0, <1>5, NoCallRec DEF CallRec, Places, Results
<1> HIDE DEF r
<1>7. /\ calls' \in [Calls -> CallRec] /\ calls'[c] = r
      /\ \A d \in Calls \ {c} : calls'[d] = calls[d]
  BY <1>0, <1>4, <1>6, Replaced
<1>8. CallsInv'
  <2>1. CallOk(r.op, r.at, r.ended, r.applied)
    BY <1>1, <1>6 DEF CallOk, OpeningOk, Kinds, OneShots
  <2>2. \A d \in Calls : CallOk(calls'[d].op, calls'[d].at, calls'[d].ended, calls'[d].applied)
    BY <1>7, <2>1 DEF CallsInv
  <2>3. \A d \in Calls : calls'[d].op = calls[d].op
    BY <1>6, <1>7 DEF kind
  <2>4. \A d \in Calls : d > current' => calls'[d].op = "none"
    BY <1>4, <2>3 DEF CallsInv
  <2>5. current' \in 0 .. MaxCalls
    BY <1>4 DEF CallsInv
  <2> QED BY <1>7, <2>2, <2>4, <2>5 DEF CallsInv
<1>9. /\ OkSession(calls'[c]) /\ calls'[c].op = kind /\ calls'[c].raw = RawOf(kind, key)
      /\ \A s \in Calls : s # c => calls'[s] = calls[s]
      /\ c \in Nat /\ c # NoSession
  BY <1>1, <1>6, <1>7, KeyRange DEF OkSession, NoSession
<1>10. next \in [Kinds -> Nat] /\ table \in [Kinds -> [Calls -> Nat]] /\ key \in Nat
       /\ closed \subseteq {s \in Calls : OkSession(calls[s])} /\ c \notin closed
  BY <1>2, <1>3, KeyRange DEF TableInv, TableTypes
<1>11. /\ table' \in [Kinds -> [Calls -> Nat]] /\ table'[kind][key] = c
       /\ \A other \in Kinds, k \in Calls : other # kind \/ k # key =>
            table'[other][k] = table[other][k]
  BY <1>1, <1>3, <1>4, <1>9, <1>10, TableSet
<1>12. next' \in [Kinds -> Nat] /\ next'[kind] = key + 1 /\ next[kind] = key
       /\ \A other \in Kinds : other # kind => next'[other] = next[other]
  BY <1>1, <1>4, <1>10 DEF key
<1>13. TableTypes'
  <2>1. \A s \in closed : s \in Calls /\ OkSession(calls'[s])
    BY <1>9, <1>10
  <2> QED BY <1>4, <1>11, <1>12, <2>1 DEF TableTypes
<1>14. Counted'
  <2> SUFFICES ASSUME NEW other \in Kinds
               PROVE  next'[other] = Cardinality(OpenedIn(calls', other)) + 1
    BY DEF Counted
  <2>1. CASE other = kind
    <3>1. OpenedIn(calls', kind) = OpenedIn(calls, kind) \cup {c}
      BY <1>2, <1>9 DEF OpenedIn
    <3> QED BY <1>3, <1>12, <2>1, <3>1
  <2>2. CASE other # kind
    <3>1. OpenedIn(calls', other) = OpenedIn(calls, other)
      BY <1>2, <1>9, <2>2 DEF OpenedIn
    <3> QED BY <1>12, <2>2, <3>1 DEF TableInv, Counted
  <2> QED BY <2>1, <2>2
<1>15. Entries'
  <2> SUFFICES ASSUME NEW other \in Kinds, NEW k \in Calls, table'[other][k] # NoSession
               PROVE  /\ table'[other][k] \in Calls \ closed'
                      /\ OkSession(calls'[table'[other][k]]) /\ calls'[table'[other][k]].op = other
                      /\ calls'[table'[other][k]].raw = RawOf(other, k)
    BY DEF Entries
  <2>1. CASE other = kind /\ k = key
    BY <1>4, <1>9, <1>10, <1>11, <2>1
  <2>2. CASE other # kind \/ k # key
    <3>1. table'[other][k] = table[other][k]
      BY <1>11, <2>2
    <3>2. /\ table[other][k] \in Calls \ closed /\ OkSession(calls[table[other][k]])
          /\ calls[table[other][k]].op = other /\ calls[table[other][k]].raw = RawOf(other, k)
      BY <3>1 DEF TableInv, Entries
    <3>3. calls'[table[other][k]] = calls[table[other][k]]
      BY <1>2, <1>9, <3>2
    <3> QED BY <1>4, <3>1, <3>2, <3>3
  <2> QED BY <2>1, <2>2
<1>16. \A s \in Calls : OkSession(calls[s]) =>
         /\ s # c /\ calls[s].op \in Kinds
         /\ \E k \in Calls :
              /\ k < next[calls[s].op] /\ calls[s].raw = RawOf(calls[s].op, k)
              /\ table[calls[s].op][k] = IF s \in closed THEN NoSession ELSE s
  BY <1>2 DEF TableInv, Sessions, OkSession
<1>17. Sessions'
  <2> SUFFICES ASSUME NEW s \in Calls, OkSession(calls'[s])
               PROVE  \E k \in Calls :
                        /\ k < next'[calls'[s].op] /\ calls'[s].raw = RawOf(calls'[s].op, k)
                        /\ table'[calls'[s].op][k] = IF s \in closed' THEN NoSession ELSE s
    BY DEF Sessions
  <2>1. CASE s = c
    <3>1. key < key + 1
      BY <1>10
    <3> QED BY <1>3, <1>4, <1>9, <1>10, <1>11, <1>12, <2>1, <3>1
  <2>2. CASE s # c
    <3>1. calls'[s] = calls[s] /\ OkSession(calls[s])
      BY <1>9, <2>2
    <3>2. PICK k \in Calls : /\ k < next[calls[s].op] /\ calls[s].raw = RawOf(calls[s].op, k)
                             /\ table[calls[s].op][k] = IF s \in closed THEN NoSession ELSE s
      BY <1>16, <3>1
    <3>3. calls[s].op # kind \/ k # key
      <4>1. k \in Nat
        BY KeyRange
      <4> QED BY <1>10, <1>12, <3>2, <4>1
    <3>4. table'[calls[s].op][k] = table[calls[s].op][k]
      BY <1>11, <1>16, <3>1, <3>3
    <3>5. k < next'[calls[s].op]
      <4>1. CASE calls[s].op = kind
        <5>1. k \in Nat /\ k < key
          BY <1>12, <3>2, <4>1, KeyRange
        <5>2. k < key + 1
          BY <1>10, <5>1
        <5> QED BY <1>12, <4>1, <5>2
      <4>2. CASE calls[s].op # kind
        BY <1>12, <1>16, <3>1, <3>2, <4>2
      <4> QED BY <4>1, <4>2
    <3> QED BY <1>4, <3>1, <3>2, <3>4, <3>5
  <2> QED BY <2>1, <2>2
<1>18. Unshared'
  <2>1. ASSUME NEW s \in Calls, s # c, OkSession(calls[s])
        PROVE  calls[s].raw # RawOf(kind, key)
    <3>1. PICK k \in Calls : k < next[calls[s].op] /\ calls[s].raw = RawOf(calls[s].op, k)
      BY <1>16, <2>1
    <3>2. calls[s].op \in Kinds /\ k \in Nat
      BY <1>16, <2>1, KeyRange
    <3>3. ~(calls[s].op = kind /\ k = key)
      BY <1>10, <1>12, <3>1, <3>2
    <3> QED BY <1>1, <1>3, <3>1, <3>2, <3>3, RawDistinct
  <2> SUFFICES ASSUME NEW s \in Calls, NEW t \in Calls, OkSession(calls'[s]), OkSession(calls'[t]),
                      calls'[s].raw = calls'[t].raw
               PROVE  s = t
    BY DEF Unshared
  <2>2. CASE s = c \/ t = c
    BY <1>9, <2>1, <2>2
  <2>3. CASE s # c /\ t # c
    BY <1>9, <2>3 DEF TableInv, Unshared
  <2> QED BY <2>2, <2>3
<1>19. Closing'
  BY <1>4, <1>6, <1>7 DEF TableInv, Closing
<1> QED BY <1>8, <1>13, <1>14, <1>15, <1>17, <1>18, <1>19 DEF TableInv

\* HandleTable::remove takes the session out for good.
LEMMA CloseHandleInv ==
  ASSUME CallsInv, TableInv, current < MaxCalls, NEW kind \in Kinds, NEW raw \in Int,
         CloseHandle(kind, raw)
  PROVE  CallsInv' /\ TableInv'
<1> DEFINE key == Key(kind, raw)
           s == Resolve(kind, raw)
           r == [NoCall EXCEPT !.op = "close", !.kind = kind, !.raw = raw, !.session = s,
                               !.at = "closing"]
           c == current + 1
<1>1. s # NoSession /\ key \in Calls /\ s = table[kind][key]
  BY DEF CloseHandle, Resolve
<1>2. /\ table' = [table EXCEPT ![kind][key] = NoSession] /\ closed' = closed \cup {s}
      /\ Begin(r) /\ UNCHANGED <<engine, next>>
  BY DEF CloseHandle
<1>3. raw = RawOf(kind, key)
  BY <1>1, KeyOwn
<1> HIDE DEF key, s
<1>4. /\ next \in [Kinds -> Nat] /\ table \in [Kinds -> [Calls -> Nat]]
      /\ closed \subseteq {t \in Calls : OkSession(calls[t])}
  BY DEF TableInv, TableTypes
<1>5. /\ s \in Calls /\ s \notin closed /\ OkSession(calls[s]) /\ calls[s].op = kind
      /\ calls[s].raw = RawOf(kind, key) /\ s \in Nat
  BY <1>1, KeyRange DEF TableInv, Entries
<1>6. /\ r \in CallRec /\ r.op = "close" /\ r.at = "closing" /\ r.session = s /\ r.ended = "none"
      /\ r.applied = 0
  BY <1>5, NoCallRec DEF CallRec, Ops, Places
<1> HIDE DEF r
<1>7. CallOk(r.op, r.at, r.ended, r.applied) /\ ~OkSession(r)
  BY <1>6 DEF CallOk, OkSession, Kinds, OneShots
<1>8. /\ CallsInv' /\ c \in Calls /\ calls[c].op = "none" /\ calls'[c] = r
      /\ \A d \in Calls \ {c} : calls'[d] = calls[d]
  BY <1>2, <1>6, <1>7, BeginInv
<1> HIDE DEF c
<1>9. ~OkSession(calls[c]) /\ ~OkSession(calls'[c])
  BY <1>7, <1>8 DEF OkSession, Kinds
<1>10. \A t \in Calls : /\ OkSession(calls'[t]) <=> OkSession(calls[t])
                        /\ OkSession(calls[t]) => calls'[t] = calls[t]
  BY <1>8, <1>9
<1>11. /\ table' \in [Kinds -> [Calls -> Nat]] /\ table'[kind][key] = NoSession
       /\ \A other \in Kinds, k \in Calls : other # kind \/ k # key =>
            table'[other][k] = table[other][k]
  BY <1>1, <1>2, <1>4, TableSet DEF NoSession
<1>12. TableTypes'
  <2>1. \A t \in closed' : t \in Calls /\ OkSession(calls'[t])
    BY <1>2, <1>4, <1>5, <1>10
  <2> QED BY <1>2, <1>4, <1>11, <2>1 DEF TableTypes
<1>13. Counted'
  <2> SUFFICES ASSUME NEW other \in Kinds
               PROVE  next'[other] = Cardinality(OpenedIn(calls', other)) + 1
    BY DEF Counted
  <2>1. OpenedIn(calls', other) = OpenedIn(calls, other)
    BY <1>10 DEF OpenedIn
  <2> QED BY <1>2, <2>1 DEF TableInv, Counted
<1>14. Entries'
  <2> SUFFICES ASSUME NEW other \in Kinds, NEW k \in Calls, table'[other][k] # NoSession
               PROVE  /\ table'[other][k] \in Calls \ closed'
                      /\ OkSession(calls'[table'[other][k]]) /\ calls'[table'[other][k]].op = other
                      /\ calls'[table'[other][k]].raw = RawOf(other, k)
    BY DEF Entries
  <2>1. other # kind \/ k # key
    BY <1>11
  <2>2. table'[other][k] = table[other][k]
    BY <1>11, <2>1
  <2>3. /\ table[other][k] \in Calls \ closed /\ OkSession(calls[table[other][k]])
        /\ calls[table[other][k]].op = other /\ calls[table[other][k]].raw = RawOf(other, k)
    BY <2>2 DEF TableInv, Entries
  <2>4. RawOf(other, k) # RawOf(kind, key)
    BY <1>1, <2>1, RawDistinct
  <2>5. table[other][k] # s
    BY <1>5, <2>3, <2>4
  <2> QED BY <1>2, <1>10, <2>2, <2>3, <2>5
<1>15. Sessions'
  <2> SUFFICES ASSUME NEW t \in Calls, OkSession(calls[t])
               PROVE  \E k \in Calls :
                        /\ k < next[calls[t].op] /\ calls[t].raw = RawOf(calls[t].op, k)
                        /\ table'[calls[t].op][k] = IF t \in closed' THEN NoSession ELSE t
    BY <1>2, <1>10 DEF Sessions
  <2>1. PICK k \in Calls : /\ k < next[calls[t].op] /\ calls[t].raw = RawOf(calls[t].op, k)
                           /\ table[calls[t].op][k] = IF t \in closed THEN NoSession ELSE t
    BY DEF TableInv, Sessions
  <2>2. calls[t].op \in Kinds
    BY DEF OkSession
  <2>3. CASE t = s
    <3>0. RawOf(kind, k) = RawOf(kind, key)
      BY <1>5, <2>1, <2>3
    <3>1. k = key
      BY <1>1, <3>0, RawDistinct
    <3>2. t \in closed' /\ table'[calls[t].op][k] = NoSession
      BY <1>2, <1>5, <1>11, <2>3, <3>1
    <3> QED BY <2>1, <3>2
  <2>4. CASE t # s
    <3>1. calls[t].raw # calls[s].raw
      BY <1>5, <2>4 DEF TableInv, Unshared
    <3>2. calls[t].op # kind \/ k # key
      BY <1>5, <2>1, <3>1
    <3>3. table'[calls[t].op][k] = table[calls[t].op][k]
      BY <1>11, <2>2, <3>2
    <3> QED BY <1>2, <2>1, <2>4, <3>3
  <2> QED BY <2>3, <2>4
<1>16. Unshared'
  BY <1>10 DEF TableInv, Unshared
<1>17. Closing'
  BY <1>2, <1>6, <1>8 DEF TableInv, Closing
<1> QED BY <1>8, <1>12, <1>13, <1>14, <1>15, <1>16, <1>17 DEF TableInv

\* Java asks for a handle or a mutation.
LEMMA RequestInv ==
  ASSUME CallsInv, TableInv, CanCall, NEW op \in Kinds \cup OneShots, NEW port,
         NEW path \in Spellings, NEW dest \in Spellings, Request(op, port, path, dest)
  PROVE  CallsInv' /\ TableInv'
<1> DEFINE r == [NoCall EXCEPT !.op = op, !.path = path, !.dest = dest, !.at = "create"]
           c == current + 1
<1>1. Begin(r) /\ UNCHANGED <<engine, next, table, closed>> /\ current < MaxCalls
  BY DEF Request, CanCall
<1>2. path \in Seq(STRING) /\ dest \in Seq(STRING)
  BY EngineLimits
<1>3. r \in CallRec /\ r.op = op /\ r.at = "create" /\ r.ended = "none" /\ r.applied = 0
  BY <1>2, NoCallRec DEF CallRec, Ops, Places
<1> HIDE DEF r
<1>4. CallOk(r.op, r.at, r.ended, r.applied) /\ ~OkSession(r)
  BY <1>3 DEF CallOk, MutationOk, OpeningOk, OkSession, Kinds, OneShots
<1>5. /\ CallsInv' /\ c \in Calls /\ calls[c].op = "none" /\ calls'[c] = r
      /\ \A d \in Calls \ {c} : calls'[d] = calls[d]
  BY <1>1, <1>3, <1>4, BeginInv
<1> HIDE DEF c
<1>6. ~OkSession(calls[c]) /\ ~OkSession(calls'[c]) /\ calls'[c].at # "closing"
  BY <1>3, <1>4, <1>5 DEF OkSession, Kinds
<1>7. \A t \in Calls : /\ OkSession(calls'[t]) <=> OkSession(calls[t])
                       /\ OkSession(calls[t]) => calls'[t] = calls[t]
                       /\ calls'[t].at = "closing" => calls'[t] = calls[t]
  BY <1>5, <1>6
<1>8. TableInv'
  BY <1>1, <1>7, TableQuiet
<1> QED BY <1>5, <1>8

\* Java uses a handle.
LEMMA UseInv ==
  ASSUME CallsInv, TableInv, CanCall, NEW kind \in Kinds, NEW raw \in Int, Use(kind, raw)
  PROVE  CallsInv' /\ TableInv'
<1> DEFINE s == Resolve(kind, raw)
           r == [NoCall EXCEPT !.op = "use", !.kind = kind, !.raw = raw, !.session = s, !.at = "done"]
           c == current + 1
<1>1. Begin(r) /\ UNCHANGED <<engine, next, table, closed>> /\ current < MaxCalls
  BY DEF Use, CanCall
<1>2. s \in Nat
  BY DEF Resolve, TableInv, TableTypes, NoSession
<1> HIDE DEF s
<1>3. r \in CallRec /\ r.op = "use" /\ r.at = "done" /\ r.ended = "none" /\ r.applied = 0
  BY <1>2, NoCallRec DEF CallRec, Ops, Places
<1> HIDE DEF r
<1>4. CallOk(r.op, r.at, r.ended, r.applied) /\ ~OkSession(r)
  BY <1>3 DEF CallOk, OkSession, Kinds, OneShots
<1>5. /\ CallsInv' /\ c \in Calls /\ calls[c].op = "none" /\ calls'[c] = r
      /\ \A d \in Calls \ {c} : calls'[d] = calls[d]
  BY <1>1, <1>3, <1>4, BeginInv
<1> HIDE DEF c
<1>6. ~OkSession(calls[c]) /\ ~OkSession(calls'[c]) /\ calls'[c].at # "closing"
  BY <1>3, <1>4, <1>5 DEF OkSession, Kinds
<1>7. \A t \in Calls : /\ OkSession(calls'[t]) <=> OkSession(calls[t])
                       /\ OkSession(calls[t]) => calls'[t] = calls[t]
                       /\ calls'[t].at = "closing" => calls'[t] = calls[t]
  BY <1>5, <1>6
<1>8. TableInv'
  BY <1>1, <1>7, TableQuiet
<1> QED BY <1>5, <1>8

\* A call that goes on opens and closes no handle.
LEMMA GoesTable ==
  ASSUME TableInv, NEW c \in Calls, Goes(c)
  PROVE  TableInv'
<1>1. /\ UNCHANGED <<next, table, closed>> /\ ~OkSession(calls[c]) /\ ~OkSession(calls'[c])
      /\ calls'[c].at # "closing" /\ \A d \in Calls \ {c} : calls'[d] = calls[d]
  BY DEF Goes
<1>2. \A t \in Calls : /\ OkSession(calls'[t]) <=> OkSession(calls[t])
                       /\ OkSession(calls[t]) => calls'[t] = calls[t]
                       /\ calls'[t].at = "closing" => calls'[t] = calls[t]
  BY <1>1
<1> QED BY <1>1, <1>2, TableQuiet

\* Every native that asks for a handle or a mutation is a Request.
LEMMA OpenIsRequest ==
  ASSUME OpenOrMutate
  PROVE  \E op \in Kinds \cup OneShots, port \in {0, 445}, path \in Spellings, dest \in Spellings :
           Request(op, port, path, dest)
<1>1. PICK port \in {0, 445}, path \in Spellings :
        \/ NativeOpenVideo(port, path) \/ NativeOpenDirectory(port, path)
        \/ NativeOpenWritable(port, path) \/ NativeOpenRandom(port, path)
        \/ NativeMkdir(port, path) \/ NativeCreateFile(port, path) \/ NativeDeleteFile(port, path)
        \/ \E dest \in Spellings : NativeRename(port, path, dest)
  BY DEF OpenOrMutate
<1>2. \E op \in {"video", "directory", "writable", "random", "mkdir", "create_file", "rename", "delete_file"},
         dest \in Spellings : Request(op, port, path, dest)
  BY <1>1 DEF NativeOpenVideo, NativeOpenDirectory, NativeOpenWritable, NativeOpenRandom,
              NativeMkdir, NativeCreateFile, NativeDeleteFile, NativeRename
<1> QED BY <1>2 DEF Kinds, OneShots

\* Every native on a handle uses or closes it.
LEMMA UseOrCloseIs ==
  ASSUME UseOrClose
  PROVE  \E kind \in Kinds, raw \in Int : Use(kind, raw) \/ CloseHandle(kind, raw)
<1>1. \E raw \in Raws : \E kind \in Kinds : Use(kind, raw) \/ CloseHandle(kind, raw)
  BY DEF UseOrClose, Kinds, NativeLen, NativeReadDirectoryPage, NativeDirectoryCapacity,
         NativeDirectorySize, NativeFlushWritable, NativeFlushRandom, NativeClose,
         NativeCloseDirectory, NativeCloseWritable, NativeCloseRandom, NativeSeek, NativePrefetch,
         NativeSetRandomLength, NativeReadAt, NativeWriteAt, NativeReadRandomAt, NativeWriteRandomAt
<1>2. Raws \subseteq Int
  BY EngineLimits DEF Raws
<1> QED BY <1>1, <1>2

\* Nothing has been called, and no handle given out.
LEMMA LocalInit ==
  ASSUME Init
  PROVE  CallsInv /\ TableInv
<1>1. /\ next = [kind \in Kinds |-> 1] /\ table = [kind \in Kinds |-> [key \in Calls |-> NoSession]]
      /\ current = 0 /\ calls = [c \in Calls |-> NoCall] /\ closed = {}
  BY DEF Init
<1>2. \A c \in Calls : calls[c] = NoCall
  BY <1>1
<1>3. \A c \in Calls : ~OkSession(calls[c]) /\ calls[c].at = "none"
  BY <1>2, NoCallRec DEF OkSession, Kinds
<1>4. CallsInv
  <2>1. current \in 0 .. MaxCalls
    BY <1>1, KeyRange
  <2>2. calls \in [Calls -> CallRec]
    BY <1>1, NoCallRec
  <2>3. CallOk("none", "none", "none", 0)
    BY DEF CallOk, Kinds, OneShots
  <2>4. \A c \in Calls : CallOk(calls[c].op, calls[c].at, calls[c].ended, calls[c].applied)
    BY <1>2, <2>3, NoCallRec
  <2>5. \A c \in Calls : calls[c].op = "none"
    BY <1>2, NoCallRec
  <2> QED BY <2>1, <2>2, <2>4, <2>5 DEF CallsInv
<1>5. TableTypes
  BY <1>1 DEF TableTypes, NoSession
<1>6. Counted
  <2> SUFFICES ASSUME NEW kind \in Kinds
               PROVE  next[kind] = Cardinality(OpenedIn(calls, kind)) + 1
    BY DEF Counted
  <2>1. OpenedIn(calls, kind) = {}
    BY <1>3 DEF OpenedIn
  <2>2. Cardinality({}) = 0
    BY FS_EmptySet
  <2>3. next[kind] = 1
    BY <1>1
  <2> QED BY <2>1, <2>2, <2>3
<1>7. Entries
  BY <1>1 DEF Entries
<1>8. Sessions /\ Unshared /\ Closing
  BY <1>3 DEF Sessions, Unshared, Closing
<1> QED BY <1>4, <1>5, <1>6, <1>7, <1>8 DEF TableInv

\* Every step keeps both.
LEMMA LocalStep ==
  ASSUME CallsInv, TableInv, [Next]_vars
  PROVE  CallsInv' /\ TableInv'
<1>1. CASE UNCHANGED <<next, table, current, calls, closed>>
  <2>1. CallsInv'
    BY <1>1 DEF CallsInv
  <2>2. TableInv'
    BY <1>1, TableQuiet
  <2> QED BY <2>1, <2>2
<1>2. CASE OpenOrMutate
  <2>1. CanCall
    BY <1>2 DEF OpenOrMutate
  <2> QED BY <1>2, <2>1, OpenIsRequest, RequestInv
<1>3. CASE UseOrClose
  <2>1. CanCall /\ current < MaxCalls
    BY <1>3 DEF UseOrClose, CanCall
  <2> QED BY <1>3, <2>1, UseOrCloseIs, UseInv, CloseHandleInv
<1>4. ASSUME NEW c \in Calls,
             \/ ConnectFails(c) \/ Create(c) \/ CreateRefused(c) \/ CreateLost(c) \/ LateCreate(c)
             \/ Mutate(c) \/ MutateRefused(c) \/ MutateLost(c) \/ LateSet(c)
             \/ Close(c) \/ CloseFails(c) \/ Dropped(c) \/ CloseSession(c)
      PROVE  CallsInv' /\ TableInv'
  <2>1. Goes(c)
    BY <1>4, CreateGoes, SetGoes, CloseGoes
  <2> QED BY <2>1, GoesInv, GoesTable
<1>5. ASSUME NEW c \in Calls, Insert(c)
      PROVE  CallsInv' /\ TableInv'
  BY <1>5, InsertInv
<1>6. CASE UNCHANGED vars
  BY <1>1, <1>6 DEF vars, local
<1>7. CASE InitEngine
  BY <1>1, <1>7 DEF InitEngine
<1>8. ASSUME NEW c \in Calls, ConnectionEnds(c)
      PROVE  CallsInv' /\ TableInv'
  BY <1>1, <1>8 DEF ConnectionEnds, local
<1> QED BY <1>2, <1>3, <1>4, <1>5, <1>6, <1>7, <1>8 DEF Next

-----------------------------------------------------------------------------
(* The share.                                                              *)

NodeRec == [kind : {"none", "file", "dir"}, data : {"empty", "old"}, pending : BOOLEAN]

ShareTypes ==
  /\ open \in [Calls -> Nodes \cup {NoNode}] /\ names \in [Names -> Nodes \cup {NoNode}]
  /\ nodes \in [Nodes -> NodeRec]

\* The files and directories there are are those with a name.
Named == \A n \in Nodes : nodes[n].kind # "none" <=> \E p \in Names : names[p] = n

\* Only files are to be deleted.
PendingFiles == \A n \in Nodes : nodes[n].pending => nodes[n].kind = "file"

\* What a delete has open is a file.
DeletesFiles ==
  \A c \in Calls :
    calls[c].op = "delete_file" /\ calls[c].at \in {"set", "late set"} =>
      open[c] \in Nodes /\ nodes[open[c]].kind = "file"

ShareInv == ShareTypes /\ Named /\ PendingFiles /\ DeletesFiles

\* What NothingReplaced says of one node.
Kept(n) ==
  nodes[n].kind # "none" =>
    /\ nodes'[n].kind = "none" => nodes[n].kind = "file" /\ nodes[n].pending
    /\ nodes'[n].kind # "none" => \E p \in Names : names'[p] = n
    /\ nodes'[n].data # nodes[n].data =>
         \E c \in Calls :
           /\ calls[c].op = "writable" /\ calls[c].at \in {"create", "late create"}
           /\ NormalizeRelativePath(calls[c].path) \in Names
           /\ names[NormalizeRelativePath(calls[c].path)] = n

LEMMA NodesNat == NoNode \notin Nodes /\ NoNode = 0
BY EngineLimits DEF NoNode

\* Which CREATE an operation sends.
LEMMA OptionsFit ==
  ASSUME NEW op \in Kinds \cup OneShots
  PROVE  /\ OptionsOf(op).disposition \in {"OPEN", "CREATE", "OVERWRITE_IF"}
         /\ OptionsOf(op).type \in {"file", "dir", "any"}
         /\ OptionsOf(op).type = "any" => OptionsOf(op).disposition = "OPEN"
         /\ OptionsOf(op).disposition = "OVERWRITE_IF" => op = "writable"
         /\ op = "delete_file" => OptionsOf(op).disposition = "OPEN" /\ OptionsOf(op).type = "file"
<1>1. CASE op \in Kinds
  BY <1>1 DEF Kinds, OptionsOf, ReadExistingRandom, ReadExistingDirectory, OverwriteForStream,
              WriteExistingRandom, WritableRandom
<1>2. CASE op \in {"mkdir", "create_file"}
  BY <1>2 DEF OptionsOf, CreateDirectory, CreateNewRandom, WritableRandom
<1>3. CASE op = "rename"
  BY <1>3 DEF OptionsOf, MutationExisting
<1>4. CASE op = "delete_file"
  BY <1>4 DEF OptionsOf, MutationExisting, MutationExistingFile
<1> QED BY <1>1, <1>2, <1>3, <1>4 DEF OneShots

\* One node changes.
LEMMA NodeSet ==
  ASSUME ShareTypes, NEW m \in Nodes, NEW r \in NodeRec, nodes' = [nodes EXCEPT ![m] = r]
  PROVE  /\ nodes' \in [Nodes -> NodeRec] /\ nodes'[m] = r
         /\ \A n \in Nodes : n # m => nodes'[n] = nodes[n]
BY DEF ShareTypes

\* CREATE names a node that had no name, or empties the one of that name.
LEMMA CreateShare ==
  ASSUME ShareTypes, Named, PendingFiles, NEW c \in Calls, NEW name,
         NEW op \in Kinds \cup OneShots, ServerCreate(c, name, OptionsOf(op))
  PROVE  /\ ShareTypes' /\ Named' /\ PendingFiles'
         /\ \A d \in Calls \ {c} : open'[d] = open[d]
         /\ op = "delete_file" => open'[c] \in Nodes /\ nodes'[open'[c]].kind = "file"
         /\ \A n \in Nodes : nodes[n].kind # "none" => nodes'[n].kind = nodes[n].kind
         /\ \A n \in Nodes : nodes[n].kind # "none" /\ nodes'[n].data # nodes[n].data =>
              op = "writable" /\ name \in Names /\ names[name] = n
<1> DEFINE options == OptionsOf(op)
           node == IF names[name] = NoNode THEN Fresh ELSE names[name]
           was == nodes[node]
           r == IF names[name] = NoNode
                  THEN [kind |-> options.type, data |-> "empty", pending |-> FALSE]
                  ELSE [was EXCEPT !.data = IF options.disposition = "OVERWRITE_IF" THEN "empty" ELSE was.data]
<1>1. /\ CanCreate(name, options) /\ open' = [open EXCEPT ![c] = node]
      /\ names' = [names EXCEPT ![name] = node] /\ nodes' = [nodes EXCEPT ![node] = r]
  BY DEF ServerCreate
<1>2. /\ options.type \in {"file", "dir", "any"}
      /\ options.type = "any" => options.disposition = "OPEN"
      /\ options.disposition = "OVERWRITE_IF" => op = "writable"
      /\ op = "delete_file" => options.disposition = "OPEN" /\ options.type = "file"
  BY OptionsFit
<1> HIDE DEF options
<1>3. /\ open \in [Calls -> Nodes \cup {NoNode}] /\ names \in [Names -> Nodes \cup {NoNode}]
      /\ nodes \in [Nodes -> NodeRec] /\ NoNode \notin Nodes
  BY NodesNat DEF ShareTypes
<1>4. name \in Names
  BY <1>1 DEF CanCreate
<1>5. node \in Nodes
  BY <1>1, <1>3, <1>4 DEF CanCreate, Fresh
<1>6. CASE names[name] = NoNode
  <2>1. nodes[node].kind = "none"
    BY <1>1, <1>6 DEF CanCreate, Fresh
  <2>2. options.type \in {"file", "dir"} /\ op # "delete_file"
    BY <1>1, <1>2, <1>6 DEF CanCreate
  <2>3. r = [kind |-> options.type, data |-> "empty", pending |-> FALSE]
    BY <1>6
  <2> HIDE DEF node, r
  <2>4. r \in NodeRec /\ r.kind \in {"file", "dir"} /\ r.pending = FALSE
    BY <2>2, <2>3 DEF NodeRec
  <2>5. /\ nodes' \in [Nodes -> NodeRec] /\ nodes'[node] = r
        /\ \A n \in Nodes : n # node => nodes'[n] = nodes[n]
    BY <1>1, <1>5, <2>4, NodeSet
  <2>6. /\ names' \in [Names -> Nodes \cup {NoNode}] /\ names'[name] = node
        /\ \A p \in Names : p # name => names'[p] = names[p]
    BY <1>1, <1>3, <1>4, <1>5
  <2>7. open' \in [Calls -> Nodes \cup {NoNode}] /\ \A d \in Calls \ {c} : open'[d] = open[d]
    BY <1>1, <1>3, <1>5
  <2>8. ShareTypes'
    BY <2>5, <2>6, <2>7 DEF ShareTypes
  <2>9. Named'
    <3> SUFFICES ASSUME NEW n \in Nodes
                 PROVE  nodes'[n].kind # "none" <=> \E p \in Names : names'[p] = n
      BY DEF Named
    <3>1. CASE n = node
      BY <1>4, <2>4, <2>5, <2>6, <3>1
    <3>2. CASE n # node
      <4>1. nodes'[n] = nodes[n]
        BY <2>5, <3>2
      <4>2. \A p \in Names : names'[p] = n <=> names[p] = n
        BY <1>3, <1>6, <2>6, <3>2
      <4> QED BY <4>1, <4>2 DEF Named
    <3> QED BY <3>1, <3>2
  <2>10. PendingFiles'
    BY <2>4, <2>5 DEF PendingFiles
  <2>11. \A n \in Nodes : nodes[n].kind # "none" => nodes'[n] = nodes[n]
    BY <2>1, <2>5
  <2> QED BY <2>2, <2>7, <2>8, <2>9, <2>10, <2>11
<1>7. CASE names[name] # NoNode
  <2>1. node = names[name] /\ r = [was EXCEPT !.data = IF options.disposition = "OVERWRITE_IF" THEN "empty" ELSE was.data]
    BY <1>7
  <2>2. /\ options.type \in {"any", nodes[node].kind}
        /\ op = "delete_file" => nodes[node].kind = "file"
    BY <1>1, <1>2, <1>7 DEF CanCreate
  <2> HIDE DEF node, r
  <2>3. was \in NodeRec
    BY <1>3, <1>5
  <2> HIDE DEF was
  <2>4. /\ r \in NodeRec /\ r.kind = was.kind /\ r.pending = was.pending
        /\ r.data # was.data => options.disposition = "OVERWRITE_IF"
    BY <2>1, <2>3 DEF NodeRec
  <2>5. /\ nodes' \in [Nodes -> NodeRec] /\ nodes'[node] = r
        /\ \A n \in Nodes : n # node => nodes'[n] = nodes[n]
    BY <1>1, <1>5, <2>4, NodeSet
  <2>6. names' = names
    BY <1>1, <1>3, <1>4, <2>1
  <2>7. /\ open' \in [Calls -> Nodes \cup {NoNode}] /\ open'[c] = node
        /\ \A d \in Calls \ {c} : open'[d] = open[d]
    BY <1>1, <1>3, <1>5
  <2>8. \A n \in Nodes : /\ nodes'[n].kind = nodes[n].kind
                         /\ nodes'[n].pending = nodes[n].pending
                         /\ nodes'[n].data # nodes[n].data =>
                              n = node /\ options.disposition = "OVERWRITE_IF"
    BY <2>4, <2>5 DEF was
  <2>9. ShareTypes' /\ Named' /\ PendingFiles'
    BY <1>3, <2>5, <2>6, <2>7, <2>8 DEF ShareTypes, Named, PendingFiles
  <2>10. op = "delete_file" => open'[c] \in Nodes /\ nodes'[open'[c]].kind = "file"
    BY <1>5, <2>2, <2>7, <2>8
  <2>11. \A n \in Nodes : nodes'[n].data # nodes[n].data =>
           op = "writable" /\ name \in Names /\ names[name] = n
    BY <1>2, <1>4, <2>1, <2>8
  <2> QED BY <2>7, <2>8, <2>9, <2>10, <2>11
<1> QED BY <1>6, <1>7

\* SET_INFO moves a node to a free name, as the client does not ask for another.
LEMMA RenameShare ==
  ASSUME ShareTypes, Named, NEW c \in Calls, NEW path, ServerRename(c, RenameInfo(path))
  PROVE  ShareTypes' /\ Named' /\ UNCHANGED <<open, nodes>>
<1>0. PICK dest : dest = RenameInfo(path).dest
  OBVIOUS
<1>1. /\ dest \in Names /\ names[dest] = NoNode /\ \E p \in Names : names[p] = open[c]
      /\ names' = [p \in Names |-> IF p = dest THEN open[c]
                                   ELSE IF names[p] = open[c] THEN NoNode ELSE names[p]]
      /\ UNCHANGED <<open, nodes>>
  <2>1. RenameInfo(path).replace = FALSE
    BY DEF RenameInfo, ReplaceIfExists
  <2> QED BY <1>0, <2>1 DEF ServerRename, CanRename
<1>2. /\ open \in [Calls -> Nodes \cup {NoNode}] /\ names \in [Names -> Nodes \cup {NoNode}]
      /\ nodes \in [Nodes -> NodeRec] /\ NoNode \notin Nodes
  BY NodesNat DEF ShareTypes
<1>3. /\ names'[dest] = open[c]
      /\ \A p \in Names : p # dest => names'[p] = IF names[p] = open[c] THEN NoNode ELSE names[p]
  BY <1>1
<1>4. ShareTypes'
  BY <1>1, <1>2 DEF ShareTypes
<1>5. \A n \in Nodes : (\E p \in Names : names'[p] = n) <=> (\E p \in Names : names[p] = n)
  <2> TAKE n \in Nodes
  <2>1. CASE n = open[c]
    BY <1>1, <1>3, <2>1
  <2>2. CASE n # open[c]
    <3>1. \A p \in Names : names'[p] = n <=> names[p] = n
      BY <1>1, <1>2, <1>3, <2>2
    <3> QED BY <3>1
  <2> QED BY <2>1, <2>2
<1>6. Named'
  BY <1>1, <1>5 DEF Named
<1> QED BY <1>1, <1>4, <1>6

\* SET_INFO marks what the call has open.
LEMMA DisposeShare ==
  ASSUME ShareTypes, Named, PendingFiles, NEW c \in Calls, ServerDispose(c),
         open[c] \in Nodes, nodes[open[c]].kind = "file"
  PROVE  /\ ShareTypes' /\ Named' /\ PendingFiles' /\ UNCHANGED <<open, names>>
         /\ \A n \in Nodes : nodes'[n].kind = nodes[n].kind /\ nodes'[n].data = nodes[n].data
<1> DEFINE m == open[c]
           r == [nodes[m] EXCEPT !.pending = TRUE]
<1>1. nodes' = [nodes EXCEPT ![m] = r] /\ UNCHANGED <<open, names>>
  BY DEF ServerDispose
<1>2. m \in Nodes /\ nodes[m] \in NodeRec
  BY DEF ShareTypes
<1> HIDE DEF m
<1>3. r \in NodeRec /\ r.kind = nodes[m].kind /\ r.data = nodes[m].data
  BY <1>2 DEF NodeRec
<1> HIDE DEF r
<1>4. /\ nodes' \in [Nodes -> NodeRec] /\ nodes'[m] = r
      /\ \A n \in Nodes : n # m => nodes'[n] = nodes[n]
  BY <1>1, <1>2, <1>3, NodeSet
<1>5. \A n \in Nodes : nodes'[n].kind = nodes[n].kind /\ nodes'[n].data = nodes[n].data
  BY <1>3, <1>4
<1>6. PendingFiles'
  BY <1>4, <1>5 DEF PendingFiles, m
<1>7. ShareTypes' /\ Named'
  BY <1>1, <1>4, <1>5 DEF ShareTypes, Named
<1> QED BY <1>1, <1>5, <1>6, <1>7

\* CLOSE takes a node away that is to be deleted and that nobody else has open.
LEMMA ReleaseShare ==
  ASSUME ShareTypes, Named, PendingFiles, NEW c \in Calls, ServerRelease(c)
  PROVE  /\ ShareTypes' /\ Named' /\ PendingFiles'
         /\ \A d \in Calls \ {c} : open'[d] = open[d]
         /\ \A d \in Calls \ {c} : open[d] \in Nodes => nodes'[open[d]].kind = nodes[open[d]].kind
         /\ \A n \in Nodes : /\ nodes'[n].kind # nodes[n].kind =>
                                  nodes'[n].kind = "none" /\ nodes[n].pending
                             /\ nodes'[n].data = nodes[n].data
<1> DEFINE node == open[c]
           last == node # NoNode /\ nodes[node].pending /\ \A d \in Calls \ {c} : open[d] # node
           r == [nodes[node] EXCEPT !.kind = "none", !.pending = FALSE]
<1>1. /\ open' = [open EXCEPT ![c] = NoNode]
      /\ nodes' = IF last THEN [nodes EXCEPT ![node] = r] ELSE nodes
      /\ names' = [p \in Names |-> IF last /\ names[p] = node THEN NoNode ELSE names[p]]
  BY DEF ServerRelease
<1>2. /\ open \in [Calls -> Nodes \cup {NoNode}] /\ names \in [Names -> Nodes \cup {NoNode}]
      /\ nodes \in [Nodes -> NodeRec] /\ NoNode \notin Nodes /\ node \in Nodes \cup {NoNode}
  BY NodesNat DEF ShareTypes
<1>3. open' \in [Calls -> Nodes \cup {NoNode}] /\ \A d \in Calls \ {c} : open'[d] = open[d]
  BY <1>1, <1>2
<1>4. CASE ~last
  <2>1. nodes' = nodes
    BY <1>1, <1>4
  <2> HIDE DEF last
  <2>2. names' = names
    BY <1>1, <1>2, <1>4
  <2> QED BY <1>2, <1>3, <2>1, <2>2 DEF ShareTypes, Named, PendingFiles
<1>5. CASE last
  <2>1. node \in Nodes /\ nodes[node].pending /\ \A d \in Calls \ {c} : open[d] # node
    BY <1>2, <1>5
  <2>2. nodes' = [nodes EXCEPT ![node] = r]
    BY <1>1, <1>5
  <2> HIDE DEF last
  <2>3. /\ names' \in [Names -> Nodes \cup {NoNode}]
        /\ \A p \in Names : names'[p] = IF names[p] = node THEN NoNode ELSE names[p]
    BY <1>1, <1>2, <1>5
  <2> HIDE DEF node
  <2>4. nodes[node] \in NodeRec
    BY <1>2, <2>1
  <2>5. r \in NodeRec /\ r.kind = "none" /\ r.pending = FALSE /\ r.data = nodes[node].data
    BY <2>4 DEF NodeRec
  <2> HIDE DEF r
  <2>6. /\ nodes' \in [Nodes -> NodeRec] /\ nodes'[node] = r
        /\ \A n \in Nodes : n # node => nodes'[n] = nodes[n]
    BY <2>1, <2>2, <2>5, NodeSet
  <2>7. ShareTypes'
    BY <1>3, <2>3, <2>6 DEF ShareTypes
  <2>8. Named'
    <3> SUFFICES ASSUME NEW n \in Nodes
                 PROVE  nodes'[n].kind # "none" <=> \E p \in Names : names'[p] = n
      BY DEF Named
    <3>1. CASE n = node
      BY <1>2, <2>3, <2>5, <2>6, <3>1
    <3>2. CASE n # node
      <4>1. \A p \in Names : names'[p] = n <=> names[p] = n
        BY <1>2, <2>3, <3>2
      <4> QED BY <2>6, <3>2, <4>1 DEF Named
    <3> QED BY <3>1, <3>2
  <2>9. PendingFiles'
    BY <2>5, <2>6 DEF PendingFiles
  <2>10. \A n \in Nodes : /\ nodes'[n].kind # nodes[n].kind =>
                               nodes'[n].kind = "none" /\ nodes[n].pending
                          /\ nodes'[n].data = nodes[n].data
    BY <2>1, <2>5, <2>6
  <2>11. \A d \in Calls \ {c} : open[d] \in Nodes => nodes'[open[d]] = nodes[open[d]]
    BY <2>1, <2>6
  <2> QED BY <1>3, <2>7, <2>8, <2>9, <2>10, <2>11
<1> QED BY <1>4, <1>5

\* A step that leaves the share alone and takes no call to its SET_INFO.
LEMMA ShareQuiet ==
  ASSUME ShareInv, UNCHANGED share,
         \A c \in Calls : calls'[c].at \in {"set", "late set"} =>
           calls[c].at \in {"set", "late set"} /\ calls'[c].op = calls[c].op
  PROVE  ShareInv' /\ \A n \in Nodes : Kept(n)
<1>1. open' = open /\ names' = names /\ nodes' = nodes
  BY DEF share
<1>2. ShareTypes' /\ Named' /\ PendingFiles'
  BY <1>1 DEF ShareInv, ShareTypes, Named, PendingFiles
<1>3. DeletesFiles'
  BY <1>1 DEF ShareInv, DeletesFiles
<1>4. \A n \in Nodes : Kept(n)
  BY <1>1 DEF ShareInv, Named, Kept
<1> QED BY <1>2, <1>3, <1>4 DEF ShareInv

\* A call that goes on is at its SET_INFO only if it was, or after its CREATE.
LEMMA GoesSet ==
  ASSUME NEW c \in Calls, Goes(c), NEW d \in Calls, calls'[d].at \in {"set", "late set"}
  PROVE  /\ calls'[d].op = calls[d].op
         /\ calls[d].at \in {"set", "late set"} \/ (d = c /\ Create(c))
<1>1. CASE d = c
  BY <1>1 DEF Goes
<1>2. CASE d # c
  BY <1>2 DEF Goes
<1> QED BY <1>1, <1>2

\* The CREATE of a call, on time or late.
LEMMA CreateStep ==
  ASSUME CallsInv, ShareInv, NEW c \in Calls, Goes(c), Create(c) \/ LateCreate(c)
  PROVE  ShareInv' /\ \A n \in Nodes : Kept(n)
<1> DEFINE op == calls[c].op
           name == ServerName(op, calls[c].path)
<1>1. ServerCreate(c, name, OptionsOf(op)) /\ calls[c].at \in {"create", "late create"}
  BY DEF Create, LateCreate, At
<1>2. op \in Kinds \cup OneShots
  <2>1. op \in Ops /\ CallOk(op, calls[c].at, calls[c].ended, calls[c].applied)
    BY CallAt
  <2> HIDE DEF op
  <2> QED BY <1>1, <2>1 DEF CallOk, Ops
<1>3. ShareTypes /\ Named /\ PendingFiles
  BY DEF ShareInv
<1>4. op = "writable" => name = NormalizeRelativePath(calls[c].path)
  BY DEF ServerName, OneShots
<1> HIDE DEF name, op
<1>5. /\ ShareTypes' /\ Named' /\ PendingFiles'
      /\ \A d \in Calls \ {c} : open'[d] = open[d]
      /\ op = "delete_file" => open'[c] \in Nodes /\ nodes'[open'[c]].kind = "file"
      /\ \A n \in Nodes : nodes[n].kind # "none" => nodes'[n].kind = nodes[n].kind
      /\ \A n \in Nodes : nodes[n].kind # "none" /\ nodes'[n].data # nodes[n].data =>
           op = "writable" /\ name \in Names /\ names[name] = n
  <2>1. PICK m \in {name}, o \in Kinds \cup OneShots : m = name /\ o = op
    BY <1>2
  <2>2. ServerCreate(c, m, OptionsOf(o))
    BY <1>1, <2>1 DEF ServerCreate
  <2>3. /\ ShareTypes' /\ Named' /\ PendingFiles'
        /\ \A d \in Calls \ {c} : open'[d] = open[d]
        /\ o = "delete_file" => open'[c] \in Nodes /\ nodes'[open'[c]].kind = "file"
        /\ \A n \in Nodes : nodes[n].kind # "none" => nodes'[n].kind = nodes[n].kind
        /\ \A n \in Nodes : nodes[n].kind # "none" /\ nodes'[n].data # nodes[n].data =>
             o = "writable" /\ m \in Names /\ names[m] = n
    BY <1>3, <2>2, CreateShare
  <2> QED BY <2>1, <2>3
<1>6. DeletesFiles'
  <2> SUFFICES ASSUME NEW d \in Calls, calls'[d].op = "delete_file",
                      calls'[d].at \in {"set", "late set"}
               PROVE  open'[d] \in Nodes /\ nodes'[open'[d]].kind = "file"
    BY DEF DeletesFiles
  <2>1. calls[d].op = "delete_file" /\ (calls[d].at \in {"set", "late set"} \/ d = c)
    BY GoesSet
  <2>2. CASE d = c
    BY <1>5, <2>1, <2>2 DEF op
  <2>3. CASE d # c
    <3>1. open[d] \in Nodes /\ nodes[open[d]].kind = "file" /\ open'[d] = open[d]
      BY <1>5, <2>1, <2>3 DEF ShareInv, DeletesFiles
    <3>2. nodes'[open[d]].kind = nodes[open[d]].kind
      BY <1>5, <3>1
    <3> QED BY <3>1, <3>2
  <2> QED BY <2>2, <2>3
<1>7. \A n \in Nodes : Kept(n)
  <2> SUFFICES ASSUME NEW n \in Nodes, nodes[n].kind # "none"
               PROVE  /\ nodes'[n].kind = "none" => nodes[n].kind = "file" /\ nodes[n].pending
                      /\ nodes'[n].kind # "none" => \E p \in Names : names'[p] = n
                      /\ nodes'[n].data # nodes[n].data =>
                           \E d \in Calls :
                             /\ calls[d].op = "writable" /\ calls[d].at \in {"create", "late create"}
                             /\ NormalizeRelativePath(calls[d].path) \in Names
                             /\ names[NormalizeRelativePath(calls[d].path)] = n
    BY DEF Kept
  <2>1. nodes'[n].kind # "none"
    BY <1>5
  <2>2. \E p \in Names : names'[p] = n
    BY <1>5, <2>1 DEF Named
  <2>3. ASSUME nodes'[n].data # nodes[n].data
        PROVE  /\ calls[c].op = "writable" /\ calls[c].at \in {"create", "late create"}
               /\ NormalizeRelativePath(calls[c].path) \in Names
               /\ names[NormalizeRelativePath(calls[c].path)] = n
    BY <1>1, <1>4, <1>5, <2>3 DEF op
  <2> QED BY <2>1, <2>2, <2>3
<1> QED BY <1>5, <1>6, <1>7 DEF ShareInv

\* The SET_INFO of a call, on time or late.
LEMMA SetStep ==
  ASSUME CallsInv, ShareInv, NEW c \in Calls, Goes(c), Mutate(c) \/ LateSet(c)
  PROVE  ShareInv' /\ \A n \in Nodes : Kept(n)
<1>1. ServerSetInfo(c) /\ calls[c].at \in {"set", "late set"}
  BY DEF Mutate, LateSet, At
<1>2. calls[c].op \in {"rename", "delete_file"}
  BY <1>1, CallAt DEF CallOk
<1>3. ShareTypes /\ Named /\ PendingFiles
  BY DEF ShareInv
<1>4. \/ ServerRename(c, RenameInfo(calls[c].dest))
      \/ ServerDispose(c) /\ open[c] \in Nodes /\ nodes[open[c]].kind = "file"
  BY <1>1, <1>2 DEF ServerSetInfo, ShareInv, DeletesFiles
<1>5. /\ ShareTypes' /\ Named' /\ PendingFiles' /\ open' = open
      /\ \A n \in Nodes : nodes'[n].kind = nodes[n].kind /\ nodes'[n].data = nodes[n].data
  <2>1. CASE ServerRename(c, RenameInfo(calls[c].dest))
    <3>1. ShareTypes' /\ Named' /\ UNCHANGED <<open, nodes>>
      BY <1>3, <2>1, RenameShare
    <3> QED BY <1>3, <3>1 DEF PendingFiles
  <2>2. CASE ServerDispose(c) /\ open[c] \in Nodes /\ nodes[open[c]].kind = "file"
    BY <1>3, <2>2, DisposeShare
  <2> QED BY <1>4, <2>1, <2>2
<1>6. ~Create(c)
  BY <1>1 DEF Create, At
<1>7. DeletesFiles'
  <2> SUFFICES ASSUME NEW d \in Calls, calls'[d].op = "delete_file",
                      calls'[d].at \in {"set", "late set"}
               PROVE  open'[d] \in Nodes /\ nodes'[open'[d]].kind = "file"
    BY DEF DeletesFiles
  <2>1. calls[d].op = "delete_file" /\ calls[d].at \in {"set", "late set"}
    BY <1>6, GoesSet
  <2>2. open[d] \in Nodes /\ nodes[open[d]].kind = "file"
    BY <2>1 DEF ShareInv, DeletesFiles
  <2> QED BY <1>5, <2>2
<1>8. \A n \in Nodes : Kept(n)
  BY <1>5 DEF Kept, Named
<1> QED BY <1>5, <1>7, <1>8 DEF ShareInv

\* A connection gives back what it had open.  No delete is at its SET_INFO on it.
LEMMA ReleaseStep ==
  ASSUME ShareInv, NEW s \in Calls, ServerRelease(s),
         \A d \in Calls : calls'[d].at \in {"set", "late set"} /\ calls'[d].op = "delete_file" =>
           d # s /\ calls[d].at \in {"set", "late set"} /\ calls[d].op = "delete_file"
  PROVE  ShareInv' /\ \A n \in Nodes : Kept(n)
<1>1. ShareTypes /\ Named /\ PendingFiles
  BY DEF ShareInv
<1>2. /\ ShareTypes' /\ Named' /\ PendingFiles'
      /\ \A d \in Calls \ {s} : open'[d] = open[d]
      /\ \A d \in Calls \ {s} : open[d] \in Nodes => nodes'[open[d]].kind = nodes[open[d]].kind
      /\ \A n \in Nodes : /\ nodes'[n].kind # nodes[n].kind =>
                               nodes'[n].kind = "none" /\ nodes[n].pending
                          /\ nodes'[n].data = nodes[n].data
  BY <1>1, ReleaseShare
<1>3. DeletesFiles'
  <2> SUFFICES ASSUME NEW d \in Calls, calls'[d].op = "delete_file",
                      calls'[d].at \in {"set", "late set"}
               PROVE  open'[d] \in Nodes /\ nodes'[open'[d]].kind = "file"
    BY DEF DeletesFiles
  <2>1. d # s /\ open[d] \in Nodes /\ nodes[open[d]].kind = "file"
    BY DEF ShareInv, DeletesFiles
  <2> QED BY <1>2, <2>1
<1>4. \A n \in Nodes : Kept(n)
  <2> SUFFICES ASSUME NEW n \in Nodes, nodes[n].kind # "none"
               PROVE  /\ nodes'[n].kind = "none" => nodes[n].kind = "file" /\ nodes[n].pending
                      /\ nodes'[n].kind # "none" => \E p \in Names : names'[p] = n
                      /\ nodes'[n].data = nodes[n].data
    BY DEF Kept
  <2>1. nodes'[n].kind = "none" => nodes[n].pending
    BY <1>2
  <2>2. nodes[n].pending => nodes[n].kind = "file"
    BY <1>1 DEF PendingFiles
  <2>3. nodes'[n].kind # "none" => \E p \in Names : names'[p] = n
    BY <1>2 DEF Named
  <2> QED BY <1>2, <2>1, <2>2, <2>3
<1> QED BY <1>2, <1>3, <1>4 DEF ShareInv

\* The share at first: each entry has a node of its own.
LEMMA ShareInit ==
  ASSUME Init
  PROVE  ShareInv
<1> DEFINE node == CHOOSE f \in [Names -> Nodes] : IsInjective(f)
<1>1. node \in [Names -> Nodes]
  BY EngineLimits
<1> HIDE DEF node
<1>2. PICK first \in Shares :
        LET held == {p \in Names : first[p] # "none"}
            kindOf(n) == IF \E p \in held : node[p] = n
                           THEN first[CHOOSE p \in held : node[p] = n] ELSE "none"
        IN /\ names = [p \in Names |-> IF p \in held THEN node[p] ELSE NoNode]
           /\ nodes = [n \in Nodes |-> [kind |-> kindOf(n), data |-> "old", pending |-> FALSE]]
  BY DEF Init, node
<1> DEFINE held == {p \in Names : first[p] # "none"}
           kindOf(n) == IF \E p \in held : node[p] = n
                          THEN first[CHOOSE p \in held : node[p] = n] ELSE "none"
<1>3. first \in [Names -> {"none", "file", "dir"}]
  BY EngineLimits
<1>4. /\ names = [p \in Names |-> IF p \in held THEN node[p] ELSE NoNode]
      /\ nodes = [n \in Nodes |-> [kind |-> kindOf(n), data |-> "old", pending |-> FALSE]]
  BY <1>2
<1>5. \A n \in Nodes : IF \E p \in held : node[p] = n
                         THEN kindOf(n) \in {"file", "dir"} ELSE kindOf(n) = "none"
  <2> TAKE n \in Nodes
  <2>1. CASE \E p \in held : node[p] = n
    <3> DEFINE q == CHOOSE p \in held : node[p] = n
    <3>1. q \in held
      BY <2>1
    <3>2. kindOf(n) = first[q]
      BY <2>1
    <3> HIDE DEF q
    <3> QED BY <1>3, <2>1, <3>1, <3>2
  <2>2. CASE ~ \E p \in held : node[p] = n
    BY <2>2
  <2> QED BY <2>1, <2>2
<1> HIDE DEF held, kindOf
<1>6. \A n \in Nodes : nodes[n].kind = kindOf(n) /\ nodes[n].data = "old" /\ nodes[n].pending = FALSE
  BY <1>4
<1>7. /\ open = [c \in Calls |-> NoNode] /\ calls = [c \in Calls |-> NoCall]
  BY DEF Init
<1>8. ShareTypes
  <2>1. \A n \in Nodes : [kind |-> kindOf(n), data |-> "old", pending |-> FALSE] \in NodeRec
    BY <1>5 DEF NodeRec
  <2>2. nodes \in [Nodes -> NodeRec]
    BY <1>4, <2>1
  <2>3. names \in [Names -> Nodes \cup {NoNode}]
    BY <1>1, <1>4
  <2> QED BY <1>7, <2>2, <2>3 DEF ShareTypes
<1>9. Named
  <2> SUFFICES ASSUME NEW n \in Nodes
               PROVE  nodes[n].kind # "none" <=> \E p \in Names : names[p] = n
    BY DEF Named
  <2>1. (\E p \in Names : names[p] = n) <=> \E p \in held : node[p] = n
    BY <1>4, NodesNat DEF held
  <2> QED BY <1>5, <1>6, <2>1
<1>10. PendingFiles
  BY <1>6 DEF PendingFiles
<1>11. DeletesFiles
  <2>1. \A c \in Calls : calls[c].at = "none"
    BY <1>7, NoCallRec
  <2> QED BY <2>1 DEF DeletesFiles
<1> QED BY <1>8, <1>9, <1>10, <1>11 DEF ShareInv

\* Java makes a call: nothing happens on the share yet.
LEMMA BeginShare ==
  ASSUME CallsInv, ShareInv, NEW r, Begin(r), r.at \notin {"set", "late set"}, UNCHANGED share
  PROVE  ShareInv' /\ \A n \in Nodes : Kept(n)
<1>1. \A d \in Calls : calls'[d] = r \/ calls'[d] = calls[d]
  BY DEF Begin, CallsInv
<1> QED BY <1>1, ShareQuiet

\* Every step keeps the share's invariant and every file.
LEMMA ShareStep ==
  ASSUME CallsInv, TableInv, ShareInv, [Next]_vars
  PROVE  ShareInv' /\ \A n \in Nodes : Kept(n)
<1>1. CASE OpenOrMutate
  <2>1. PICK op \in Kinds \cup OneShots, port \in {0, 445}, path \in Spellings, dest \in Spellings :
          Request(op, port, path, dest)
    BY <1>1, OpenIsRequest
  <2> DEFINE r == [NoCall EXCEPT !.op = op, !.path = path, !.dest = dest, !.at = "create"]
  <2>2. Begin(r) /\ UNCHANGED share
    BY <2>1 DEF Request
  <2>3. r.at = "create"
    BY DEF NoCall
  <2> HIDE DEF r
  <2> QED BY <2>2, <2>3, BeginShare
<1>2. CASE UseOrClose
  <2>1. PICK kind \in Kinds, raw \in Int : Use(kind, raw) \/ CloseHandle(kind, raw)
    BY <1>2, UseOrCloseIs
  <2> DEFINE s == Resolve(kind, raw)
             r == [NoCall EXCEPT !.op = "use", !.kind = kind, !.raw = raw, !.session = s, !.at = "done"]
             q == [NoCall EXCEPT !.op = "close", !.kind = kind, !.raw = raw, !.session = s,
                                 !.at = "closing"]
  <2>2. (Begin(r) \/ Begin(q)) /\ UNCHANGED share
    BY <2>1 DEF Use, CloseHandle
  <2> HIDE DEF s
  <2>3. r.at = "done" /\ q.at = "closing"
    BY DEF NoCall
  <2> HIDE DEF r, q
  <2> QED BY <2>2, <2>3, BeginShare
<1>3. ASSUME NEW c \in Calls, Create(c) \/ LateCreate(c)
      PROVE  ShareInv' /\ \A n \in Nodes : Kept(n)
  BY <1>3, CreateGoes, CloseGoes, CreateStep
<1>4. ASSUME NEW c \in Calls, Mutate(c) \/ LateSet(c)
      PROVE  ShareInv' /\ \A n \in Nodes : Kept(n)
  BY <1>4, SetGoes, SetStep
<1>5. ASSUME NEW c \in Calls, ~Create(c),
             ConnectFails(c) \/ CreateRefused(c) \/ CreateLost(c) \/ MutateRefused(c) \/ MutateLost(c)
               \/ CloseFails(c)
      PROVE  ShareInv' /\ \A n \in Nodes : Kept(n)
  <2>1. Goes(c)
    BY <1>5, CreateGoes, SetGoes, CloseGoes
  <2>2. UNCHANGED share
    BY <1>5 DEF ConnectFails, CreateRefused, CreateLost, MutateRefused, MutateLost, CloseFails
  <2>3. \A d \in Calls : calls'[d].at \in {"set", "late set"} =>
          calls[d].at \in {"set", "late set"} /\ calls'[d].op = calls[d].op
    BY <1>5, <2>1, GoesSet
  <2> QED BY <2>2, <2>3, ShareQuiet
<1>6. ASSUME NEW c \in Calls, Close(c) \/ Dropped(c)
      PROVE  ShareInv' /\ \A n \in Nodes : Kept(n)
  <2>1. Goes(c) /\ ServerRelease(c)
    BY <1>6, CloseGoes DEF Close, Dropped
  <2>2. calls \in [Calls -> CallRec] /\ calls[c].ended \in Results
    BY CallAt
  <2>3. PICK result \in Results : End(c, result)
    BY <1>6, <2>2 DEF Close, Dropped, Results
  <2>4. calls'[c].at = "done"
    BY <2>2, <2>3, EndTurns DEF Turns
  <2>5. \A d \in Calls : calls'[d].at \in {"set", "late set"} =>
          d # c /\ calls[d].at \in {"set", "late set"} /\ calls'[d].op = calls[d].op
    BY <2>1, <2>4, GoesSet
  <2> QED BY <2>1, <2>5, ReleaseStep
<1>7. ASSUME NEW c \in Calls, CloseSession(c)
      PROVE  ShareInv' /\ \A n \in Nodes : Kept(n)
  <2> DEFINE s == calls[c].session
  <2>1. Goes(c) /\ ~Create(c) /\ calls[c].at = "closing"
    BY <1>7, CloseGoes DEF CloseSession, Create, At
  <2>2. \A d \in Calls : calls'[d].at \in {"set", "late set"} =>
          calls[d].at \in {"set", "late set"} /\ calls'[d].op = calls[d].op
    BY <2>1, GoesSet
  <2>3. s \in Calls /\ OkSession(calls[s])
    BY <2>1 DEF TableInv, Closing, TableTypes
  <2>4. calls[s].op # "delete_file"
    BY <2>3 DEF OkSession, Kinds
  <2>5. CASE ServerRelease(calls[c].session)
    <3>1. PICK t \in Calls : t = s
      BY <2>3
    <3>2. ServerRelease(t)
      BY <2>5, <3>1 DEF ServerRelease
    <3>3. \A d \in Calls : calls'[d].at \in {"set", "late set"} /\ calls'[d].op = "delete_file" =>
            d # t /\ calls[d].at \in {"set", "late set"} /\ calls[d].op = "delete_file"
      BY <2>2, <2>4, <3>1
    <3> QED BY <3>2, <3>3, ReleaseStep
  <2>6. CASE UNCHANGED share
    BY <2>2, <2>6, ShareQuiet
  <2> QED BY <1>7, <2>5, <2>6 DEF CloseSession
<1>8. ASSUME NEW c \in Calls, ConnectionEnds(c)
      PROVE  ShareInv' /\ \A n \in Nodes : Kept(n)
  <2>1. ServerRelease(c) /\ calls' = calls /\ calls[c].op # "delete_file"
    BY <1>8 DEF ConnectionEnds, local, Kinds
  <2> QED BY <2>1, ReleaseStep
<1>9. ASSUME NEW c \in Calls, Insert(c)
      PROVE  ShareInv' /\ \A n \in Nodes : Kept(n)
  <2> DEFINE r == [NoCall EXCEPT !.op = calls[c].op, !.at = "done", !.ended = "ok",
                                 !.raw = RawOf(calls[c].op, next[calls[c].op])]
  <2>1. calls' = [calls EXCEPT ![c] = r] /\ UNCHANGED share
    BY <1>9 DEF Insert
  <2>2. r.at = "done"
    BY DEF NoCall
  <2> HIDE DEF r
  <2>3. \A d \in Calls : calls'[d] = r \/ calls'[d] = calls[d]
    BY <2>1 DEF CallsInv
  <2> QED BY <2>1, <2>2, <2>3, ShareQuiet
<1>10. CASE InitEngine \/ UNCHANGED vars
  <2>1. calls' = calls /\ UNCHANGED share
    BY <1>10 DEF InitEngine, vars, local, share
  <2> QED BY <2>1, ShareQuiet
<1> QED BY <1>1, <1>2, <1>3, <1>4, <1>5, <1>6, <1>7, <1>8, <1>9, <1>10 DEF Next

-----------------------------------------------------------------------------
(* The theorems.                                                           *)

IInv == CallsInv /\ TableInv /\ ShareInv

\* The inductive invariant of the engine: what each call may be doing, what each
\* handle table holds and which nodes the share has.
THEOREM EngineInv == Spec => []IInv
<1>1. Init => IInv
  BY LocalInit, ShareInit DEF IInv
<1>2. IInv /\ [Next]_vars => IInv'
  BY LocalStep, ShareStep DEF IInv
<1> QED BY <1>1, <1>2, PTL DEF Spec

\* Whatever long Java passes to a native of any kind, HandleTable::get finds the
\* session that very handle was returned for or none, and none once it is closed.
THEOREM HandlesCorrect == Spec => []HandlesFaithful
<1>1. IInv => HandlesFaithful
  <2> SUFFICES ASSUME TableInv
               PROVE  HandlesFaithful
    BY DEF IInv
  <2>1. Raws \subseteq Int
    BY EngineLimits DEF Raws
  <2>2. ASSUME NEW kind \in Kinds, NEW raw \in Int, Resolve(kind, raw) # NoSession
        PROVE  /\ Resolve(kind, raw) \in Calls \ closed
               /\ OkSession(calls[Resolve(kind, raw)]) /\ calls[Resolve(kind, raw)].op = kind
               /\ calls[Resolve(kind, raw)].raw = raw
    <3>1. Key(kind, raw) \in Calls /\ Resolve(kind, raw) = table[kind][Key(kind, raw)]
      BY <2>2 DEF Resolve
    <3>2. raw = RawOf(kind, Key(kind, raw))
      BY <3>1, KeyOwn
    <3> DEFINE key == Key(kind, raw)
    <3> HIDE DEF key
    <3>3. /\ table[kind][key] \in Calls \ closed /\ OkSession(calls[table[kind][key]])
          /\ calls[table[kind][key]].op = kind /\ calls[table[kind][key]].raw = RawOf(kind, key)
      BY <2>2, <3>1 DEF TableInv, Entries, key
    <3> QED BY <3>1, <3>2, <3>3 DEF key
  <2>3. ASSUME NEW s \in Calls, OkSession(calls[s])
        PROVE  calls[s].raw \in Int
               /\ Resolve(calls[s].op, calls[s].raw) = IF s \in closed THEN NoSession ELSE s
    <3>1. calls[s].op \in Kinds
      BY <2>3 DEF OkSession
    <3>2. PICK key \in Calls : /\ calls[s].raw = RawOf(calls[s].op, key)
                               /\ table[calls[s].op][key] = IF s \in closed THEN NoSession ELSE s
      BY <2>3 DEF TableInv, Sessions
    <3>3. Key(calls[s].op, calls[s].raw) = key /\ calls[s].raw \in Int
      BY <3>1, <3>2, OwnKey, RawInt
    <3> QED BY <3>2, <3>3 DEF Resolve
  <2>4. ASSUME NEW s \in closed, NEW kind \in Kinds
        PROVE  Resolve(kind, calls[s].raw) = NoSession
    <3>1. s \in Calls /\ OkSession(calls[s])
      BY DEF TableInv, TableTypes
    <3>2. calls[s].raw \in Int
      BY <2>3, <3>1
    <3>3. ASSUME Resolve(kind, calls[s].raw) # NoSession
          PROVE  FALSE
      <4>1. PICK raw \in Int : raw = calls[s].raw
        BY <3>2
      <4>2. Resolve(kind, raw) = Resolve(kind, calls[s].raw)
        BY <4>1
      <4>3. /\ Resolve(kind, raw) \in Calls \ closed /\ OkSession(calls[Resolve(kind, raw)])
            /\ calls[Resolve(kind, raw)].raw = raw
        BY <2>2, <3>3, <4>2
      <4>4. Resolve(kind, raw) = s
        BY <3>1, <4>1, <4>3 DEF TableInv, Unshared
      <4> QED BY <4>3, <4>4
    <3> QED BY <3>3
  <2>5. \A kind \in Kinds, raw \in Raws :
          Resolve(kind, raw) # NoSession =>
            /\ calls[Resolve(kind, raw)].op = kind /\ calls[Resolve(kind, raw)].raw = raw
            /\ Resolve(kind, raw) \notin closed
    BY <2>1, <2>2
  <2>6. \A s \in Calls :
          calls[s].op \in Kinds /\ calls[s].ended = "ok" /\ s \notin closed =>
            Resolve(calls[s].op, calls[s].raw) = s
    BY <2>3 DEF OkSession
  <2> QED BY <2>4, <2>5, <2>6 DEF HandlesFaithful
<1> QED BY <1>1, EngineInv, PTL

\* mkdir, create_file, rename and delete_file take effect at most once and Ok
\* means they did, whatever answer was lost; a named error means they did not,
\* unless it is the status of the CLOSE that follows.
THEOREM OutcomeCorrect == Spec => []MutationOutcome
<1>1. IInv => MutationOutcome
  <2> SUFFICES ASSUME CallsInv, NEW c \in Calls, calls[c].op \in OneShots
               PROVE  /\ calls[c].applied <= 1
                      /\ calls[c].ended = "ok" => calls[c].applied = 1
                      /\ calls[c].ended = "refused" => calls[c].applied = 0
                      /\ calls[c].ended = "refused late" => calls[c].applied = 1
    BY DEF IInv, MutationOutcome, Told
  <2> DEFINE at == calls[c].at
             result == calls[c].ended
             applied == calls[c].applied
  <2>1. MutationOk(at, result, applied)
    BY CallAt DEF CallOk
  <2> HIDE DEF at, result, applied
  <2>2. /\ result = "ok" => applied = 1
        /\ result = "refused" => applied = 0
        /\ result = "refused late" => applied = 1
    BY <2>1 DEF MutationOk
  <2>3. applied \in {0, 1}
    BY <2>1 DEF MutationOk
  <2>4. applied <= 1
    BY <2>3
  <2> QED BY <2>2, <2>4 DEF result, applied
<1> QED BY <1>1, EngineInv, PTL

\* No operation replaces or loses a file or directory: only a file marked for
\* deletion goes, and only an output stream's CREATE on its own name empties one.
THEOREM ReplacesNothing == Spec => NothingReplaced
<1> DEFINE A == \A n \in Nodes : Kept(n)
<1>1. IInv /\ [Next]_vars => A
  BY ShareStep DEF IInv
<1>2. A <=> \A n \in Nodes :
       nodes[n].kind # "none" =>
         /\ nodes'[n].kind = "none" => nodes[n].kind = "file" /\ nodes[n].pending
         /\ nodes'[n].kind # "none" => \E p \in Names : names'[p] = n
         /\ nodes'[n].data # nodes[n].data =>
              \E c \in Calls :
                /\ calls[c].op = "writable" /\ calls[c].at \in {"create", "late create"}
                /\ NormalizeRelativePath(calls[c].path) \in Names
                /\ names[NormalizeRelativePath(calls[c].path)] = n
  BY DEF Kept
<1> QED BY <1>1, <1>2, EngineInv, PTL DEF Spec, NothingReplaced
=============================================================================
