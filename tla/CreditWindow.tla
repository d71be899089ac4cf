---------------------------- MODULE CreditWindow ----------------------------
(***************************************************************************)
(* What the credit manager and the MessageId allocator of one connection   *)
(* promise together (crates/smb-client/src/credits.rs, message_id.rs and   *)
(* the reserve/grant calls of negotiate.rs).                               *)
(*                                                                         *)
(* The server owns a window of MessageIds 0 .. window-1 that the client    *)
(* may use; the credits of every response widen it.  The client knows the  *)
(* window only indirectly, as a count of credits and a next id, and every  *)
(* request reserves its charge and then allocates as many ids.             *)
(***************************************************************************)
EXTENDS Integers

CONSTANTS
  MaxAvailable,   \* u32::MAX, the limit of CreditManager::available
  MaxMessageId,   \* u64::MAX, the limit of MessageIdAllocator::next
  MaxCharge,      \* u16::MAX, the widest CreditCharge
  MaxGrant,       \* u16::MAX, the largest CreditResponse
  MaxWindow       \* bound: the server grants no id past this one

ASSUME CreditLimits ==
  /\ MaxAvailable \in Nat
  /\ MaxMessageId \in Nat \ {0}
  /\ MaxCharge \in Nat
  /\ MaxGrant \in Nat
  /\ MaxGrant <= MaxAvailable
  /\ MaxWindow \in Nat

VARIABLES
  available,      \* CreditManager::available, NotNegotiated while it is None
  next,           \* MessageIdAllocator::next
  window          \* first MessageId the server has not granted

vars == <<available, next, window>>

NotNegotiated == -1

-----------------------------------------------------------------------------
\* Mutants of the actions below, each a bug this code could have had: a budget
\* that is not checked, credits that are counted twice.
RequestUnchecked(charge) ==
  /\ available # NotNegotiated
  /\ available' = IF charge <= available THEN available - charge ELSE 0
  /\ next' = IF next + charge <= MaxMessageId THEN next + charge ELSE next
  /\ UNCHANGED window

GrantTwice(credits) ==
  /\ available # NotNegotiated
  /\ window + credits <= MaxWindow
  /\ window' = window + credits
  /\ available' = IF available + 2 * credits <= MaxAvailable
                    THEN available + 2 * credits ELSE available
  /\ UNCHANGED next

-----------------------------------------------------------------------------
\* A charge field of zero still costs one credit and one id.
LogicalCharge(charge) == IF charge = 0 THEN 1 ELSE charge

\* CreditManager::new: a server that grants nothing is refused.
FirstBudget(initial) == IF initial = 0 THEN NotNegotiated ELSE initial

\* CreditManager::grant: a sum that overflows is an error and changes nothing.
Granted(credits) ==
  IF available + credits <= MaxAvailable THEN available + credits ELSE available

\* MessageIdAllocator::allocate: an id space that is used up is an error, too.
Allocated(width) == IF next + width <= MaxMessageId THEN next + width ELSE next

(***************************************************************************)
(* A fresh connection may send exactly NEGOTIATE, with MessageId 0.        *)
(***************************************************************************)
Init ==
  /\ available = NotNegotiated
  /\ next = 0
  /\ window = 1

\* allocate(0) without a reservation, and the credits of the response.  negotiate
\* itself refuses only to run again after a success; that it runs once is what
\* its callers do, who make every attempt on a new connection.
Negotiate(initial) ==
  /\ next = 0
  /\ window + initial <= MaxWindow
  /\ next' = 1
  /\ window' = window + initial
  /\ available' = FirstBudget(initial)

\* reserve(charge), then allocate(charge), which may find no id left.
Request(charge) ==
  LET width == LogicalCharge(charge) IN
  /\ available # NotNegotiated
  /\ width <= available
  /\ available' = available - width
  /\ next' = Allocated(width)
  /\ UNCHANGED window

\* grant(credits) of a response the client accepts.  Whatever becomes of it, the
\* server has widened its window.
Grant(credits) ==
  /\ available # NotNegotiated
  /\ window + credits <= MaxWindow
  /\ window' = window + credits
  /\ available' = Granted(credits)
  /\ UNCHANGED next

\* A response whose credits are never applied: its header is refused first.
LoseGrant(credits) ==
  /\ available # NotNegotiated
  /\ window + credits <= MaxWindow
  /\ window' = window + credits
  /\ UNCHANGED <<available, next>>

Next ==
  \/ \E initial \in 0 .. MaxGrant : Negotiate(initial)
  \/ \E charge \in 0 .. MaxCharge : Request(charge)
  \/ \E credits \in 0 .. MaxGrant : Grant(credits)
  \/ \E credits \in 0 .. MaxGrant : LoseGrant(credits)

Spec == Init /\ [][Next]_vars

-----------------------------------------------------------------------------
\* The counters stay within the widths of their Rust types.
TypeOK ==
  /\ available \in {NotNegotiated} \cup 0 .. MaxAvailable
  /\ next \in 0 .. MaxMessageId
  /\ window \in Nat

(***************************************************************************)
(* The client's budget never exceeds what is left of the server's window:  *)
(* however reservations, grants, refused grants and failed allocations     *)
(* follow each other, spending every available credit stays inside it      *)
(* (credits.rs: "without ever exceeding the credits granted").             *)
(***************************************************************************)
WithinWindow ==
  /\ next <= window
  /\ available # NotNegotiated => next + available <= window

(***************************************************************************)
(* MessageIds are consumed upwards and only from the granted window: the   *)
(* span a request takes had been granted before the request was made, so   *)
(* no id is ever used twice (message_id.rs: allocate).                     *)
(***************************************************************************)
SpansGranted == [][next' # next => next' > next /\ next' <= window]_vars
=============================================================================
