------------------------------ MODULE Session -------------------------------
(***************************************************************************)
(* One connection from NEGOTIATE to CLOSE: Connection::negotiate,          *)
(* Connection::session_setup and the calls of a SessionConnection that     *)
(* send one request and await its answer (TREE_CONNECT, CREATE,            *)
(* QUERY_INFO, QUERY_DIRECTORY, SET_INFO, CLOSE).                          *)
(*                                                                         *)
(* The peer is external: a server that keeps to the protocol, and a wire   *)
(* on which a message may be changed, come late or not at all.  A changed  *)
(* message carries the mark `changed`, which the client cannot see: it     *)
(* stands for different bytes.  A signature is valid if it was made with   *)
(* the client's key and the message is the one that was signed; a hash is  *)
(* the sequence of the messages it was made from.                          *)
(*                                                                         *)
(* Every one of these requests costs one credit and one MessageId          *)
(* (CreditWindow has the widths).                                          *)
(***************************************************************************)
EXTENDS Integers, Sequences, FiniteSets

CONSTANTS
  Offered,        \* NegotiateConfig::dialects
  MaxRounds,      \* SessionSetupConfig::max_rounds
  InitialCredits, \* credits of the NEGOTIATE response
  Grants,         \* CreditResponse values the server chooses from
  MaxId,          \* bound: MessageIds used on the connection
  MaxFaults,      \* bound: messages changed on the wire
  MaxDeferred     \* bound: requests but SET_INFO that go asynchronous

\* Of those that sign alike one is enough: 2.0.2 as 2.1, 3.0.2 as 3.0.
Dialects == {"smb210", "smb300", "smb311"}

ASSUME SessionLimits ==
  /\ Offered \subseteq Dialects /\ Offered # {}
  /\ MaxRounds \in Nat \ {0}
  /\ InitialCredits \subseteq Nat
  /\ Grants \subseteq Nat
  /\ MaxId \in Nat
  /\ MaxFaults \in Nat
  /\ MaxDeferred \in Nat

VARIABLES
  policy,         \* what the caller configured
  phase,          \* where the client is
  params,         \* NegotiatedParameters, NoParams while it is None
  hash,           \* PreauthIntegrityHash; only SMB 3.1.1 keeps one
  provider,       \* the AuthProvider: "new", "sent" or "complete"
  token,          \* the token for the next round
  rounds,         \* SESSION_SETUP requests sent
  sid,            \* SessionId, 0 while none is assigned
  session,        \* signing state of the session, NoSession before
  tree, file,     \* the handles the caller holds
  request,        \* the request whose answer is awaited, or the last one
  asyncId,        \* AsyncResponseState of the request
  result,         \* how the last call ended
  available,      \* credits
  next,           \* next MessageId
  sent,           \* requests on their way to the server
  inbox,          \* responses on their way to the client
  server,         \* external: what the server remembers
  faults,         \* messages changed on the wire
  late,           \* history: a call has given up on its answer
  deferred        \* history: MessageIds answered STATUS_PENDING, but for SET_INFO

config == <<policy>>
setup == <<params, hash, provider, token, rounds, sid, session>>
handles == <<tree, file>>
call == <<request, asyncId>>
credit == <<available, next>>
wire == <<sent, inbox, server, faults>>
history == <<late, deferred>>
vars == <<config, phase, setup, handles, call, result, credit, wire, history>>

-----------------------------------------------------------------------------
NoKey == [set |-> FALSE, over |-> << >>]
Key(over) == [set |-> TRUE, over |-> over]
NoParams == [dialect |-> "none", requires |-> FALSE]
NoSession == [key |-> NoKey, required |-> FALSE, encrypted |-> FALSE, null |-> FALSE]
NoTree == 0
NoFile == 0
NoResult == [call |-> "none", kind |-> "none", asked |-> 0, answers |-> 0, changed |-> FALSE]

Commands == {"tree", "create", "query", "list", "set", "close"}

Request(cmd, word, key) ==
  [cmd |-> cmd, mid |-> next, token |-> word, tree |-> tree, file |-> file, key |-> key,
   changed |-> FALSE]

NoRequest == [cmd |-> "none", mid |-> 0, token |-> "none", tree |-> NoTree, file |-> NoFile,
              key |-> NoKey, changed |-> FALSE]

Init ==
  /\ policy \in [requires : BOOLEAN, mechanism : {"ntlm", "anonymous"}]
  /\ phase = "new"
  /\ params = NoParams /\ hash = << >>
  /\ provider = "new" /\ token = "none" /\ rounds = 0
  /\ sid = 0 /\ session = NoSession
  /\ tree = NoTree /\ file = NoFile
  /\ request = NoRequest /\ asyncId = "none" /\ result = NoResult
  /\ available = 0 /\ next = 0
  /\ sent = << >> /\ inbox = << >>
  /\ server = [params |-> NoParams, hash |-> << >>, sid |-> 0, key |-> NoKey,
               trees |-> {}, files |-> {}]
  /\ faults = 0 /\ late = FALSE /\ deferred = {}

\* The end of a call, and how.  The code has one ClientError::Protocol; here a
\* lack of credits ("credits") and an encrypted session ("unsupported"), which are
\* nobody's violation of the protocol, have names of their own.
EndedAs(cmd, kind) ==
  result' = [call |-> cmd, kind |-> kind, asked |-> request.mid, answers |-> 0, changed |-> FALSE]

Ended(kind) == EndedAs(request.cmd, kind)

\* A set-up that fails drops its connection: session_setup consumes it, and the
\* callers of negotiate make a new one for every attempt.
Drop(kind) == phase' = "dropped" /\ Ended(kind)

-----------------------------------------------------------------------------
(* NEGOTIATE.                                                               *)

SendNegotiate ==
  LET q == Request("negotiate", "none", NoKey) IN
  /\ phase = "new"
  /\ phase' = "negotiating"
  /\ next' = next + 1
  /\ request' = q
  /\ sent' = Append(sent, q)
  /\ hash' = IF "smb311" \in Offered THEN <<q>> ELSE << >>
  /\ UNCHANGED <<config, params, provider, token, rounds, sid, session, handles, asyncId,
                 result, available, inbox, server, faults, history>>

\* The response decodes, and names what the client offered.  `body` stands for
\* the contexts, the sizes and the layout.
NegotiateAccepted(r) ==
  /\ r.mid = request.mid
  /\ r.cmd = "negotiate"
  /\ r.body
  /\ r.dialect \in Offered
  /\ r.credits > 0

ReceiveNegotiate ==
  LET r == Head(inbox) IN
  /\ phase = "negotiating"
  /\ inbox # << >>
  /\ inbox' = Tail(inbox)
  /\ IF r.mid = request.mid /\ r.status # "ok"
       THEN Drop("status") /\ UNCHANGED <<params, hash, available>>
     ELSE IF ~NegotiateAccepted(r)
       THEN Drop("protocol") /\ UNCHANGED <<params, hash, available>>
     ELSE /\ phase' = "negotiated"
          /\ params' = [dialect |-> r.dialect, requires |-> r.requires \/ policy.requires]
          /\ hash' = IF r.dialect = "smb311" THEN Append(hash, r) ELSE << >>
          /\ available' = r.credits
          /\ Ended("ok")
  /\ UNCHANGED <<config, provider, token, rounds, sid, session, handles, call, next, sent,
                 server, faults, history>>

-----------------------------------------------------------------------------
(* SESSION_SETUP.                                                           *)

\* initial_token of either provider.
InitialToken ==
  /\ provider = "new"
  /\ provider' = "sent"
  /\ token' = "init"

StartSetup ==
  /\ phase = "negotiated"
  /\ phase' = "round"
  /\ InitialToken
  /\ UNCHANGED <<config, params, hash, rounds, sid, session, handles, call, result, credit,
                 wire, history>>

\* Only SMB 3.1.1 has a hash to update.
Hashed(h, m) == IF params.dialect = "smb311" THEN Append(h, m) ELSE h

SendSetup ==
  LET q == Request("setup", token, NoKey) IN
  /\ phase = "round"
  /\ IF rounds = MaxRounds \/ available = 0
       THEN /\ Drop(IF rounds = MaxRounds THEN "protocol" ELSE "credits")
            /\ UNCHANGED <<rounds, token, credit, request, hash, sent>>
       ELSE /\ phase' = "setup"
            /\ rounds' = rounds + 1
            /\ token' = "none"
            /\ available' = available - 1
            /\ next' = next + 1
            /\ request' = q
            /\ hash' = Hashed(hash, q)
            /\ sent' = Append(sent, q)
            /\ UNCHANGED result
  /\ UNCHANGED <<config, params, provider, sid, session, handles, asyncId, inbox, server,
                 faults, history>>

\* The header is that of the answer, the body decodes and the SessionId is not
\* another one than before (validate_session_id).
SetupAccepted(r) ==
  /\ r.cmd = "setup"
  /\ r.mid = request.mid
  /\ r.body
  /\ sid # 0 => r.sid = sid

AssignedId(r) == IF r.sid # 0 THEN r.sid ELSE sid

\* next_token: a provider that is complete has nothing more to say; before that
\* it must be given a CHALLENGE.
ChallengeAccepted(r) == r.blob = "challenge"

TokenAccepted(r) == provider = "complete" \/ ChallengeAccepted(r)

NextToken == IF provider = "sent" THEN "auth" ELSE "none"

\* STATUS_MORE_PROCESSING_REQUIRED
SetupContinues(r) ==
  /\ hash' = Hashed(hash, r)
  /\ sid' = AssignedId(r)
  /\ IF sid' # 0 /\ TokenAccepted(r)
       THEN /\ phase' = "round"
            /\ provider' = "complete"
            /\ token' = NextToken
            /\ UNCHANGED result
       ELSE Drop("protocol") /\ UNCHANGED <<provider, token>>
  /\ UNCHANGED <<session, rounds>>

GuestOrNull(r) == r.flags \cap {"guest", "null"} # {} \/ policy.mechanism = "anonymous"

DerivedKeyOverFinal(r) == IF GuestOrNull(r) THEN NoKey ELSE Key(Hashed(hash, r))

\* The key covers the hash up to the last request, for SMB 3.1.1.
DerivedKey(r) == IF GuestOrNull(r) THEN NoKey ELSE Key(hash)

SigningRequired(r) == params.requires /\ ~GuestOrNull(r) /\ "encrypt" \notin r.flags

Valid(r, key) == key.set /\ r.key = key /\ ~r.changed

FinalSignedByPolicy(r) ==
  IF r.key.set THEN Valid(r, DerivedKey(r)) ELSE ~SigningRequired(r)

\* The last response is signed, or nothing asks for it.
FinalSigned(r) ==
  IF r.key.set THEN Valid(r, DerivedKey(r))
  ELSE ~(params.dialect = "smb311" /\ ~GuestOrNull(r)) /\ ~SigningRequired(r)

\* STATUS_SUCCESS: the provider must have completed with the last token it sent.
SetupSucceeds(r) ==
  /\ sid' = AssignedId(r)
  /\ IF provider = "complete" /\ sid' # 0 /\ FinalSigned(r)
       THEN /\ phase' = "session"
            /\ session' = [key |-> DerivedKey(r), required |-> SigningRequired(r),
                           encrypted |-> "encrypt" \in r.flags, null |-> GuestOrNull(r)]
            /\ Ended("ok")
       ELSE Drop("protocol") /\ UNCHANGED session
  /\ UNCHANGED <<hash, provider, token, rounds>>

ReceiveSetup ==
  LET r == Head(inbox) IN
  /\ phase = "setup"
  /\ inbox # << >>
  /\ inbox' = Tail(inbox)
  /\ available' = available + r.credits
  /\ IF r.cmd = "setup" /\ r.mid = request.mid /\ r.status \notin {"ok", "more"}
       THEN Drop("status") /\ UNCHANGED <<hash, provider, token, rounds, sid, session>>
     ELSE IF ~SetupAccepted(r)
       THEN Drop("protocol") /\ UNCHANGED <<hash, provider, token, rounds, sid, session>>
     ELSE IF r.status = "more" THEN SetupContinues(r) ELSE SetupSucceeds(r)
  /\ UNCHANGED <<config, params, handles, call, next, sent, server, faults, history>>

-----------------------------------------------------------------------------
(* Calls on the session.                                                    *)

\* SMB 3.1.1 signs TREE_CONNECT whether or not signing is required.
TreeSigningKey ==
  IF session.required \/ (params.dialect = "smb311" /\ ~session.null)
    THEN session.key ELSE NoKey

SigningKey == IF session.required THEN session.key ELSE NoKey

\* What every call does up to its first await.
StartCall(cmd, key) ==
  LET q == Request(cmd, "none", key) IN
  /\ phase = "session"
  /\ next < MaxId
  /\ IF session.encrypted \/ available = 0
       THEN /\ EndedAs(cmd, IF session.encrypted THEN "unsupported" ELSE "credits")
            /\ UNCHANGED <<phase, call, credit, sent>>
       ELSE /\ phase' = "waiting"
            /\ available' = available - 1
            /\ next' = next + 1
            /\ request' = q
            /\ asyncId' = "none"
            /\ sent' = Append(sent, q)
            /\ UNCHANGED result
  /\ UNCHANGED <<config, setup, tree, inbox, server, faults, history>>

\* The caller keeps one tree and one file.
TreeConnect == tree = NoTree /\ StartCall("tree", TreeSigningKey) /\ UNCHANGED file
OpenFile == tree # NoTree /\ file = NoFile /\ StartCall("create", SigningKey) /\ UNCHANGED file
QueryInfo == file # NoFile /\ StartCall("query", SigningKey) /\ UNCHANGED file
QueryDirectory == file # NoFile /\ StartCall("list", SigningKey) /\ UNCHANGED file
SetInfo == file # NoFile /\ StartCall("set", SigningKey) /\ UNCHANGED file

CloseFileKeeping == file # NoFile /\ StartCall("close", SigningKey) /\ UNCHANGED file

\* The handle is consumed, whatever comes of the call.
CloseFile == file # NoFile /\ StartCall("close", SigningKey) /\ file' = NoFile

CorrelatedByCommand(r) == r.cmd = request.cmd /\ r.sid = sid

\* The response is one to this request.
Correlated(r) == r.cmd = request.cmd /\ r.mid = request.mid /\ r.sid = sid

\* It is synchronous and from the handle's tree.
OnTree(r) == Correlated(r) /\ r.form = "sync" /\ r.tree = request.tree

\* AsyncResponseState::validate: once asynchronous, always so.
AsyncAccepted(r) ==
  /\ Correlated(r)
  /\ IF r.form = "sync" THEN asyncId = "none" /\ r.status # "pending" /\ r.tree = request.tree
     ELSE asyncId \in {"none", r.form}

\* A signature is checked when there is one, and missed when signing is required.
Verified(r) == IF r.key.set THEN Valid(r, session.key) ELSE ~session.required

\* TREE_CONNECT, CREATE and CLOSE report a status before they look at the
\* signature.
TreeOutcome(r) ==
  IF ~Correlated(r) THEN "protocol"
  ELSE IF r.status # "ok" THEN "status"
  ELSE IF Verified(r) /\ r.body /\ r.form = "sync" /\ r.tree # NoTree THEN "ok"
  ELSE "protocol"

CreateOutcome(r) ==
  IF ~OnTree(r) THEN "protocol"
  ELSE IF r.status # "ok" THEN "status"
  ELSE IF Verified(r) /\ r.body /\ r.file # NoFile THEN "ok"
  ELSE "protocol"

CloseOutcome(r) ==
  IF ~OnTree(r) THEN "protocol"
  ELSE IF r.status # "ok" THEN "status"
  ELSE IF Verified(r) /\ r.body THEN "ok"
  ELSE "protocol"

\* The queries and SET_INFO look at the signature first.
QueryOutcome(r) ==
  IF ~OnTree(r) \/ ~Verified(r) THEN "protocol"
  ELSE IF r.status # "ok" THEN "status"
  ELSE IF r.body THEN "ok"
  ELSE "protocol"

\* STATUS_NO_MORE_FILES is an empty list.
ListOutcome(r) ==
  IF OnTree(r) /\ Verified(r) /\ r.status = "nomore" THEN "ok" ELSE QueryOutcome(r)

Interim(r) == r.form # "sync" /\ r.status = "pending"

\* An interim response may go without a signature.
SetOutcome(r) ==
  IF ~AsyncAccepted(r) THEN "protocol"
  ELSE IF ~(Verified(r) \/ (Interim(r) /\ ~r.key.set)) THEN "protocol"
  ELSE IF Interim(r) THEN "interim"
  ELSE IF r.status # "ok" THEN "status"
  ELSE IF r.body THEN "ok"
  ELSE "protocol"

Outcome(r) ==
  CASE request.cmd = "tree" -> TreeOutcome(r)
    [] request.cmd = "create" -> CreateOutcome(r)
    [] request.cmd = "query" -> QueryOutcome(r)
    [] request.cmd = "list" -> ListOutcome(r)
    [] request.cmd = "set" -> SetOutcome(r)
    [] request.cmd = "close" -> CloseOutcome(r)

HeaderAccepted(r) ==
  CASE request.cmd = "tree" -> Correlated(r)
    [] request.cmd = "set" -> AsyncAccepted(r)
    [] OTHER -> OnTree(r)

\* Credits are granted once the header is accepted.
ReceiveAnswer ==
  LET r == Head(inbox)
      outcome == Outcome(r)
  IN
  /\ phase = "waiting"
  /\ inbox # << >>
  /\ inbox' = Tail(inbox)
  /\ available' = IF HeaderAccepted(r) THEN available + r.credits ELSE available
  /\ IF outcome = "interim"
       THEN asyncId' = r.form /\ UNCHANGED <<phase, result, tree, file>>
       ELSE /\ phase' = "session"
            /\ result' = [call |-> request.cmd, kind |-> outcome, asked |-> request.mid,
                          answers |-> r.answers, changed |-> r.changed]
            /\ tree' = IF outcome = "ok" /\ request.cmd = "tree" THEN r.tree ELSE tree
            /\ file' = IF outcome = "ok" /\ request.cmd = "create" THEN r.file ELSE file
            /\ UNCHANGED asyncId
  /\ UNCHANGED <<config, setup, request, next, sent, server, faults, history>>

\* A send or a receive fails or times out.  The answer may still come.
GiveUp ==
  /\ phase \in {"negotiating", "setup", "waiting"}
  /\ late' = TRUE
  /\ phase' = IF phase = "waiting" THEN "session" ELSE "dropped"
  /\ Ended("timeout")
  /\ UNCHANGED <<config, setup, handles, call, credit, wire, deferred>>

-----------------------------------------------------------------------------
(* The server and the wire.                                                 *)

clientSide == <<config, phase, setup, handles, call, result, credit, history>>

Reply(q, status, credits) ==
  [cmd |-> q.cmd, mid |-> q.mid, sid |-> server.sid, tree |-> q.tree, file |-> NoFile,
   form |-> "sync", status |-> status, credits |-> credits, dialect |-> "none",
   requires |-> FALSE, flags |-> {}, blob |-> "none", body |-> TRUE, key |-> NoKey,
   changed |-> FALSE, answers |-> q.mid]

Open == phase # "dropped"

Taken(cmds) == Open /\ sent # << >> /\ Head(sent).cmd \in cmds /\ sent' = Tail(sent)

Send(r) == inbox' = Append(inbox, r) /\ UNCHANGED faults

\* The server verifies what is signed, and answers it signed.
Genuine(q) == q.key.set => q.key = server.key /\ ~q.changed

\* The form and signature of the answer to a call.
Answer(q, status, credits) ==
  [Reply(q, status, credits) EXCEPT !.form = IF q.token = "async" THEN "a1" ELSE "sync",
                                    !.key = IF Genuine(q) THEN q.key ELSE NoKey]

\* The server refuses a request.
Refuse ==
  /\ Taken({"negotiate", "setup"} \cup Commands)
  /\ \E credits \in Grants : Send(Answer(Head(sent), "error", credits))
  /\ UNCHANGED <<clientSide, server>>

AnswerNegotiate ==
  \E dialect \in Offered, requires \in BOOLEAN, credits \in InitialCredits :
    LET q == Head(sent)
        r == [Reply(q, "ok", credits) EXCEPT !.dialect = dialect, !.requires = requires]
    IN
    /\ Taken({"negotiate"})
    /\ server' = [server EXCEPT
         !.params = [dialect |-> dialect, requires |-> requires \/ policy.requires],
         !.hash = IF dialect = "smb311" THEN <<q, r>> ELSE << >>]
    /\ Send(r)
    /\ UNCHANGED clientSide

\* Every exact message is hashed.
ServerHash(m) ==
  IF server.params.dialect = "smb311" THEN Append(server.hash, m) ELSE server.hash

AnswerInit ==
  \E credits \in Grants :
    LET q == Head(sent)
        r == [Reply(q, "more", credits) EXCEPT !.sid = 1, !.blob = "challenge"]
    IN
    /\ sent # << >> /\ q.token = "init"
    /\ Taken({"setup"})
    /\ server' = [server EXCEPT !.sid = 1,
         !.hash = IF server.params.dialect = "smb311" THEN ServerHash(q) \o <<r>> ELSE << >>]
    /\ Send(r)
    /\ UNCHANGED clientSide

\* The last response is signed if the session has a key and SMB 3.1.1 or the
\* policy asks for it, and may be if it has a key.
AnswerAuth ==
  \E flags \in {{}, {"guest"}, {"null"}, {"encrypt"}}, signs \in BOOLEAN, credits \in Grants :
    LET q == Head(sent)
        key == IF policy.mechanism = "anonymous" \/ flags \cap {"guest", "null"} # {}
                 THEN NoKey ELSE Key(ServerHash(q))
        must == server.params.dialect = "smb311" \/ server.params.requires
        r == [Reply(q, "ok", credits) EXCEPT !.flags = flags,
                                             !.key = IF must \/ signs THEN key ELSE NoKey]
    IN
    /\ sent # << >> /\ q.token = "auth"
    /\ Taken({"setup"})
    /\ server' = [server EXCEPT !.hash = ServerHash(q), !.key = key]
    /\ Send(r)
    /\ UNCHANGED clientSide

\* A request on the session is carried out.
ServerAfter(q) ==
  CASE q.cmd = "tree" -> [server EXCEPT !.trees = @ \cup {q.mid}]
    [] q.cmd = "create" -> [server EXCEPT !.files = @ \cup {q.mid}]
    [] q.cmd = "close" -> [server EXCEPT !.files = @ \ {q.file}]
    [] OTHER -> server

AnswerCall ==
  \E credits \in Grants, empty \in BOOLEAN :
    LET q == Head(sent)
        status == IF q.cmd = "list" /\ empty THEN "nomore" ELSE "ok"
        r == [Answer(q, status, credits) EXCEPT
               !.tree = IF q.cmd = "tree" THEN q.mid ELSE @,
               !.file = IF q.cmd = "create" THEN q.mid ELSE @]
    IN
    /\ Taken(Commands)
    /\ Genuine(q)
    /\ server' = ServerAfter(q)
    /\ Send(r)
    /\ UNCHANGED clientSide

\* A request goes asynchronous; the interim response need not be signed.
GoAsync ==
  \E credits \in Grants, signs \in BOOLEAN :
    LET q == Head(sent) IN
    /\ Open /\ sent # << >> /\ q.cmd \in Commands /\ q.token = "none" /\ Genuine(q)
    /\ sent' = [sent EXCEPT ![1].token = "async"]
    /\ Send([Reply(q, "pending", credits) EXCEPT !.form = "a1",
                                                 !.key = IF signs THEN q.key ELSE NoKey])
    /\ \/ q.cmd = "set" /\ UNCHANGED deferred
       \/ /\ q.cmd # "set" /\ Cardinality(deferred) < MaxDeferred
          /\ deferred' = deferred \cup {q.mid}
    /\ UNCHANGED <<config, phase, setup, handles, call, result, credit, late, server>>

\* One field of a response, or its signature, is not what the server sent.
Changes(r) ==
  { [c EXCEPT !.changed = TRUE] : c \in
      {[r EXCEPT !.cmd = "other"], [r EXCEPT !.body = FALSE], [r EXCEPT !.key = NoKey],
       [r EXCEPT !.requires = ~@], [r EXCEPT !.form = "a2"], [r EXCEPT !.blob = "other"]}
      \cup {[r EXCEPT !.mid = m] : m \in 0 .. next}
      \cup {[r EXCEPT !.sid = i] : i \in 0 .. 2}
      \cup {[r EXCEPT !.tree = t] : t \in {NoTree, MaxId}}
      \cup {[r EXCEPT !.file = f] : f \in {NoFile, MaxId}}
      \cup {[r EXCEPT !.status = w] : w \in {"ok", "more", "pending", "error"}}
      \cup {[r EXCEPT !.dialect = d] : d \in Dialects}
      \cup {[r EXCEPT !.flags = f] : f \in {{}, {"guest"}, {"encrypt"}}} }

ChangeResponse ==
  /\ Open
  /\ faults < MaxFaults
  /\ faults' = faults + 1
  /\ \E i \in DOMAIN inbox : \E c \in Changes(inbox[i]) : inbox' = [inbox EXCEPT ![i] = c]
  /\ UNCHANGED <<clientSide, sent, server>>

ChangeRequest ==
  /\ Open
  /\ faults < MaxFaults
  /\ faults' = faults + 1
  /\ \E i \in DOMAIN sent : sent' = [sent EXCEPT ![i].changed = TRUE]
  /\ UNCHANGED <<clientSide, inbox, server>>

Next ==
  \/ SendNegotiate
  \/ StartSetup
  \/ TreeConnect
  \/ OpenFile
  \/ QueryInfo
  \/ QueryDirectory
  \/ SetInfo
  \/ CloseFile
  \/ ReceiveNegotiate
  \/ SendSetup
  \/ ReceiveSetup
  \/ ReceiveAnswer
  \/ GiveUp
  \/ Refuse
  \/ AnswerNegotiate
  \/ AnswerInit
  \/ AnswerAuth
  \/ AnswerCall
  \/ GoAsync
  \/ ChangeResponse
  \/ ChangeRequest

Spec == Init /\ [][Next]_vars

-----------------------------------------------------------------------------
(***************************************************************************)
(* A normal SMB 3.1.1 session exists only if both ends saw the same        *)
(* messages: the client's transcript, negotiated parameters, SessionId and *)
(* key are the server's, whatever was changed on the way.                  *)
(***************************************************************************)
SameSession ==
  phase \in {"session", "waiting"} /\ params.dialect = "smb311" /\ session.key.set =>
    /\ hash = server.hash
    /\ params = server.params
    /\ sid = server.sid
    /\ session.key = server.key

(***************************************************************************)
(* What the checks refuse of a server that keeps to the protocol, as long  *)
(* as no message is changed and no answer is late: for every dialect,      *)
(* policy, kind of session and choice to sign, no call ends in a protocol  *)
(* error before the server answers a request other than SET_INFO with      *)
(* STATUS_PENDING.  Such an answer CREATE, CLOSE and the queries do refuse *)
(* ("unexpectedly used async header form"), and what was asked before it   *)
(* is never refused on its account.                                        *)
(***************************************************************************)
HealthyCalls ==
  faults = 0 /\ ~late /\ result.kind = "protocol" =>
    \E mid \in deferred : mid <= result.asked

(***************************************************************************)
(* A call succeeds only with the server's answer to that very request: not *)
(* with a late answer to an earlier one and, where signing is required,    *)
(* not with a changed one.                                                 *)
(***************************************************************************)
AcceptedGenuine ==
  result.kind = "ok" /\ result.call \in Commands /\ (session.required \/ faults = 0) =>
    result.answers = result.asked /\ ~result.changed

(***************************************************************************)
(* A tree or file handle the caller holds is one the server has: no late   *)
(* answer brings back a handle, and none outlives the attempt to close it  *)
(* ("consumes the local FileHandle so it cannot be reused").               *)
(***************************************************************************)
HandlesLive ==
  session.required \/ faults = 0 =>
    /\ tree # NoTree => tree \in server.trees
    /\ file # NoFile => file \in server.files
=============================================================================
