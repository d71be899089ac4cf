---------------------------- MODULE Session_proof ----------------------------
(***************************************************************************)
(* A connection from NEGOTIATE to CLOSE, for every set of dialects, number *)
(* of rounds, grants, requests and changed messages.                       *)
(***************************************************************************)
EXTENDS Session, SequenceTheorems, TLAPS

-----------------------------------------------------------------------------
(* Sequences of messages.  A message may hold any key, so they have no set  *)
(* of their own.                                                            *)

IsSeq(s) == \E S : s \in Seq(S)

\* The length, the domain and the head of a sequence.
LEMMA SeqFacts ==
  ASSUME NEW s, IsSeq(s)
  PROVE  /\ Len(s) \in Nat /\ DOMAIN s = 1 .. Len(s)
         /\ s = << >> <=> Len(s) = 0
         /\ s # << >> => Head(s) = s[1] /\ 1 \in 1 .. Len(s)
<1>1. PICK S : s \in Seq(S)
  BY DEF IsSeq
<1>2. s = << >> <=> Len(s) = 0
  BY <1>1, EmptySeq
<1> QED BY <1>1, <1>2

\* One message more, at the end.
LEMMA SeqAppend ==
  ASSUME NEW s, IsSeq(s), NEW e
  PROVE  /\ IsSeq(Append(s, e)) /\ Len(Append(s, e)) = Len(s) + 1
         /\ Append(s, e)[Len(s) + 1] = e
         /\ \A i \in 1 .. Len(s) : Append(s, e)[i] = s[i]
<1>1. PICK S : s \in Seq(S)
  BY DEF IsSeq
<1> DEFINE T == S \cup {e}
<1>2. s \in Seq(T) /\ e \in T
  BY <1>1
<1> HIDE DEF T
<1>3. Append(s, e) \in Seq(T)
  BY <1>2
<1>4. IsSeq(Append(s, e))
  BY <1>3 DEF IsSeq
<1> QED BY <1>2, <1>4

\* One message less, at the front.
LEMMA SeqTail ==
  ASSUME NEW s, IsSeq(s), s # << >>
  PROVE  /\ IsSeq(Tail(s)) /\ Len(Tail(s)) = Len(s) - 1
         /\ \A i \in 1 .. Len(Tail(s)) : Tail(s)[i] = s[i + 1]
<1>1. PICK S : s \in Seq(S)
  BY DEF IsSeq
<1>2. Tail(s) \in Seq(S) /\ Len(Tail(s)) = Len(s) - 1
      /\ \A i \in 1 .. Len(Tail(s)) : Tail(s)[i] = s[i + 1]
  BY <1>1
<1> QED BY <1>2 DEF IsSeq

\* One message replaced.
LEMMA SeqSet ==
  ASSUME NEW s, IsSeq(s), NEW i \in 1 .. Len(s), NEW e
  PROVE  /\ IsSeq([s EXCEPT ![i] = e]) /\ Len([s EXCEPT ![i] = e]) = Len(s)
         /\ [s EXCEPT ![i] = e][i] = e
         /\ \A j \in 1 .. Len(s) : j # i => [s EXCEPT ![i] = e][j] = s[j]
<1>1. PICK S : s \in Seq(S)
  BY DEF IsSeq
<1> DEFINE T == S \cup {e}
<1>2. s \in Seq(T) /\ e \in T
  BY <1>1
<1> HIDE DEF T
<1>3. [s EXCEPT ![i] = e] \in Seq(T) /\ Len([s EXCEPT ![i] = e]) = Len(s)
  BY <1>2
<1>4. IsSeq([s EXCEPT ![i] = e])
  BY <1>3 DEF IsSeq
<1>5. DOMAIN s = 1 .. Len(s)
  BY <1>1
<1> QED BY <1>3, <1>4, <1>5

\* Both ways to write that a message follows.
LEMMA SeqThen ==
  ASSUME NEW s, IsSeq(s), NEW e
  PROVE  s \o <<e>> = Append(s, e) /\ IsSeq(s \o <<e>>)
<1>1. PICK S : s \in Seq(S)
  BY DEF IsSeq
<1> DEFINE T == S \cup {e}
<1>2. s \in Seq(T) /\ e \in T
  BY <1>1
<1> HIDE DEF T
<1>3. s \o <<e>> = Append(s, e)
  BY <1>2, AppendIsConcat
<1>4. IsSeq(Append(s, e))
  BY SeqAppend
<1> QED BY <1>3, <1>4

\* The empty sequence.
LEMMA NoSeq == IsSeq(<< >>) /\ Len(<< >>) = 0
<1>1. << >> \in Seq({})
  OBVIOUS
<1> QED BY <1>1 DEF IsSeq

\* Keys made from different transcripts differ.
LEMMA Keys ==
  /\ ~NoKey.set
  /\ \A h : Key(h).set /\ Key(h).over = h
BY DEF NoKey, Key

-----------------------------------------------------------------------------
(* What the client's steps do, case by case.                                *)

\* The answer to NEGOTIATE is taken or the connection is dropped.
LEMMA NegotiateCases ==
  ASSUME ReceiveNegotiate
  PROVE  /\ phase = "negotiating" /\ inbox # << >> /\ inbox' = Tail(inbox)
         /\ UNCHANGED <<policy, provider, token, rounds, sid, session, tree, file, request, asyncId,
                        next, sent, server, faults, late>>
         /\ \/ /\ phase' = "dropped" /\ result'.kind # "ok" /\ params' = params /\ hash' = hash
               /\ result'.kind = "protocol" => ~NegotiateAccepted(Head(inbox)) /\
                    ~(Head(inbox).mid = request.mid /\ Head(inbox).status # "ok")
            \/ /\ phase' = "negotiated" /\ NegotiateAccepted(Head(inbox))
               /\ ~(Head(inbox).mid = request.mid /\ Head(inbox).status # "ok")
               /\ params' = [dialect |-> Head(inbox).dialect,
                             requires |-> Head(inbox).requires \/ policy.requires]
               /\ hash' = IF Head(inbox).dialect = "smb311" THEN Append(hash, Head(inbox)) ELSE << >>
               /\ result'.kind = "ok" /\ result'.call = request.cmd
<1>1. /\ phase = "negotiating" /\ inbox # << >> /\ inbox' = Tail(inbox)
      /\ UNCHANGED <<policy, provider, token, rounds, sid, session, tree, file, request, asyncId,
                     next, sent, server, faults, late>>
  BY DEF ReceiveNegotiate, config, handles, call, history
<1>2. CASE Head(inbox).mid = request.mid /\ Head(inbox).status # "ok"
  <2>1. Drop("status") /\ params' = params /\ hash' = hash
    BY <1>2 DEF ReceiveNegotiate
  <2>2. phase' = "dropped" /\ result'.kind = "status"
    BY <2>1 DEF Drop, Ended, EndedAs
  <2> QED BY <1>1, <2>1, <2>2
<1>3. CASE ~(Head(inbox).mid = request.mid /\ Head(inbox).status # "ok") /\ ~NegotiateAccepted(Head(inbox))
  <2>1. Drop("protocol") /\ params' = params /\ hash' = hash
    BY <1>3 DEF ReceiveNegotiate
  <2>2. phase' = "dropped" /\ result'.kind = "protocol"
    BY <2>1 DEF Drop, Ended, EndedAs
  <2> QED BY <1>1, <1>3, <2>1, <2>2
<1>4. CASE ~(Head(inbox).mid = request.mid /\ Head(inbox).status # "ok") /\ NegotiateAccepted(Head(inbox))
  <2>1. /\ phase' = "negotiated" /\ Ended("ok")
        /\ params' = [dialect |-> Head(inbox).dialect,
                      requires |-> Head(inbox).requires \/ policy.requires]
        /\ hash' = IF Head(inbox).dialect = "smb311" THEN Append(hash, Head(inbox)) ELSE << >>
    BY <1>4 DEF ReceiveNegotiate
  <2>2. result'.kind = "ok" /\ result'.call = request.cmd
    BY <2>1 DEF Ended, EndedAs
  <2> QED BY <1>1, <1>4, <2>1, <2>2
<1> QED BY <1>2, <1>3, <1>4

\* A round of SESSION_SETUP begins, or there is none left.
LEMMA SendSetupCases ==
  ASSUME SendSetup
  PROVE  /\ phase = "round"
         /\ UNCHANGED <<policy, params, provider, sid, session, tree, file, asyncId, inbox, server,
                        faults, late>>
         /\ \/ /\ phase' = "dropped" /\ UNCHANGED <<rounds, token, next, request, hash, sent>>
               /\ result'.kind # "ok" /\ (result'.kind = "protocol" => rounds = MaxRounds)
            \/ /\ phase' = "setup" /\ rounds' = rounds + 1 /\ token' = "none" /\ next' = next + 1
               /\ request' = Request("setup", token, NoKey) /\ result' = result
               /\ hash' = Hashed(hash, Request("setup", token, NoKey))
               /\ sent' = Append(sent, Request("setup", token, NoKey))
<1>1. /\ phase = "round"
      /\ UNCHANGED <<policy, params, provider, sid, session, tree, file, asyncId, inbox, server,
                     faults, late>>
  BY DEF SendSetup, config, handles, history
<1>2. CASE rounds = MaxRounds \/ available = 0
  <2>1. /\ Drop(IF rounds = MaxRounds THEN "protocol" ELSE "credits")
        /\ UNCHANGED <<rounds, token, next, request, hash, sent>>
    BY <1>2 DEF SendSetup, credit
  <2>2. phase' = "dropped" /\ result'.kind = IF rounds = MaxRounds THEN "protocol" ELSE "credits"
    BY <2>1 DEF Drop, Ended, EndedAs
  <2> QED BY <1>1, <2>1, <2>2
<1>3. CASE ~(rounds = MaxRounds \/ available = 0)
  BY <1>1, <1>3 DEF SendSetup
<1> QED BY <1>2, <1>3

\* The answer to SESSION_SETUP drops the connection, asks for another round or
\* makes the session.
LEMMA SetupCases ==
  ASSUME ReceiveSetup
  PROVE  /\ phase = "setup" /\ inbox # << >> /\ inbox' = Tail(inbox)
         /\ UNCHANGED <<policy, params, tree, file, request, asyncId, next, sent, server, faults, late>>
         /\ \/ /\ phase' = "dropped" /\ result'.kind # "ok"
               /\ result'.kind = "protocol" =>
                    /\ ~(/\ Head(inbox).cmd = "setup" /\ Head(inbox).mid = request.mid
                         /\ Head(inbox).status \notin {"ok", "more"})
                    /\ \/ ~SetupAccepted(Head(inbox))
                       \/ /\ Head(inbox).status = "more"
                          /\ ~(AssignedId(Head(inbox)) # 0 /\ TokenAccepted(Head(inbox)))
                       \/ /\ Head(inbox).status # "more"
                          /\ ~(/\ provider = "complete" /\ AssignedId(Head(inbox)) # 0
                               /\ FinalSigned(Head(inbox)))
               /\ session' = session
            \/ /\ phase' = "round" /\ SetupAccepted(Head(inbox)) /\ Head(inbox).status = "more"
               /\ hash' = Hashed(hash, Head(inbox)) /\ sid' = AssignedId(Head(inbox)) /\ sid' # 0
               /\ TokenAccepted(Head(inbox))
               /\ provider' = "complete" /\ token' = NextToken
               /\ UNCHANGED <<rounds, session, result>>
            \/ /\ phase' = "session" /\ SetupAccepted(Head(inbox)) /\ Head(inbox).status = "ok"
               /\ sid' = AssignedId(Head(inbox)) /\ sid' # 0 /\ provider = "complete"
               /\ FinalSigned(Head(inbox))
               /\ session' = [key |-> DerivedKey(Head(inbox)), required |-> SigningRequired(Head(inbox)),
                              encrypted |-> "encrypt" \in Head(inbox).flags,
                              null |-> GuestOrNull(Head(inbox))]
               /\ result'.kind = "ok" /\ result'.call = request.cmd
               /\ UNCHANGED <<hash, provider, token, rounds>>
<1> DEFINE r == Head(inbox)
<1>1. /\ phase = "setup" /\ inbox # << >> /\ inbox' = Tail(inbox)
      /\ UNCHANGED <<policy, params, tree, file, request, asyncId, next, sent, server, faults, late>>
  BY DEF ReceiveSetup, config, handles, call, history
<1>2. CASE r.cmd = "setup" /\ r.mid = request.mid /\ r.status \notin {"ok", "more"}
  <2>1. Drop("status") /\ session' = session
    BY <1>2 DEF ReceiveSetup
  <2>2. phase' = "dropped" /\ result'.kind = "status"
    BY <2>1 DEF Drop, Ended, EndedAs
  <2> QED BY <1>1, <2>1, <2>2
<1>3. CASE ~(r.cmd = "setup" /\ r.mid = request.mid /\ r.status \notin {"ok", "more"})
  <2>1. CASE ~SetupAccepted(r)
    <3>1. Drop("protocol") /\ session' = session
      BY <1>3, <2>1 DEF ReceiveSetup
    <3>2. phase' = "dropped" /\ result'.kind = "protocol"
      BY <3>1 DEF Drop, Ended, EndedAs
    <3> QED BY <1>1, <1>3, <2>1, <3>1, <3>2
  <2>2. CASE SetupAccepted(r) /\ r.status = "more"
    <3>1. SetupContinues(r)
      BY <1>3, <2>2 DEF ReceiveSetup
    <3>2. CASE AssignedId(r) # 0 /\ TokenAccepted(r)
      BY <1>1, <2>2, <3>1, <3>2 DEF SetupContinues
    <3>3. CASE ~(AssignedId(r) # 0 /\ TokenAccepted(r))
      <4>1. Drop("protocol") /\ session' = session
        BY <3>1, <3>3 DEF SetupContinues
      <4>2. phase' = "dropped" /\ result'.kind = "protocol"
        BY <4>1 DEF Drop, Ended, EndedAs
      <4> QED BY <1>1, <1>3, <2>2, <3>3, <4>1, <4>2
    <3> QED BY <3>2, <3>3
  <2>3. CASE SetupAccepted(r) /\ r.status # "more"
    <3>1. SetupSucceeds(r) /\ r.status = "ok"
      BY <1>3, <2>3 DEF ReceiveSetup, SetupAccepted
    <3>2. CASE provider = "complete" /\ AssignedId(r) # 0 /\ FinalSigned(r)
      <4>1. /\ phase' = "session" /\ sid' = AssignedId(r)
            /\ session' = [key |-> DerivedKey(r), required |-> SigningRequired(r),
                           encrypted |-> "encrypt" \in r.flags, null |-> GuestOrNull(r)]
            /\ Ended("ok") /\ UNCHANGED <<hash, provider, token, rounds>>
        BY <3>1, <3>2 DEF SetupSucceeds
      <4>2. result'.kind = "ok" /\ result'.call = request.cmd
        BY <4>1 DEF Ended, EndedAs
      <4> QED BY <1>1, <2>3, <3>1, <3>2, <4>1, <4>2
    <3>3. CASE ~(provider = "complete" /\ AssignedId(r) # 0 /\ FinalSigned(r))
      <4>1. Drop("protocol") /\ session' = session
        BY <3>1, <3>3 DEF SetupSucceeds
      <4>2. phase' = "dropped" /\ result'.kind = "protocol"
        BY <4>1 DEF Drop, Ended, EndedAs
      <4> QED BY <1>1, <1>3, <2>3, <3>3, <4>1, <4>2
    <3> QED BY <3>2, <3>3
  <2> QED BY <2>1, <2>2, <2>3
<1> QED BY <1>2, <1>3

\* A call of the session.
Calling(cmd, key) ==
  \/ cmd = "tree" /\ tree = NoTree /\ key = TreeSigningKey
  \/ cmd = "create" /\ tree # NoTree /\ file = NoFile /\ key = SigningKey
  \/ cmd \in {"query", "list", "set", "close"} /\ file # NoFile /\ key = SigningKey

CallStarts == TreeConnect \/ OpenFile \/ QueryInfo \/ QueryDirectory \/ SetInfo \/ CloseFile

\* It ends at once or its request is sent; CLOSE gives up the handle.
LEMMA CallCases ==
  ASSUME CallStarts
  PROVE  \E cmd \in Commands, key \in {TreeSigningKey, SigningKey} :
           /\ Calling(cmd, key)
           /\ phase = "session" /\ file' = IF cmd = "close" THEN NoFile ELSE file
           /\ UNCHANGED <<policy, params, hash, provider, token, rounds, sid, session, tree, inbox,
                          server, faults, late>>
           /\ \/ /\ result'.kind \in {"unsupported", "credits"}
                 /\ UNCHANGED <<phase, request, asyncId, next, sent>>
              \/ /\ phase' = "waiting" /\ next' = next + 1 /\ asyncId' = "none" /\ result' = result
                 /\ request' = Request(cmd, "none", key)
                 /\ sent' = Append(sent, Request(cmd, "none", key))
<1>1. ASSUME NEW cmd \in Commands, NEW key, StartCall(cmd, key)
      PROVE  /\ phase = "session"
             /\ UNCHANGED <<policy, params, hash, provider, token, rounds, sid, session, tree, inbox,
                            server, faults, late>>
             /\ \/ /\ result'.kind \in {"unsupported", "credits"}
                   /\ UNCHANGED <<phase, request, asyncId, next, sent>>
                \/ /\ phase' = "waiting" /\ next' = next + 1 /\ asyncId' = "none" /\ result' = result
                   /\ request' = Request(cmd, "none", key)
                   /\ sent' = Append(sent, Request(cmd, "none", key))
  <2>1. /\ phase = "session"
        /\ UNCHANGED <<policy, params, hash, provider, token, rounds, sid, session, tree, inbox,
                       server, faults, late>>
    BY <1>1 DEF StartCall, config, setup, history
  <2>2. CASE session.encrypted \/ available = 0
    <3>1. /\ EndedAs(cmd, IF session.encrypted THEN "unsupported" ELSE "credits")
          /\ UNCHANGED <<phase, request, asyncId, next, sent>>
      BY <1>1, <2>2 DEF StartCall, call, credit
    <3>2. result'.kind \in {"unsupported", "credits"}
      BY <3>1 DEF EndedAs
    <3> QED BY <2>1, <3>1, <3>2
  <2>3. CASE ~(session.encrypted \/ available = 0)
    BY <1>1, <2>1, <2>3 DEF StartCall
  <2> QED BY <2>2, <2>3
<1>2. CASE TreeConnect
  <2>1. PICK k \in {TreeSigningKey, SigningKey} : k = TreeSigningKey
    OBVIOUS
  <2>2. tree = NoTree /\ file' = file /\ StartCall("tree", k)
    BY <1>2, <2>1 DEF TreeConnect, StartCall, Request
  <2>3. Calling("tree", k) /\ "tree" \in Commands /\ "tree" # "close"
    BY <2>1, <2>2 DEF Calling, Commands
  <2> QED BY <1>1, <2>2, <2>3
<1>3. CASE OpenFile
  <2>1. PICK k \in {TreeSigningKey, SigningKey} : k = SigningKey
    OBVIOUS
  <2>2. tree # NoTree /\ file = NoFile /\ file' = file /\ StartCall("create", k)
    BY <1>3, <2>1 DEF OpenFile, StartCall, Request
  <2>3. Calling("create", k) /\ "create" \in Commands /\ "create" # "close"
    BY <2>1, <2>2 DEF Calling, Commands
  <2> QED BY <1>1, <2>2, <2>3
<1>4. CASE QueryInfo \/ QueryDirectory \/ SetInfo \/ CloseFile
  <2>1. PICK k \in {TreeSigningKey, SigningKey} : k = SigningKey
    OBVIOUS
  <2>2. PICK cmd \in {"query", "list", "set", "close"} :
          /\ file # NoFile /\ StartCall(cmd, k)
          /\ file' = IF cmd = "close" THEN NoFile ELSE file
    <3>1. CASE QueryInfo
      BY <2>1, <3>1 DEF QueryInfo, StartCall, Request
    <3>2. CASE QueryDirectory
      BY <2>1, <3>2 DEF QueryDirectory, StartCall, Request
    <3>3. CASE SetInfo
      BY <2>1, <3>3 DEF SetInfo, StartCall, Request
    <3>4. CASE CloseFile
      BY <2>1, <3>4 DEF CloseFile, StartCall, Request
    <3> QED BY <1>4, <3>1, <3>2, <3>3, <3>4
  <2>3. Calling(cmd, k) /\ cmd \in Commands
    BY <2>1, <2>2 DEF Calling, Commands
  <2> QED BY <1>1, <2>2, <2>3
<1> QED BY <1>2, <1>3, <1>4 DEF CallStarts

\* The answer to a call goes on with it or ends it.
LEMMA AnswerCases ==
  ASSUME ReceiveAnswer
  PROVE  /\ phase = "waiting" /\ inbox # << >> /\ inbox' = Tail(inbox)
         /\ UNCHANGED <<policy, params, hash, provider, token, rounds, sid, session, request, next, sent,
                        server, faults, late>>
         /\ \/ /\ Outcome(Head(inbox)) = "interim" /\ asyncId' = Head(inbox).form
               /\ UNCHANGED <<phase, result, tree, file>>
            \/ /\ Outcome(Head(inbox)) # "interim" /\ phase' = "session" /\ asyncId' = asyncId
               /\ result'.call = request.cmd /\ result'.kind = Outcome(Head(inbox))
               /\ result'.asked = request.mid /\ result'.answers = Head(inbox).answers
               /\ result'.changed = Head(inbox).changed
               /\ tree' = IF Outcome(Head(inbox)) = "ok" /\ request.cmd = "tree"
                            THEN Head(inbox).tree ELSE tree
               /\ file' = IF Outcome(Head(inbox)) = "ok" /\ request.cmd = "create"
                            THEN Head(inbox).file ELSE file
<1>1. /\ phase = "waiting" /\ inbox # << >> /\ inbox' = Tail(inbox)
      /\ UNCHANGED <<policy, params, hash, provider, token, rounds, sid, session, request, next, sent,
                     server, faults, late>>
  BY DEF ReceiveAnswer, config, setup, history
<1>2. CASE Outcome(Head(inbox)) = "interim"
  BY <1>1, <1>2 DEF ReceiveAnswer
<1>3. CASE Outcome(Head(inbox)) # "interim"
  BY <1>1, <1>3 DEF ReceiveAnswer
<1> QED BY <1>2, <1>3

\* The client gives up on an answer.
LEMMA GiveUpCases ==
  ASSUME GiveUp
  PROVE  /\ phase \in {"negotiating", "setup", "waiting"} /\ late' = TRUE
         /\ phase' = IF phase = "waiting" THEN "session" ELSE "dropped"
         /\ result'.kind = "timeout"
         /\ UNCHANGED <<policy, params, hash, provider, token, rounds, sid, session, tree, file, request,
                        asyncId, next, sent, inbox, server, faults>>
BY DEF GiveUp, Ended, EndedAs, config, setup, handles, call, credit, wire

-----------------------------------------------------------------------------
(* What the server and the wire do.                                         *)

ServerShape ==
  server = [params |-> server.params, hash |-> server.hash, sid |-> server.sid, key |-> server.key,
            trees |-> server.trees, files |-> server.files]

ClientStays ==
  UNCHANGED <<policy, phase, params, hash, provider, token, rounds, sid, session, tree, file, request,
              asyncId, result, next, late>>

\* The server and the wire leave the client alone.
LEMMA StaysFacts ==
  ASSUME UNCHANGED clientSide
  PROVE  ClientStays
BY DEF clientSide, config, setup, handles, call, credit, history, ClientStays

\* The first request is answered with r.
Replies(r) ==
  /\ phase # "dropped" /\ sent # << >> /\ sent' = Tail(sent) /\ inbox' = Append(inbox, r)
  /\ "changed" \in DOMAIN r /\ r.changed = FALSE /\ r.body = TRUE
  /\ r.cmd = Head(sent).cmd /\ r.mid = Head(sent).mid /\ r.answers = Head(sent).mid
  /\ ClientStays /\ faults' = faults

\* A refusal.
LEMMA RefuseIs ==
  ASSUME Refuse
  PROVE  \E r, q : /\ Replies(r) /\ q = Head(sent) /\ server' = server
                   /\ r.status = "error" /\ r.sid = server.sid /\ r.tree = q.tree
                   /\ r.form = IF q.token = "async" THEN "a1" ELSE "sync"
                   /\ r.key = IF Genuine(q) THEN q.key ELSE NoKey
<1>1. PICK credits \in Grants : Send(Answer(Head(sent), "error", credits))
  BY DEF Refuse
<1>0. PICK q, r : q = Head(sent) /\ r = Answer(q, "error", credits)
  OBVIOUS
<1>2. /\ phase # "dropped" /\ sent # << >> /\ sent' = Tail(sent) /\ ClientStays /\ server' = server
  BY StaysFacts DEF Refuse, Taken, Open
<1>3. inbox' = Append(inbox, r) /\ faults' = faults
  BY <1>0, <1>1 DEF Send
<1>4. /\ r.cmd = q.cmd /\ r.mid = q.mid /\ r.answers = q.mid
      /\ r.sid = server.sid /\ r.tree = q.tree /\ r.status = "error" /\ r.body = TRUE
      /\ r.changed = FALSE /\ "changed" \in DOMAIN r
      /\ r.form = IF q.token = "async" THEN "a1" ELSE "sync"
      /\ r.key = IF Genuine(q) THEN q.key ELSE NoKey
  BY <1>0 DEF Answer, Reply
<1> QED BY <1>0, <1>2, <1>3, <1>4 DEF Replies

\* The answer to NEGOTIATE.
LEMMA NegotiateIs ==
  ASSUME AnswerNegotiate, ServerShape
  PROVE  \E r, q : /\ Replies(r) /\ q = Head(sent) /\ q.cmd = "negotiate" /\ r.status = "ok"
                   /\ r.dialect \in Offered /\ r.credits \in InitialCredits /\ r.key = NoKey
                   /\ server'.params = [dialect |-> r.dialect,
                                        requires |-> r.requires \/ policy.requires]
                   /\ server'.hash = IF r.dialect = "smb311" THEN <<q, r>> ELSE << >>
                   /\ server'.sid = server.sid /\ server'.key = server.key
                   /\ server'.trees = server.trees /\ server'.files = server.files /\ ServerShape'
<1> DEFINE q == Head(sent)
<1>1. PICK dialect \in Offered, requires \in BOOLEAN, credits \in InitialCredits :
        LET r == [Reply(q, "ok", credits) EXCEPT !.dialect = dialect, !.requires = requires] IN
        /\ Taken({"negotiate"})
        /\ server' = [server EXCEPT
             !.params = [dialect |-> dialect, requires |-> requires \/ policy.requires],
             !.hash = IF dialect = "smb311" THEN <<q, r>> ELSE << >>]
        /\ Send(r)
        /\ UNCHANGED clientSide
  BY DEF AnswerNegotiate
<1> DEFINE s == Reply(q, "ok", credits)
           r == [s EXCEPT !.dialect = dialect, !.requires = requires]
<1>2. /\ phase # "dropped" /\ sent # << >> /\ sent' = Tail(sent) /\ ClientStays /\ q.cmd = "negotiate"
  BY <1>1, StaysFacts DEF Taken, Open
<1>3. inbox' = Append(inbox, r) /\ faults' = faults
  BY <1>1 DEF Send
<1>4. server' = [server EXCEPT
             !.params = [dialect |-> dialect, requires |-> requires \/ policy.requires],
             !.hash = IF dialect = "smb311" THEN <<q, r>> ELSE << >>]
  BY <1>1
<1>5. /\ s.cmd = q.cmd /\ s.mid = q.mid /\ s.answers = q.mid /\ s.status = "ok" /\ s.body = TRUE
      /\ s.changed = FALSE /\ s.key = NoKey /\ s.credits = credits
      /\ DOMAIN s = {"cmd", "mid", "sid", "tree", "file", "form", "status", "credits", "dialect",
                     "requires", "flags", "blob", "body", "key", "changed", "answers"}
  BY DEF Reply
<1> HIDE DEF s
<1>6. /\ r.cmd = q.cmd /\ r.mid = q.mid /\ r.answers = q.mid /\ r.status = "ok" /\ r.body = TRUE
      /\ r.changed = FALSE /\ "changed" \in DOMAIN r /\ r.key = NoKey /\ r.credits = credits
      /\ r.dialect = dialect /\ r.requires = requires
  BY <1>5
<1> HIDE DEF r
<1>7. /\ server'.params = [dialect |-> r.dialect, requires |-> r.requires \/ policy.requires]
      /\ server'.hash = IF r.dialect = "smb311" THEN <<q, r>> ELSE << >>
      /\ server'.sid = server.sid /\ server'.key = server.key
      /\ server'.trees = server.trees /\ server'.files = server.files /\ ServerShape'
  <2> DEFINE p == [dialect |-> dialect, requires |-> requires \/ policy.requires]
             h == IF dialect = "smb311" THEN <<q, r>> ELSE << >>
  <2>1. server' = [server EXCEPT !.params = p, !.hash = h]
    BY <1>4
  <2> HIDE DEF p, h
  <2>2. /\ server'.params = p /\ server'.hash = h
        /\ server'.sid = server.sid /\ server'.key = server.key
        /\ server'.trees = server.trees /\ server'.files = server.files /\ ServerShape'
    BY <2>1 DEF ServerShape
  <2> QED BY <1>6, <2>2 DEF p, h
<1> QED BY <1>2, <1>3, <1>6, <1>7 DEF Replies

\* The answer to the first token.
LEMMA InitIs ==
  ASSUME AnswerInit, ServerShape
  PROVE  \E r, q : /\ Replies(r) /\ q = Head(sent) /\ q.cmd = "setup" /\ q.token = "init"
                   /\ r.status = "more" /\ r.sid = 1 /\ r.blob = "challenge" /\ r.key = NoKey
                   /\ server'.hash = IF server.params.dialect = "smb311"
                                       THEN Append(server.hash, q) \o <<r>> ELSE << >>
                   /\ server'.sid = 1 /\ server'.key = server.key /\ server'.params = server.params
                   /\ server'.trees = server.trees /\ server'.files = server.files /\ ServerShape'
<1>0. PICK q : q = Head(sent)
  OBVIOUS
<1>1. PICK credits \in Grants :
        LET r == [Reply(q, "more", credits) EXCEPT !.sid = 1, !.blob = "challenge"] IN
        /\ sent # << >> /\ q.token = "init" /\ Taken({"setup"})
        /\ server' = [server EXCEPT !.sid = 1,
             !.hash = IF server.params.dialect = "smb311" THEN ServerHash(q) \o <<r>> ELSE << >>]
        /\ Send(r)
        /\ UNCHANGED clientSide
  BY <1>0 DEF AnswerInit, Reply, ServerHash
<1>2. PICK r : r = [Reply(q, "more", credits) EXCEPT !.sid = 1, !.blob = "challenge"]
  OBVIOUS
<1>3. /\ phase # "dropped" /\ sent # << >> /\ sent' = Tail(sent) /\ ClientStays /\ q.cmd = "setup"
      /\ q.token = "init"
  BY <1>0, <1>1, StaysFacts DEF Taken, Open
<1>4. inbox' = Append(inbox, r) /\ faults' = faults
  BY <1>1, <1>2 DEF Send
<1>5. /\ r.cmd = q.cmd /\ r.mid = q.mid /\ r.answers = q.mid /\ r.status = "more" /\ r.body = TRUE
      /\ r.changed = FALSE /\ "changed" \in DOMAIN r /\ r.key = NoKey /\ r.sid = 1
      /\ r.blob = "challenge"
  BY <1>2 DEF Reply
<1> DEFINE h == IF server.params.dialect = "smb311" THEN Append(server.hash, q) \o <<r>> ELSE << >>
<1>6. server' = [server EXCEPT !.sid = 1, !.hash = h]
  BY <1>1, <1>2 DEF ServerHash
<1> HIDE DEF h
<1>7. /\ server'.hash = h /\ server'.sid = 1 /\ server'.key = server.key
      /\ server'.params = server.params
      /\ server'.trees = server.trees /\ server'.files = server.files /\ ServerShape'
  BY <1>6 DEF ServerShape
<1> QED BY <1>0, <1>3, <1>4, <1>5, <1>7 DEF Replies, h

\* The last answer of a set-up.
LEMMA AuthIs ==
  ASSUME AnswerAuth, ServerShape
  PROVE  \E r, q : /\ Replies(r) /\ q = Head(sent) /\ q.cmd = "setup" /\ q.token = "auth"
                   /\ r.status = "ok" /\ r.sid = server.sid
                   /\ server'.hash = IF server.params.dialect = "smb311"
                                       THEN Append(server.hash, q) ELSE server.hash
                   /\ server'.key = IF policy.mechanism = "anonymous" \/ r.flags \cap {"guest", "null"} # {}
                                      THEN NoKey ELSE Key(server'.hash)
                   /\ r.key = NoKey \/ r.key = server'.key
                   /\ server.params.dialect = "smb311" \/ server.params.requires => r.key = server'.key
                   /\ server'.sid = server.sid /\ server'.params = server.params
                   /\ server'.trees = server.trees /\ server'.files = server.files /\ ServerShape'
<1> DEFINE q == Head(sent)
           h == ServerHash(q)
<1>1. PICK flags \in {{}, {"guest"}, {"null"}, {"encrypt"}}, signs \in BOOLEAN, credits \in Grants :
        LET key == IF policy.mechanism = "anonymous" \/ flags \cap {"guest", "null"} # {}
                     THEN NoKey ELSE Key(h)
            must == server.params.dialect = "smb311" \/ server.params.requires
            r == [Reply(q, "ok", credits) EXCEPT !.flags = flags,
                                                 !.key = IF must \/ signs THEN key ELSE NoKey]
        IN
        /\ sent # << >> /\ q.token = "auth"
        /\ Taken({"setup"})
        /\ server' = [server EXCEPT !.hash = h, !.key = key]
        /\ Send(r)
        /\ UNCHANGED clientSide
  BY Zenon DEF AnswerAuth
<1> DEFINE key == IF policy.mechanism = "anonymous" \/ flags \cap {"guest", "null"} # {}
                    THEN NoKey ELSE Key(h)
           must == server.params.dialect = "smb311" \/ server.params.requires
           sig == IF must \/ signs THEN key ELSE NoKey
<1> DEFINE s == Reply(q, "ok", credits)
           r == [s EXCEPT !.flags = flags, !.key = sig]
<1>3. /\ phase # "dropped" /\ sent # << >> /\ sent' = Tail(sent) /\ ClientStays /\ q.cmd = "setup"
      /\ q.token = "auth"
  BY <1>1, StaysFacts DEF Taken, Open
<1>4. inbox' = Append(inbox, r) /\ faults' = faults
  BY <1>1 DEF Send
<1>5. server' = [server EXCEPT !.hash = h, !.key = key]
  BY <1>1
<1>6. (sig = NoKey \/ sig = key) /\ (must => sig = key)
  OBVIOUS
<1> HIDE DEF sig
<1>2. /\ s.cmd = q.cmd /\ s.mid = q.mid /\ s.answers = q.mid /\ s.status = "ok" /\ s.body = TRUE
      /\ s.changed = FALSE /\ s.sid = server.sid
      /\ DOMAIN s = {"cmd", "mid", "sid", "tree", "file", "form", "status", "credits", "dialect",
                     "requires", "flags", "blob", "body", "key", "changed", "answers"}
  BY DEF Reply
<1> HIDE DEF s
<1>7. /\ r.cmd = q.cmd /\ r.mid = q.mid /\ r.answers = q.mid /\ r.status = "ok" /\ r.body = TRUE
      /\ r.changed = FALSE /\ "changed" \in DOMAIN r /\ r.key = sig /\ r.sid = server.sid
      /\ r.flags = flags
  BY <1>2
<1> HIDE DEF r
<1>8. key = IF policy.mechanism = "anonymous" \/ r.flags \cap {"guest", "null"} # {}
              THEN NoKey ELSE Key(h)
  BY <1>7
<1> HIDE DEF h, key, must
<1>9. /\ server'.hash = h /\ server'.sid = server.sid /\ server'.key = key
      /\ server'.params = server.params
      /\ server'.trees = server.trees /\ server'.files = server.files /\ ServerShape'
  BY <1>5 DEF ServerShape
<1>10. server'.key = IF policy.mechanism = "anonymous" \/ r.flags \cap {"guest", "null"} # {}
                       THEN NoKey ELSE Key(server'.hash)
  BY <1>8, <1>9 DEF Key
<1>11. /\ r.key = NoKey \/ r.key = server'.key
       /\ server.params.dialect = "smb311" \/ server.params.requires => r.key = server'.key
  BY <1>6, <1>7, <1>9 DEF must
<1>12. server'.hash = IF server.params.dialect = "smb311" THEN Append(server.hash, q) ELSE server.hash
  BY <1>9 DEF h, ServerHash
<1> QED BY <1>3, <1>4, <1>7, <1>9, <1>10, <1>11, <1>12 DEF Replies

\* A request on the session is carried out.
LEMMA CallIs ==
  ASSUME AnswerCall, ServerShape
  PROVE  \E r, q : /\ Replies(r) /\ q = Head(sent) /\ q.cmd \in Commands /\ Genuine(q)
                   /\ r.status = "ok" \/ (r.status = "nomore" /\ q.cmd = "list")
                   /\ r.sid = server.sid /\ r.key = q.key
                   /\ r.form = IF q.token = "async" THEN "a1" ELSE "sync"
                   /\ r.tree = IF q.cmd = "tree" THEN q.mid ELSE q.tree
                   /\ r.file = IF q.cmd = "create" THEN q.mid ELSE NoFile
                   /\ server'.params = server.params /\ server'.hash = server.hash
                   /\ server'.sid = server.sid /\ server'.key = server.key
                   /\ server'.trees = IF q.cmd = "tree" THEN server.trees \cup {q.mid} ELSE server.trees
                   /\ server'.files = CASE q.cmd = "create" -> server.files \cup {q.mid}
                                        [] q.cmd = "close" -> server.files \ {q.file}
                                        [] OTHER -> server.files
                   /\ ServerShape'
<1> DEFINE q == Head(sent)
<1>1. PICK credits \in Grants, empty \in BOOLEAN :
        LET status == IF q.cmd = "list" /\ empty THEN "nomore" ELSE "ok"
            r == [Answer(q, status, credits) EXCEPT
                   !.tree = IF q.cmd = "tree" THEN q.mid ELSE @,
                   !.file = IF q.cmd = "create" THEN q.mid ELSE @]
        IN
        /\ Taken(Commands) /\ Genuine(q) /\ server' = ServerAfter(q)
        /\ Send(r)
        /\ UNCHANGED clientSide
  BY DEF AnswerCall
<1> DEFINE status == IF q.cmd = "list" /\ empty THEN "nomore" ELSE "ok"
<1> DEFINE s == Answer(q, status, credits)
           r == [s EXCEPT !.tree = IF q.cmd = "tree" THEN q.mid ELSE @,
                          !.file = IF q.cmd = "create" THEN q.mid ELSE @]
<1>4. /\ phase # "dropped" /\ sent' = Tail(sent) /\ ClientStays /\ q.cmd \in Commands
      /\ Genuine(q) /\ sent # << >> /\ server' = ServerAfter(q)
  BY <1>1, StaysFacts DEF Taken, Open
<1>5. inbox' = Append(inbox, r) /\ faults' = faults
  BY <1>1 DEF Send
<1>6. /\ s.cmd = q.cmd /\ s.mid = q.mid /\ s.answers = q.mid /\ s.status = status /\ s.body = TRUE
      /\ s.changed = FALSE /\ s.sid = server.sid /\ s.tree = q.tree /\ s.file = NoFile
      /\ s.form = IF q.token = "async" THEN "a1" ELSE "sync"
      /\ s.key = q.key
      /\ DOMAIN s = {"cmd", "mid", "sid", "tree", "file", "form", "status", "credits", "dialect",
                     "requires", "flags", "blob", "body", "key", "changed", "answers"}
  BY <1>4 DEF Answer, Reply
<1> HIDE DEF s
<1>7. /\ r.cmd = q.cmd /\ r.mid = q.mid /\ r.answers = q.mid /\ r.status = status /\ r.body = TRUE
      /\ r.changed = FALSE /\ r.sid = server.sid /\ "changed" \in DOMAIN r
      /\ r.tree = IF q.cmd = "tree" THEN q.mid ELSE q.tree
      /\ r.file = IF q.cmd = "create" THEN q.mid ELSE NoFile
      /\ r.form = s.form /\ r.key = q.key
  <2> HIDE DEF status
  <2> QED BY <1>6
<1> HIDE DEF r
<1>8. /\ server'.params = server.params /\ server'.hash = server.hash
      /\ server'.sid = server.sid /\ server'.key = server.key
      /\ server'.trees = IF q.cmd = "tree" THEN server.trees \cup {q.mid} ELSE server.trees
      /\ server'.files = CASE q.cmd = "create" -> server.files \cup {q.mid}
                           [] q.cmd = "close" -> server.files \ {q.file}
                           [] OTHER -> server.files
      /\ ServerShape'
  <2>1. CASE q.cmd = "tree"
    BY <1>4, <2>1 DEF ServerAfter, ServerShape
  <2>2. CASE q.cmd = "create"
    BY <1>4, <2>2 DEF ServerAfter, ServerShape
  <2>3. CASE q.cmd = "close"
    BY <1>4, <2>3 DEF ServerAfter, ServerShape
  <2>4. CASE q.cmd \notin {"tree", "create", "close"}
    BY <1>4, <2>4 DEF ServerAfter, ServerShape
  <2> QED BY <2>1, <2>2, <2>3, <2>4
<1>9. r.status = "ok" \/ (r.status = "nomore" /\ q.cmd = "list")
  BY <1>7
<1>10. Replies(r)
  BY <1>4, <1>5, <1>7 DEF Replies
<1>11. r.form = IF q.token = "async" THEN "a1" ELSE "sync"
  BY <1>6, <1>7
<1> HIDE DEF status
<1> QED BY <1>4, <1>7, <1>8, <1>9, <1>10, <1>11

\* A request goes asynchronous.
LEMMA AsyncIs ==
  ASSUME GoAsync
  PROVE  \E r, q : /\ q = Head(sent) /\ q.cmd \in Commands /\ q.token = "none" /\ Genuine(q)
                   /\ phase # "dropped" /\ sent # << >>
                   /\ sent' = [sent EXCEPT ![1] = [sent[1] EXCEPT !.token = "async"]]
                   /\ inbox' = Append(inbox, r) /\ ClientStays /\ UNCHANGED <<server, faults>>
                   /\ "changed" \in DOMAIN r /\ r.changed = FALSE /\ r.body = TRUE
                   /\ r.cmd = q.cmd /\ r.mid = q.mid /\ r.answers = q.mid
                   /\ r.status = "pending" /\ r.sid = server.sid /\ r.form = "a1" /\ r.tree = q.tree
                   /\ r.key = q.key \/ r.key = NoKey
                   /\ (deferred' = deferred /\ q.cmd = "set") \/ deferred' = deferred \cup {q.mid}
<1>0. PICK q : q = Head(sent)
  OBVIOUS
<1>1. PICK credits \in Grants, signs \in BOOLEAN :
        /\ Open /\ sent # << >> /\ q.cmd \in Commands /\ q.token = "none" /\ Genuine(q)
        /\ sent' = [sent EXCEPT ![1].token = "async"]
        /\ Send([Reply(q, "pending", credits) EXCEPT !.form = "a1",
                                                     !.key = IF signs THEN q.key ELSE NoKey])
        /\ (deferred' = deferred /\ q.cmd = "set") \/ deferred' = deferred \cup {q.mid}
        /\ UNCHANGED <<config, phase, setup, handles, call, result, credit, late, server>>
  BY <1>0 DEF GoAsync, Reply, Genuine, Send
<1>2. PICK r : r = [Reply(q, "pending", credits) EXCEPT !.form = "a1",
                                                        !.key = IF signs THEN q.key ELSE NoKey]
  OBVIOUS
<1>3. phase # "dropped" /\ ClientStays /\ server' = server
  BY <1>1 DEF Open, ClientStays, config, setup, handles, call, credit
<1>4. inbox' = Append(inbox, r) /\ faults' = faults
  BY <1>1, <1>2 DEF Send
<1>5. /\ r.cmd = q.cmd /\ r.mid = q.mid /\ r.answers = q.mid /\ r.status = "pending" /\ r.body = TRUE
      /\ r.changed = FALSE /\ r.sid = server.sid /\ "changed" \in DOMAIN r /\ r.form = "a1"
      /\ r.tree = q.tree /\ (r.key = q.key \/ r.key = NoKey)
  BY <1>2 DEF Reply
<1>6. sent' = [sent EXCEPT ![1] = [sent[1] EXCEPT !.token = "async"]]
  BY <1>1
<1> QED BY <1>0, <1>1, <1>3, <1>4, <1>5, <1>6

\* A changed response says so to nobody but us.
LEMMA ChangedIs ==
  ASSUME ChangeResponse, \A i \in DOMAIN inbox : "changed" \in DOMAIN inbox[i]
  PROVE  \E i, c :
           /\ i \in DOMAIN inbox
           /\ phase # "dropped" /\ inbox' = [inbox EXCEPT ![i] = c]
           /\ "changed" \in DOMAIN c /\ c.changed = TRUE
           /\ ClientStays /\ UNCHANGED <<sent, server>> /\ faults' = faults + 1
<1>1. PICK i \in DOMAIN inbox : \E c \in Changes(inbox[i]) : inbox' = [inbox EXCEPT ![i] = c]
  BY DEF ChangeResponse
<1> DEFINE m == inbox[i]
<1>2. "changed" \in DOMAIN m
  OBVIOUS
<1>3. PICK c \in Changes(m) : inbox' = [inbox EXCEPT ![i] = c]
  BY <1>1
<1>4. PICK d : c = [d EXCEPT !.changed = TRUE] /\ DOMAIN d = DOMAIN m
  <2>1. PICK d \in {[m EXCEPT !.cmd = "other"], [m EXCEPT !.body = FALSE], [m EXCEPT !.key = NoKey],
                    [m EXCEPT !.requires = ~@], [m EXCEPT !.form = "a2"], [m EXCEPT !.blob = "other"]}
                   \cup {[m EXCEPT !.mid = v] : v \in 0 .. next}
                   \cup {[m EXCEPT !.sid = v] : v \in 0 .. 2}
                   \cup {[m EXCEPT !.tree = v] : v \in {NoTree, MaxId}}
                   \cup {[m EXCEPT !.file = v] : v \in {NoFile, MaxId}}
                   \cup {[m EXCEPT !.status = v] : v \in {"ok", "more", "pending", "error"}}
                   \cup {[m EXCEPT !.dialect = v] : v \in Dialects}
                   \cup {[m EXCEPT !.flags = v] : v \in {{}, {"guest"}, {"encrypt"}}} :
          c = [d EXCEPT !.changed = TRUE]
    BY <1>3, Zenon DEF Changes
  <2> HIDE DEF m
  <2>2. DOMAIN d = DOMAIN m
    BY <2>1
  <2> QED BY <2>1, <2>2
<1>5. "changed" \in DOMAIN c /\ c.changed = TRUE
  BY <1>2, <1>4
<1>6. phase # "dropped" /\ ClientStays /\ UNCHANGED <<sent, server>> /\ faults' = faults + 1
  BY StaysFacts DEF ChangeResponse, Open
<1> QED BY <1>3, <1>5, <1>6

\* So is a changed request.
LEMMA ChangedRequestIs ==
  ASSUME ChangeRequest
  PROVE  \E i \in DOMAIN sent :
           /\ phase # "dropped" /\ sent' = [sent EXCEPT ![i] = [sent[i] EXCEPT !.changed = TRUE]]
           /\ ClientStays /\ UNCHANGED <<inbox, server>> /\ faults' = faults + 1
<1>1. PICK i \in DOMAIN sent : sent' = [sent EXCEPT ![i].changed = TRUE]
  BY DEF ChangeRequest
<1>2. phase # "dropped" /\ ClientStays /\ UNCHANGED <<inbox, server>> /\ faults' = faults + 1
  BY StaysFacts DEF ChangeRequest, Open
<1> QED BY <1>1, <1>2

-----------------------------------------------------------------------------
(* The inductive invariant, in named parts.                                 *)

\* The messages of a sequence.
Msgs(s) == {s[i] : i \in DOMAIN s}

ReqShape(q) ==
  q = [cmd |-> q.cmd, mid |-> q.mid, token |-> q.token, tree |-> q.tree, file |-> q.file,
       key |-> q.key, changed |-> q.changed]

Shape ==
  /\ next \in Nat /\ faults \in Nat
  /\ IsSeq(sent) /\ IsSeq(inbox) /\ IsSeq(hash) /\ IsSeq(server.hash) /\ ServerShape
  /\ \A m \in Msgs(inbox) : "changed" \in DOMAIN m
  /\ \A q \in Msgs(sent) : ReqShape(q)

\* Before the session there is one message at a time, to or from the server.
OneMessage(cmd) ==
  /\ request.cmd = cmd
  /\ \/ sent = << >> /\ Len(inbox) = 1
     \/ /\ Len(sent) = 1 /\ inbox = << >>
        /\ \A q \in Msgs(sent) : q.cmd = cmd /\ q.key = NoKey

Traffic ==
  /\ phase \in {"new", "negotiated", "round"} => sent = << >> /\ inbox = << >>
  /\ phase = "negotiating" => OneMessage("negotiate")
  /\ phase = "setup" => OneMessage("setup")
  /\ phase = "waiting" => request.cmd \in Commands
  /\ phase \in {"session", "waiting"} => \A q \in Msgs(sent) : q.cmd \in Commands

ParamsOf(r) == [dialect |-> r.dialect, requires |-> r.requires \/ policy.requires]

(***************************************************************************)
(* The second message of a transcript is the answer to NEGOTIATE, and says *)
(* what was negotiated, on either side.                                    *)
(***************************************************************************)
Transcripts ==
  /\ phase = "new" => params.dialect # "smb311"
  /\ phase = "negotiating" =>
       params.dialect # "smb311" /\ ("smb311" \in Offered => Len(hash) = 1)
  /\ params.dialect = "smb311" => Len(hash) >= 2 /\ params = ParamsOf(hash[2])
  /\ IF server.params.dialect = "smb311"
       THEN Len(server.hash) >= 2 /\ server.params = ParamsOf(server.hash[2])
       ELSE server.hash = << >>

\* A signature on the last answer is the server's, over all it has seen.
FinalAnswer ==
  phase = "setup" =>
    \A r \in Msgs(inbox) : r.key.set /\ ~r.changed =>
      r.key = server.key /\ server.key = Key(server.hash) /\ r.sid = server.sid

\* An answer that was not changed is to the request it names.
Answers ==
  \A r \in Msgs(inbox) :
    /\ ~r.changed => r.answers = r.mid /\ r.mid \in Nat /\ r.mid < next
    /\ faults = 0 => ~r.changed

\* The server has the tree it says it has connected.
Trees ==
  \A r \in Msgs(inbox) : ~r.changed /\ r.cmd = "tree" /\ r.status = "ok" => r.tree \in server.trees

\* What a caller may count on: nothing was changed, or changes are noticed.
Guarded == session.required \/ faults = 0

(***************************************************************************)
(* A CLOSE on its way names a file older than itself, and never the one    *)
(* the caller holds; the answer to the CREATE that is awaited brings one   *)
(* the server has.                                                         *)
(***************************************************************************)
Files ==
  /\ phase = "waiting" => request.mid \in Nat /\ request.mid < next
  /\ \A q \in Msgs(sent) : q.mid \in Nat /\ q.mid < next
                           /\ (phase = "waiting" => q.mid <= request.mid)
  /\ phase \notin {"session", "waiting", "dropped"} => tree = NoTree /\ file = NoFile
  /\ Guarded =>
       /\ file \in Nat /\ (file # NoFile => file < next)
       /\ \A q \in Msgs(sent) : q.cmd = "close" =>
            q.file \in Nat /\ q.file # NoFile /\ q.file < q.mid /\ q.file # file
       /\ \A r \in Msgs(inbox) : ~r.changed /\ r.cmd = "create" /\ r.status = "ok" =>
            /\ r.file = r.mid
            /\ phase = "waiting" /\ r.mid = request.mid => r.file \in server.files

(***************************************************************************)
(* Nothing was changed, no answer is late, and only SET_INFO has been      *)
(* answered STATUS_PENDING.                                                *)
(***************************************************************************)
Healthy == faults = 0 /\ ~late /\ deferred = {}

\* An answer to the request, with the signature s.
To(r, s) ==
  /\ r.cmd = request.cmd /\ r.mid = request.mid /\ r.body = TRUE /\ r.changed = FALSE /\ r.key = s

Agreed == params = server.params /\ sid = server.sid

HealthyNegotiation ==
  /\ phase = "new" => provider = "new" /\ rounds = 0 /\ sid = 0 /\ server.sid = 0
  /\ phase = "negotiating" =>
       /\ provider = "new" /\ rounds = 0 /\ sid = 0 /\ server.sid = 0 /\ next > 0
       /\ hash = IF "smb311" \in Offered THEN <<request>> ELSE << >>
       /\ \A q \in Msgs(sent) : q = request
       /\ \A r \in Msgs(inbox) :
            /\ To(r, NoKey)
            /\ r.status = "ok" =>
                 /\ r.dialect \in Offered /\ r.credits > 0
                 /\ server.params = ParamsOf(r)
                 /\ server.hash = IF r.dialect = "smb311" THEN <<request, r>> ELSE << >>
  /\ phase = "negotiated" =>
       provider = "new" /\ rounds = 0 /\ sid = 0 /\ Agreed /\ hash = server.hash /\ next > 0

\* The first round asks for a challenge, the second answers it.
Round(word, n) ==
  \/ word = "init" /\ n = 0 /\ provider = "sent" /\ sid = 0
  \/ word = "auth" /\ n = 1 /\ provider = "complete" /\ sid = 1

LastKey(r) == IF GuestOrNull(r) THEN NoKey ELSE Key(server.hash)

HealthySetup ==
  /\ phase = "round" => Round(token, rounds) /\ Agreed /\ hash = server.hash /\ next > 0
  /\ phase = "setup" =>
       /\ Round(request.token, rounds - 1) /\ rounds \in {1, 2} /\ params = server.params /\ next > 0
       /\ \A q \in Msgs(sent) : q = request /\ sid = server.sid /\ hash = Hashed(server.hash, request)
       /\ \A r \in Msgs(inbox) :
            \/ To(r, NoKey) /\ r.status = "error"
            \/ /\ To(r, NoKey) /\ r.status = "more" /\ request.token = "init" /\ r.blob = "challenge"
               /\ r.sid = 1 /\ server.sid = 1 /\ server.hash = Hashed(hash, r)
            \/ /\ To(r, r.key) /\ r.status = "ok" /\ request.token = "auth"
               /\ r.sid = 1 /\ server.sid = 1 /\ server.hash = hash
               /\ server.key = LastKey(r) /\ r.key \in {NoKey, server.key}
               /\ params.dialect = "smb311" \/ params.requires => r.key = server.key

\* A good answer to the call that waits.
Good(r) ==
  /\ To(r, r.key) /\ r.sid = sid
  /\ r.form \in {"sync", "a1"} /\ (r.form = "a1" => request.cmd = "set")
  /\ r.status \in {"ok", "nomore", "pending", "error"}
  /\ r.status = "nomore" => request.cmd = "list"
  /\ r.status = "pending" => r.form = "a1" /\ r.key \in {NoKey, request.key}
  /\ r.status # "pending" => r.key = request.key /\ sent = << >>
  /\ r.tree = IF request.cmd = "tree" /\ r.status = "ok" THEN request.mid ELSE request.tree
  /\ request.cmd = "create" /\ r.status = "ok" => r.file = request.mid
  /\ r.form = "sync" => asyncId = "none" /\ Len(inbox) = 1

HealthySession ==
  phase \in {"session", "waiting"} =>
    /\ Agreed /\ sid # 0 /\ session.key = server.key /\ (session.required => session.key.set)
    /\ next > 0
    /\ phase = "session" => sent = << >> /\ inbox = << >>
    /\ phase = "waiting" =>
         /\ request.mid > 0 /\ request.token = "none" /\ request.changed = FALSE
         /\ request.key \in {NoKey, session.key}
         /\ session.required => request.key = session.key
         /\ asyncId \in {"none", "a1"}
         /\ \/ sent = << >>
            \/ /\ Len(sent) = 1
               /\ \/ sent[1] = request /\ inbox = << >> /\ asyncId = "none"
                  \/ sent[1] = [request EXCEPT !.token = "async"] /\ request.cmd = "set"
         /\ \A i \in DOMAIN inbox : Good(inbox[i]) /\ (inbox[i].status # "pending" => i = Len(inbox))

HealthyState ==
  result.kind # "protocol" /\ HealthyNegotiation /\ HealthySetup /\ HealthySession

HealthyInv == Healthy => HealthyState

IInv ==
  /\ Shape /\ Traffic /\ Transcripts /\ FinalAnswer /\ SameSession
  /\ Answers /\ AcceptedGenuine /\ Trees /\ Files /\ HandlesLive

-----------------------------------------------------------------------------
(* The messages on the wire.                                                *)

\* The first message is one of them, and the others are what follows it.
LEMMA MsgsFacts ==
  ASSUME NEW s, IsSeq(s)
  PROVE  /\ s = << >> => Msgs(s) = {}
         /\ s # << >> => Head(s) \in Msgs(s) /\ Msgs(Tail(s)) \subseteq Msgs(s)
         /\ \A i \in DOMAIN s : s[i] \in Msgs(s)
         /\ Len(s) = 1 => Tail(s) = << >> /\ Head(s) = s[1] /\ Msgs(s) = {s[1]} /\ s # << >>
<1>1. \A i \in DOMAIN s : s[i] \in Msgs(s)
  BY DEF Msgs
<1>2. s = << >> => Msgs(s) = {}
  BY DEF Msgs
<1>3. ASSUME s # << >>
      PROVE  Head(s) \in Msgs(s) /\ Msgs(Tail(s)) \subseteq Msgs(s)
  <2>1. Head(s) = s[1] /\ 1 \in DOMAIN s /\ DOMAIN s = 1 .. Len(s) /\ Len(s) \in Nat
    BY <1>3, SeqFacts
  <2>2. /\ IsSeq(Tail(s)) /\ Len(Tail(s)) = Len(s) - 1
        /\ \A i \in 1 .. Len(Tail(s)) : Tail(s)[i] = s[i + 1]
    BY <1>3, SeqTail
  <2>3. DOMAIN Tail(s) = 1 .. Len(Tail(s))
    BY <2>2, SeqFacts
  <2>4. ASSUME NEW m \in Msgs(Tail(s))
        PROVE  m \in Msgs(s)
    <3>1. PICK i \in DOMAIN Tail(s) : m = Tail(s)[i]
      BY <2>4 DEF Msgs
    <3>2. i + 1 \in DOMAIN s /\ m = s[i + 1]
      BY <2>1, <2>2, <2>3, <3>1
    <3> QED BY <1>1, <3>2
  <2> QED BY <1>1, <2>1, <2>4
<1>4. ASSUME Len(s) = 1
      PROVE  Tail(s) = << >> /\ Head(s) = s[1] /\ Msgs(s) = {s[1]} /\ s # << >>
  <2>1. s # << >> /\ Head(s) = s[1] /\ DOMAIN s = 1 .. 1
    BY <1>4, SeqFacts
  <2>2. IsSeq(Tail(s)) /\ Len(Tail(s)) = 0
    BY <1>4, <2>1, SeqTail
  <2>3. Tail(s) = << >>
    BY <2>2, SeqFacts
  <2>4. Msgs(s) = {s[1]}
    BY <2>1 DEF Msgs
  <2> QED BY <2>1, <2>3, <2>4
<1> QED BY <1>1, <1>2, <1>3, <1>4

\* A message more.
LEMMA MsgsAppend ==
  ASSUME NEW s, IsSeq(s), NEW e
  PROVE  /\ Msgs(Append(s, e)) = Msgs(s) \cup {e} /\ IsSeq(Append(s, e))
         /\ Len(Append(s, e)) = Len(s) + 1 /\ Append(s, e) # << >>
         /\ s = << >> => Len(Append(s, e)) = 1 /\ Append(s, e)[1] = e /\ Msgs(Append(s, e)) = {e}
<1>1. /\ IsSeq(Append(s, e)) /\ Len(Append(s, e)) = Len(s) + 1
      /\ Append(s, e)[Len(s) + 1] = e
      /\ \A i \in 1 .. Len(s) : Append(s, e)[i] = s[i]
  BY SeqAppend
<1>2. /\ Len(s) \in Nat /\ DOMAIN s = 1 .. Len(s) /\ DOMAIN Append(s, e) = 1 .. Len(Append(s, e))
      /\ s = << >> => Len(s) = 0
  BY <1>1, SeqFacts
<1>3. Append(s, e) # << >>
  BY <1>1, <1>2, SeqFacts
<1>4. ASSUME NEW m
      PROVE  m \in Msgs(Append(s, e)) <=> m \in Msgs(s) \cup {e}
  <2>1. ASSUME m \in Msgs(Append(s, e))
        PROVE  m \in Msgs(s) \cup {e}
    <3>1. PICK i \in DOMAIN Append(s, e) : m = Append(s, e)[i]
      BY <2>1 DEF Msgs
    <3>2. i = Len(s) + 1 \/ i \in 1 .. Len(s)
      BY <1>1, <1>2, <3>1
    <3> QED BY <1>1, <1>2, <3>1, <3>2 DEF Msgs
  <2>2. ASSUME m \in Msgs(s)
        PROVE  m \in Msgs(Append(s, e))
    <3>1. PICK i \in DOMAIN s : m = s[i]
      BY <2>2 DEF Msgs
    <3>2. i \in DOMAIN Append(s, e) /\ m = Append(s, e)[i]
      BY <1>1, <1>2, <3>1
    <3> QED BY <3>2 DEF Msgs
  <2>3. e \in Msgs(Append(s, e))
    <3>1. Len(s) + 1 \in DOMAIN Append(s, e)
      BY <1>1, <1>2
    <3> QED BY <1>1, <3>1 DEF Msgs
  <2> QED BY <2>1, <2>2, <2>3
<1>5. Msgs(Append(s, e)) = Msgs(s) \cup {e}
  BY <1>4
<1>6. s = << >> => Msgs(s) = {}
  BY MsgsFacts
<1> QED BY <1>1, <1>2, <1>3, <1>5, <1>6

\* A message replaced.
LEMMA MsgsSet ==
  ASSUME NEW s, IsSeq(s), NEW i \in DOMAIN s, NEW e
  PROVE  /\ Msgs([s EXCEPT ![i] = e]) \subseteq Msgs(s) \cup {e} /\ IsSeq([s EXCEPT ![i] = e])
         /\ Len([s EXCEPT ![i] = e]) = Len(s)
         /\ [s EXCEPT ![i] = e] # << >>
<1>1. DOMAIN s = 1 .. Len(s) /\ Len(s) \in Nat /\ s # << >>
  BY SeqFacts
<1>2. /\ IsSeq([s EXCEPT ![i] = e]) /\ Len([s EXCEPT ![i] = e]) = Len(s)
      /\ [s EXCEPT ![i] = e][i] = e
      /\ \A j \in 1 .. Len(s) : j # i => [s EXCEPT ![i] = e][j] = s[j]
  BY <1>1, SeqSet
<1>3. [s EXCEPT ![i] = e] # << >>
  BY <1>1, <1>2, SeqFacts
<1>4. ASSUME NEW m \in Msgs([s EXCEPT ![i] = e])
      PROVE  m \in Msgs(s) \cup {e}
  <2>1. PICK j \in DOMAIN [s EXCEPT ![i] = e] : m = [s EXCEPT ![i] = e][j]
    BY <1>4 DEF Msgs
  <2>2. j \in DOMAIN s
    BY <2>1
  <2> QED BY <1>1, <1>2, <2>1, <2>2 DEF Msgs
<1> QED BY <1>2, <1>3, <1>4

\* The first request.
LEMMA SendNegotiateIs ==
  ASSUME SendNegotiate
  PROVE  \E q : /\ ReqShape(q) /\ q.cmd = "negotiate" /\ q.mid = next /\ q.key = NoKey
                /\ q.changed = FALSE
                /\ phase = "new" /\ phase' = "negotiating" /\ next' = next + 1 /\ request' = q
                /\ sent' = Append(sent, q)
                /\ hash' = IF "smb311" \in Offered THEN <<q>> ELSE << >>
                /\ UNCHANGED <<policy, params, provider, token, rounds, sid, session, tree, file,
                               asyncId, result, inbox, server, faults, late>>
<1>1. PICK q : q = Request("negotiate", "none", NoKey)
  OBVIOUS
<1>2. /\ ReqShape(q) /\ q.cmd = "negotiate" /\ q.mid = next /\ q.key = NoKey /\ q.changed = FALSE
  BY <1>1 DEF Request, ReqShape
<1>3. /\ phase = "new" /\ phase' = "negotiating" /\ next' = next + 1 /\ request' = q
      /\ sent' = Append(sent, q)
      /\ hash' = IF "smb311" \in Offered THEN <<q>> ELSE << >>
      /\ UNCHANGED <<policy, params, provider, token, rounds, sid, session, tree, file, asyncId,
                     result, inbox, server, faults, late>>
  BY <1>1 DEF SendNegotiate, config, handles, history
<1> QED BY <1>2, <1>3

\* The provider's first token.
LEMMA StartSetupIs ==
  ASSUME StartSetup
  PROVE  /\ phase = "negotiated" /\ phase' = "round" /\ provider = "new" /\ provider' = "sent"
         /\ token' = "init"
         /\ UNCHANGED <<policy, params, hash, rounds, sid, session, tree, file, request, asyncId,
                        result, next, sent, inbox, server, faults, late>>
BY DEF StartSetup, InitialToken, config, handles, call, credit, wire, history

\* The request of a round.
LEMMA SetupSent ==
  ASSUME SendSetup, phase' = "setup"
  PROVE  \E q : /\ ReqShape(q) /\ q.cmd = "setup" /\ q.mid = next /\ q.token = token
                /\ q.key = NoKey /\ q.changed = FALSE
                /\ rounds' = rounds + 1 /\ token' = "none" /\ next' = next + 1 /\ request' = q
                /\ result' = result /\ sent' = Append(sent, q)
                /\ hash' = IF params.dialect = "smb311" THEN Append(hash, q) ELSE hash
<1>1. PICK q : q = Request("setup", token, NoKey)
  OBVIOUS
<1>2. /\ ReqShape(q) /\ q.cmd = "setup" /\ q.mid = next /\ q.token = token
      /\ q.key = NoKey /\ q.changed = FALSE
  BY <1>1 DEF Request, ReqShape
<1>3. /\ rounds' = rounds + 1 /\ token' = "none" /\ next' = next + 1 /\ request' = q
      /\ result' = result /\ sent' = Append(sent, q)
      /\ hash' = Hashed(hash, Request("setup", token, NoKey))
  BY <1>1, SendSetupCases
<1>4. hash' = IF params.dialect = "smb311" THEN Append(hash, q) ELSE hash
  BY <1>1, <1>3 DEF Hashed
<1> QED BY <1>2, <1>3, <1>4

\* A call that is sent.
CallSent(q, cmd, key) ==
  /\ ReqShape(q) /\ q.cmd = cmd /\ q.mid = next /\ q.token = "none" /\ q.tree = tree
  /\ q.file = file /\ q.key = key /\ q.changed = FALSE
  /\ phase' = "waiting" /\ next' = next + 1 /\ asyncId' = "none" /\ result' = result
  /\ request' = q /\ sent' = Append(sent, q)

CallQuiet ==
  /\ phase = "session"
  /\ UNCHANGED <<policy, params, hash, provider, token, rounds, sid, session, tree, inbox, server,
                 faults, late>>

\* A call is refused on the spot or sent.
LEMMA CallStartIs ==
  ASSUME CallStarts
  PROVE  /\ CallQuiet
         /\ \E cmd, key, q :
              /\ cmd \in Commands /\ key \in {TreeSigningKey, SigningKey}
              /\ Calling(cmd, key) /\ file' = IF cmd = "close" THEN NoFile ELSE file
              /\ \/ /\ result'.kind \in {"unsupported", "credits"}
                    /\ UNCHANGED <<phase, request, asyncId, next, sent>>
                 \/ CallSent(q, cmd, key)
<1>1. PICK cmd \in Commands, key \in {TreeSigningKey, SigningKey} :
           /\ Calling(cmd, key)
           /\ phase = "session" /\ file' = IF cmd = "close" THEN NoFile ELSE file
           /\ UNCHANGED <<policy, params, hash, provider, token, rounds, sid, session, tree, inbox,
                          server, faults, late>>
           /\ \/ /\ result'.kind \in {"unsupported", "credits"}
                 /\ UNCHANGED <<phase, request, asyncId, next, sent>>
              \/ /\ phase' = "waiting" /\ next' = next + 1 /\ asyncId' = "none" /\ result' = result
                 /\ request' = Request(cmd, "none", key)
                 /\ sent' = Append(sent, Request(cmd, "none", key))
  BY CallCases
<1>2. PICK q : q = Request(cmd, "none", key)
  OBVIOUS
<1>3. /\ ReqShape(q) /\ q.cmd = cmd /\ q.mid = next /\ q.token = "none" /\ q.tree = tree
      /\ q.file = file /\ q.key = key /\ q.changed = FALSE
  BY <1>2 DEF Request, ReqShape
<1>4. CallQuiet
  BY <1>1 DEF CallQuiet
<1>5. \/ /\ result'.kind \in {"unsupported", "credits"}
         /\ UNCHANGED <<phase, request, asyncId, next, sent>>
      \/ CallSent(q, cmd, key)
  BY <1>1, <1>2, <1>3 DEF CallSent
<1> QED BY <1>1, <1>4, <1>5

-----------------------------------------------------------------------------
(* The wire keeps its shape.                                                *)

\* A request on its way keeps its fields when it is marked.
LEMMA MarkedIs ==
  ASSUME NEW q, ReqShape(q), NEW c, NEW f \in {"token", "changed"}, NEW v, c = [q EXCEPT ![f] = v]
  PROVE  /\ ReqShape(c) /\ c.cmd = q.cmd /\ c.mid = q.mid /\ c.tree = q.tree /\ c.file = q.file
         /\ c.key = q.key
<1>1. PICK a1, a2, a3, a4, a5, a6, a7 :
        q = [cmd |-> a1, mid |-> a2, token |-> a3, tree |-> a4, file |-> a5, key |-> a6, changed |-> a7]
  BY DEF ReqShape
<1>2. CASE f = "token"
  BY <1>1, <1>2 DEF ReqShape
<1>3. CASE f = "changed"
  BY <1>1, <1>3 DEF ReqShape
<1> QED BY <1>2, <1>3

\* One answer takes the place of the one request.
LEMMA ReplyTraffic ==
  ASSUME Shape, Traffic, NEW r, Replies(r), IsSeq(server.hash)', ServerShape'
  PROVE  Shape' /\ Traffic'
<1>1. /\ phase # "dropped" /\ sent # << >> /\ sent' = Tail(sent) /\ inbox' = Append(inbox, r)
      /\ "changed" \in DOMAIN r /\ faults' = faults
      /\ phase' = phase /\ next' = next /\ hash' = hash /\ request' = request
  BY DEF Replies, ClientStays
<1>2. /\ IsSeq(sent) /\ IsSeq(inbox) /\ IsSeq(hash)
      /\ \A m \in Msgs(inbox) : "changed" \in DOMAIN m
      /\ \A q \in Msgs(sent) : ReqShape(q)
  BY DEF Shape
<1>3. /\ IsSeq(Tail(sent)) /\ Msgs(Tail(sent)) \subseteq Msgs(sent)
      /\ Len(sent) = 1 => Tail(sent) = << >>
      /\ Msgs(Append(inbox, r)) = Msgs(inbox) \cup {r} /\ IsSeq(Append(inbox, r))
      /\ inbox = << >> => Len(Append(inbox, r)) = 1
  BY <1>1, <1>2, SeqTail, MsgsFacts, MsgsAppend
<1>4. Shape'
  BY <1>1, <1>2, <1>3 DEF Shape
<1>5. Traffic'
  <2>1. phase \notin {"new", "negotiated", "round"}
    BY <1>1 DEF Traffic
  <2>2. ASSUME NEW cmd, OneMessage(cmd)
        PROVE  OneMessage(cmd)'
    BY <1>1, <1>3, <2>2 DEF OneMessage
  <2> QED BY <1>1, <1>3, <2>1, <2>2 DEF Traffic
<1> QED BY <1>4, <1>5

\* Every step keeps the shape of the wire and its one message at a time.
LEMMA ShapeStep ==
  ASSUME Shape, Traffic, Next
  PROVE  Shape' /\ Traffic'
<1>0. /\ next \in Nat /\ faults \in Nat
      /\ IsSeq(sent) /\ IsSeq(inbox) /\ IsSeq(hash) /\ IsSeq(server.hash) /\ ServerShape
      /\ \A m \in Msgs(inbox) : "changed" \in DOMAIN m
      /\ \A q \in Msgs(sent) : ReqShape(q)
  BY DEF Shape
<1>1. CASE SendNegotiate
  <2>1. PICK q : /\ ReqShape(q) /\ q.cmd = "negotiate" /\ q.key = NoKey
                 /\ phase = "new" /\ phase' = "negotiating" /\ next' = next + 1 /\ request' = q
                 /\ sent' = Append(sent, q)
                 /\ hash' = IF "smb311" \in Offered THEN <<q>> ELSE << >>
                 /\ UNCHANGED <<inbox, server, faults>>
    BY <1>1, SendNegotiateIs
  <2>2. sent = << >> /\ inbox = << >>
    BY <2>1 DEF Traffic
  <2>3. IsSeq(hash')
    <3>1. <<q>> \in Seq({q})
      OBVIOUS
    <3>2. IsSeq(<<q>>)
      BY <3>1 DEF IsSeq
    <3> QED BY <2>1, <3>2, NoSeq
  <2>4. IsSeq(sent') /\ Len(sent') = 1 /\ Msgs(sent') = {q}
    BY <1>0, <2>1, <2>2, MsgsAppend
  <2>5. Shape'
    BY <1>0, <2>1, <2>3, <2>4 DEF Shape, ServerShape
  <2>6. OneMessage("negotiate")'
    BY <2>1, <2>2, <2>4 DEF OneMessage
  <2> QED BY <2>1, <2>5, <2>6 DEF Traffic
<1>2. CASE StartSetup
  <2>1. /\ phase = "negotiated" /\ phase' = "round"
        /\ UNCHANGED <<hash, next, sent, inbox, server, faults>>
    BY <1>2, StartSetupIs
  <2> QED BY <1>0, <2>1 DEF Shape, Traffic, ServerShape
<1>3. CASE CallStarts
  <2>1. CallQuiet
    BY <1>3, CallStartIs
  <2>2. PICK cmd, key, q :
              /\ cmd \in Commands /\ key \in {TreeSigningKey, SigningKey}
              /\ \/ UNCHANGED <<phase, request, asyncId, next, sent>>
                 \/ CallSent(q, cmd, key)
    BY <1>3, CallStartIs
  <2>3. CASE UNCHANGED <<phase, request, asyncId, next, sent>>
    BY <1>0, <2>1, <2>3 DEF CallQuiet, Shape, Traffic, ServerShape
  <2>4. CASE CallSent(q, cmd, key)
    <3>1. /\ ReqShape(q) /\ q.cmd \in Commands /\ phase = "session" /\ phase' = "waiting"
          /\ next' = next + 1 /\ request' = q /\ sent' = Append(sent, q)
          /\ UNCHANGED <<hash, inbox, server, faults>>
      BY <2>1, <2>2, <2>4 DEF CallSent, CallQuiet
    <3>2. IsSeq(sent') /\ Msgs(sent') = Msgs(sent) \cup {q}
      BY <1>0, <3>1, MsgsAppend
    <3> QED BY <1>0, <3>1, <3>2 DEF Shape, Traffic, ServerShape
  <2> QED BY <2>2, <2>3, <2>4
<1>4. CASE ReceiveNegotiate
  <2>1. /\ phase = "negotiating" /\ inbox # << >> /\ inbox' = Tail(inbox)
        /\ UNCHANGED <<next, sent, server, faults>>
        /\ phase' \in {"dropped", "negotiated"}
        /\ hash' = hash \/ hash' = Append(hash, Head(inbox)) \/ hash' = << >>
    BY <1>4, NegotiateCases
  <2>2. sent = << >> /\ Tail(inbox) = << >>
    BY <1>0, <2>1, MsgsFacts DEF Traffic, OneMessage
  <2>3. IsSeq(hash')
    <3>1. IsSeq(Append(hash, Head(inbox)))
      BY <1>0, SeqAppend
    <3> QED BY <1>0, <2>1, <3>1, NoSeq
  <2>4. IsSeq(inbox') /\ Msgs(inbox') = {}
    BY <2>1, <2>2, NoSeq, MsgsFacts
  <2> QED BY <1>0, <2>1, <2>2, <2>3, <2>4 DEF Shape, Traffic, ServerShape
<1>5. CASE SendSetup
  <2>1. /\ phase = "round" /\ UNCHANGED <<inbox, server, faults>>
        /\ phase' = "dropped" \/ phase' = "setup"
        /\ phase' = "dropped" => UNCHANGED <<next, request, hash, sent>>
    BY <1>5, SendSetupCases
  <2>2. CASE phase' = "dropped"
    BY <1>0, <2>1, <2>2 DEF Shape, Traffic, ServerShape
  <2>3. CASE phase' = "setup"
    <3>1. PICK q : /\ ReqShape(q) /\ q.cmd = "setup" /\ q.key = NoKey
                   /\ next' = next + 1 /\ request' = q /\ sent' = Append(sent, q)
                   /\ hash' = IF params.dialect = "smb311" THEN Append(hash, q) ELSE hash
      BY <1>5, <2>3, SetupSent
    <3>2. sent = << >> /\ inbox = << >>
      BY <2>1 DEF Traffic
    <3>3. IsSeq(hash')
      BY <1>0, <3>1, SeqAppend
    <3>4. IsSeq(sent') /\ Len(sent') = 1 /\ Msgs(sent') = {q}
      BY <1>0, <3>1, <3>2, MsgsAppend
    <3>5. OneMessage("setup")'
      BY <2>1, <3>1, <3>2, <3>4 DEF OneMessage
    <3> QED BY <1>0, <2>1, <2>3, <3>1, <3>3, <3>4, <3>5 DEF Shape, Traffic, ServerShape
  <2> QED BY <2>1, <2>2, <2>3
<1>6. CASE ReceiveSetup
  <2>1. /\ phase = "setup" /\ inbox # << >> /\ inbox' = Tail(inbox)
        /\ UNCHANGED <<next, sent, server, faults>>
        /\ phase' \in {"dropped", "round", "session"}
    BY <1>6, SetupCases
  <2>2. sent = << >> /\ Tail(inbox) = << >>
    BY <1>0, <2>1, MsgsFacts DEF Traffic, OneMessage
  <2>3. hash' = hash \/ hash' = Append(hash, Head(inbox))
    BY <1>6 DEF ReceiveSetup, SetupContinues, SetupSucceeds, Hashed
  <2>4. IsSeq(hash')
    <3>1. IsSeq(Append(hash, Head(inbox)))
      BY <1>0, SeqAppend
    <3> QED BY <1>0, <2>3, <3>1
  <2>5. IsSeq(inbox') /\ Msgs(inbox') = {} /\ Msgs(sent') = {}
    BY <2>1, <2>2, NoSeq, MsgsFacts
  <2> QED BY <1>0, <2>1, <2>2, <2>4, <2>5 DEF Shape, Traffic, ServerShape
<1>7. CASE ReceiveAnswer
  <2>1. /\ phase = "waiting" /\ inbox # << >> /\ inbox' = Tail(inbox)
        /\ UNCHANGED <<hash, request, next, sent, server, faults>>
        /\ phase' \in {"waiting", "session"}
    BY <1>7, AnswerCases
  <2>2. IsSeq(inbox') /\ Msgs(inbox') \subseteq Msgs(inbox)
    BY <1>0, <2>1, SeqTail, MsgsFacts
  <2> QED BY <1>0, <2>1, <2>2 DEF Shape, Traffic, ServerShape
<1>8. CASE GiveUp
  <2>1. /\ phase \in {"negotiating", "setup", "waiting"}
        /\ phase' = IF phase = "waiting" THEN "session" ELSE "dropped"
        /\ UNCHANGED <<hash, request, next, sent, inbox, server, faults>>
    BY <1>8, GiveUpCases
  <2> QED BY <1>0, <2>1 DEF Shape, Traffic, ServerShape
<1>9. CASE Refuse
  <2>1. PICK r : Replies(r) /\ server' = server
    BY <1>9, RefuseIs
  <2>2. IsSeq(server.hash)' /\ ServerShape'
    BY <1>0, <2>1 DEF ServerShape
  <2> QED BY <2>1, <2>2, ReplyTraffic
<1>10. CASE AnswerNegotiate
  <2>1. PICK r, q : /\ Replies(r) /\ ServerShape'
                    /\ server'.hash = IF r.dialect = "smb311" THEN <<q, r>> ELSE << >>
    BY <1>0, <1>10, NegotiateIs
  <2>2. <<q, r>> \in Seq({q, r})
    OBVIOUS
  <2>3. IsSeq(<<q, r>>)
    BY <2>2 DEF IsSeq
  <2>4. IsSeq(server.hash)'
    BY <2>1, <2>3, NoSeq
  <2> QED BY <2>1, <2>4, ReplyTraffic
<1>11. CASE AnswerInit
  <2>1. PICK r, q : /\ Replies(r) /\ ServerShape'
                    /\ server'.hash = IF server.params.dialect = "smb311"
                                        THEN Append(server.hash, q) \o <<r>> ELSE << >>
    BY <1>0, <1>11, InitIs
  <2>2. IsSeq(Append(server.hash, q))
    BY <1>0, SeqAppend
  <2>3. IsSeq(Append(server.hash, q) \o <<r>>)
    BY <2>2, SeqThen
  <2>4. IsSeq(server.hash)'
    BY <2>1, <2>3, NoSeq
  <2> QED BY <2>1, <2>4, ReplyTraffic
<1>12. CASE AnswerAuth
  <2>1. PICK r, q : /\ Replies(r) /\ ServerShape'
                    /\ server'.hash = IF server.params.dialect = "smb311"
                                        THEN Append(server.hash, q) ELSE server.hash
    BY <1>0, <1>12, AuthIs
  <2>2. IsSeq(server.hash)'
    BY <1>0, <2>1, SeqAppend
  <2> QED BY <2>1, <2>2, ReplyTraffic
<1>13. CASE AnswerCall
  <2>1. PICK r, q : /\ Replies(r) /\ ServerShape' /\ server'.hash = server.hash
    BY <1>0, <1>13, CallIs
  <2>2. IsSeq(server.hash)'
    BY <1>0, <2>1
  <2> QED BY <2>1, <2>2, ReplyTraffic
<1>14. CASE GoAsync
  <2>1. PICK r, q : /\ q = Head(sent) /\ q.cmd \in Commands
                    /\ phase # "dropped" /\ sent # << >>
                    /\ sent' = [sent EXCEPT ![1] = [sent[1] EXCEPT !.token = "async"]]
                    /\ inbox' = Append(inbox, r) /\ ClientStays /\ UNCHANGED <<server, faults>>
                    /\ "changed" \in DOMAIN r
    BY <1>14, AsyncIs
  <2>2. PICK c : c = [q EXCEPT !["token"] = "async"]
    OBVIOUS
  <2>3. q = sent[1] /\ q \in Msgs(sent) /\ 1 \in DOMAIN sent
    BY <1>0, <2>1, SeqFacts, MsgsFacts
  <2>4. sent' = [sent EXCEPT ![1] = c]
    BY <2>1, <2>2, <2>3
  <2>5. ReqShape(c) /\ c.cmd = q.cmd
    BY <1>0, <2>1, <2>2, <2>3, MarkedIs
  <2>6. IsSeq(sent') /\ Msgs(sent') \subseteq Msgs(sent) \cup {c}
    BY <1>0, <2>3, <2>4, MsgsSet
  <2>7. IsSeq(inbox') /\ Msgs(inbox') = Msgs(inbox) \cup {r}
    BY <1>0, <2>1, MsgsAppend
  <2>8. phase \in {"session", "waiting"} \/ phase \notin {"new", "negotiated", "round", "negotiating", "setup"}
    BY <2>1, <2>3 DEF Traffic, OneMessage, Commands
  <2> QED BY <1>0, <2>1, <2>5, <2>6, <2>7, <2>8 DEF Shape, Traffic, ServerShape, ClientStays, Commands
<1>15. CASE ChangeResponse
  <2>1. \A i \in DOMAIN inbox : "changed" \in DOMAIN inbox[i]
    BY <1>0, MsgsFacts
  <2>2. PICK i, c :
           /\ i \in DOMAIN inbox
           /\ phase # "dropped" /\ inbox' = [inbox EXCEPT ![i] = c]
           /\ "changed" \in DOMAIN c
           /\ ClientStays /\ UNCHANGED <<sent, server>> /\ faults' = faults + 1
    BY <1>15, <2>1, ChangedIs
  <2>3. IsSeq(inbox') /\ Msgs(inbox') \subseteq Msgs(inbox) \cup {c} /\ Len(inbox') = Len(inbox)
    BY <1>0, <2>2, MsgsSet
  <2>4. inbox # << >>
    BY <2>2
  <2>5. ASSUME NEW cmd, OneMessage(cmd)
        PROVE  OneMessage(cmd)'
    BY <2>2, <2>3, <2>4, <2>5 DEF OneMessage, ClientStays
  <2>6. Shape'
    <3>1. faults' \in Nat
      BY <1>0, <2>2
    <3>2. UNCHANGED <<next, sent, hash, server>>
      BY <2>2 DEF ClientStays
    <3>3. \A m \in Msgs(inbox') : "changed" \in DOMAIN m
      BY <1>0, <2>2, <2>3
    <3> QED BY <1>0, <2>3, <3>1, <3>2, <3>3 DEF Shape, ServerShape
  <2> QED BY <2>2, <2>4, <2>5, <2>6 DEF Traffic, ClientStays
<1>16. CASE ChangeRequest
  <2>1. PICK i \in DOMAIN sent :
           /\ phase # "dropped" /\ sent' = [sent EXCEPT ![i] = [sent[i] EXCEPT !.changed = TRUE]]
           /\ ClientStays /\ UNCHANGED <<inbox, server>> /\ faults' = faults + 1
    BY <1>16, ChangedRequestIs
  <2>2. PICK q : q = sent[i] /\ q \in Msgs(sent)
    BY <1>0, MsgsFacts
  <2>10. PICK v : v = TRUE
    OBVIOUS
  <2>3. PICK c : c = [q EXCEPT !["changed"] = v]
    OBVIOUS
  <2>4. sent' = [sent EXCEPT ![i] = c]
    BY <2>1, <2>2, <2>3, <2>10
  <2>5. ReqShape(c) /\ c.cmd = q.cmd /\ c.key = q.key
    <3>1. ReqShape(q)
      BY <1>0, <2>2
    <3> QED BY <2>3, <3>1, MarkedIs
  <2>6. IsSeq(sent') /\ Msgs(sent') \subseteq Msgs(sent) \cup {c} /\ Len(sent') = Len(sent)
    BY <1>0, <2>4, MsgsSet
  <2>7. sent # << >>
    BY <2>1
  <2>8. ASSUME NEW cmd, OneMessage(cmd)
        PROVE  OneMessage(cmd)'
    BY <2>1, <2>2, <2>5, <2>6, <2>7, <2>8 DEF OneMessage, ClientStays
  <2>9. Shape'
    <3>1. faults' \in Nat
      BY <1>0, <2>1
    <3>2. UNCHANGED <<next, inbox, hash, server>>
      BY <2>1 DEF ClientStays
    <3>3. \A m \in Msgs(sent') : ReqShape(m)
      BY <1>0, <2>5, <2>6
    <3> QED BY <1>0, <2>6, <3>1, <3>2, <3>3 DEF Shape, ServerShape
  <2> QED BY <2>1, <2>2, <2>5, <2>6, <2>7, <2>8, <2>9 DEF Traffic, ClientStays
<1> QED BY <1>1, <1>2, <1>3, <1>4, <1>5, <1>6, <1>7, <1>8, <1>9, <1>10, <1>11, <1>12, <1>13, <1>14,
           <1>15, <1>16 DEF Next, CallStarts

-----------------------------------------------------------------------------
(* Both ends have the same transcript.                                      *)

\* While the session is set up, the only message is the one that is answered.
LEMMA OnlyAnswer ==
  ASSUME Shape, Traffic, NEW r, Replies(r)
  PROVE  /\ phase' = phase
         /\ phase = "setup" => /\ Msgs(inbox') = {r} /\ Head(sent).cmd = "setup"
                               /\ Head(sent).key = NoKey
         /\ phase = "negotiating" => /\ Msgs(inbox') = {r} /\ Head(sent).cmd = "negotiate"
                                     /\ Head(sent).key = NoKey
         /\ phase \notin {"new", "negotiated", "round"} /\ Head(sent) \in Msgs(sent)
         /\ phase \in {"setup", "negotiating"} => Msgs(sent') = {}
         /\ phase \in {"session", "waiting"} => Head(sent).cmd \in Commands
<1>1. /\ sent # << >> /\ inbox' = Append(inbox, r) /\ phase' = phase /\ sent' = Tail(sent)
  BY DEF Replies, ClientStays
<1>2. IsSeq(sent) /\ IsSeq(inbox)
  BY DEF Shape
<1>3. /\ Head(sent) \in Msgs(sent) /\ (inbox = << >> => Msgs(Append(inbox, r)) = {r})
      /\ Len(sent) = 1 => Msgs(Tail(sent)) = {}
  <2>1. Len(sent) = 1 => Tail(sent) = << >>
    BY <1>2, MsgsFacts
  <2>2. Msgs(<< >>) = {}
    BY DEF Msgs
  <2>3. Len(sent) = 1 => Msgs(Tail(sent)) = {}
    BY <2>1, <2>2
  <2> QED BY <1>1, <1>2, <2>3, MsgsFacts, MsgsAppend
<1> QED BY <1>1, <1>3 DEF Traffic, OneMessage

\* A server that goes on with its transcript keeps the second message.
LEMMA ServerTranscript ==
  ASSUME Shape, Traffic, Transcripts, NEW r, Replies(r), server'.params = server.params, NEW q,
         \/ server'.hash = server.hash
         \/ /\ server.params.dialect = "smb311"
            /\ \/ server'.hash = Append(server.hash, q)
               \/ server'.hash = Append(server.hash, q) \o <<r>>
  PROVE  Transcripts'
<1>1. UNCHANGED <<phase, params, hash, policy>>
  BY DEF Replies, ClientStays
<1>2. IsSeq(server.hash) /\ Len(server.hash) \in Nat
  BY SeqFacts DEF Shape
<1>3. CASE server'.hash = server.hash
  BY <1>1, <1>3 DEF Transcripts, ParamsOf
<1>4. CASE /\ server.params.dialect = "smb311"
           /\ \/ server'.hash = Append(server.hash, q)
              \/ server'.hash = Append(server.hash, q) \o <<r>>
  <2>1. PICK h : h = Append(server.hash, q)
    OBVIOUS
  <2>2. Len(server.hash) >= 2
    BY <1>4 DEF Transcripts
  <2>3. IsSeq(h) /\ Len(h) = Len(server.hash) + 1 /\ h[2] = server.hash[2]
    BY <1>2, <2>1, <2>2, SeqAppend
  <2>4. Len(Append(h, r)) = Len(h) + 1 /\ Append(h, r)[2] = h[2] /\ h \o <<r>> = Append(h, r)
    BY <1>2, <2>2, <2>3, SeqAppend, SeqThen
  <2>5. server'.hash = h \/ server'.hash = Append(h, r)
    BY <1>4, <2>1, <2>4
  <2>6. Len(server'.hash) >= 2 /\ server'.hash[2] = server.hash[2]
    BY <1>2, <2>2, <2>3, <2>4, <2>5
  <2> QED BY <1>1, <1>4, <2>6 DEF Transcripts, ParamsOf
<1> QED BY <1>3, <1>4

\* So does a client.
LEMMA ClientTranscript ==
  ASSUME Shape, Transcripts, NEW e, hash' = hash \/ hash' = Append(hash, e),
         phase' \notin {"new", "negotiating"}, UNCHANGED <<params, policy, server>>
  PROVE  Transcripts'
<1>1. IsSeq(hash) /\ Len(hash) \in Nat
  BY SeqFacts DEF Shape
<1>2. CASE params.dialect = "smb311"
  <2>1. Len(hash) >= 2
    BY <1>2 DEF Transcripts
  <2>2. Len(Append(hash, e)) = Len(hash) + 1 /\ Append(hash, e)[2] = hash[2]
    BY <1>1, <2>1, SeqAppend
  <2>3. Len(hash') >= 2 /\ hash'[2] = hash[2]
    BY <1>1, <2>1, <2>2
  <2> QED BY <1>2, <2>3 DEF Transcripts, ParamsOf
<1>3. CASE params.dialect # "smb311"
  BY <1>3 DEF Transcripts, ParamsOf
<1> QED BY <1>2, <1>3

(***************************************************************************)
(* The set-up succeeds: the final answer's signature was made from the     *)
(* client's transcript, so the server has the same.                        *)
(***************************************************************************)
LEMMA SessionMade ==
  ASSUME Shape, Traffic, Transcripts, FinalAnswer, ReceiveSetup, phase' = "session"
  PROVE  SameSession'
<1> SUFFICES ASSUME params'.dialect = "smb311", session'.key.set
             PROVE  hash' = server'.hash /\ params' = server'.params /\ sid' = server'.sid
                    /\ session'.key = server'.key
  BY DEF SameSession
<1>1. PICK r : r = Head(inbox)
  OBVIOUS
<1>2. /\ phase = "setup" /\ inbox # << >> /\ UNCHANGED <<params, server, hash, policy>>
      /\ SetupAccepted(Head(inbox)) /\ sid' = AssignedId(Head(inbox)) /\ sid' # 0
      /\ FinalSigned(Head(inbox)) /\ session'.key = DerivedKey(Head(inbox))
  BY SetupCases
<1>3. r \in Msgs(inbox)
  BY <1>1, <1>2, MsgsFacts DEF Shape
<1>4. ~GuestOrNull(Head(inbox)) /\ session'.key = Key(hash)
  BY <1>2, Keys DEF DerivedKey
<1>5. Head(inbox).key.set
  BY <1>2, <1>4 DEF FinalSigned
<1>6. Valid(Head(inbox), DerivedKey(Head(inbox)))
  BY <1>2, <1>5 DEF FinalSigned
<1>7. r.key.set /\ ~r.changed /\ r.key = Key(hash)
  BY <1>1, <1>2, <1>4, <1>5, <1>6 DEF Valid
<1>8. r.key = server.key /\ server.key = Key(server.hash) /\ r.sid = server.sid
  BY <1>2, <1>3, <1>7 DEF FinalAnswer
<1>9. hash = server.hash
  BY <1>7, <1>8 DEF Key
<1>10. params = server.params
  <2>1. Len(hash) >= 2 /\ params = ParamsOf(hash[2])
    BY <1>2 DEF Transcripts
  <2>2. server.params.dialect = "smb311"
    <3>1. Len(<< >>) = 0
      OBVIOUS
    <3>2. server.hash # << >>
      BY <1>9, <2>1, <3>1
    <3> QED BY <3>2 DEF Transcripts
  <2>3. server.params = ParamsOf(server.hash[2])
    BY <2>2 DEF Transcripts
  <2> QED BY <1>9, <2>1, <2>3 DEF ParamsOf
<1>11. sid' = server.sid
  <2>1. (sid # 0 => r.sid = sid) /\ sid' = IF r.sid # 0 THEN r.sid ELSE sid
    BY <1>1, <1>2 DEF SetupAccepted, AssignedId
  <2> QED BY <1>2, <1>8, <2>1
<1> QED BY <1>2, <1>4, <1>7, <1>8, <1>9, <1>10, <1>11

SameInv == Transcripts /\ FinalAnswer /\ SameSession

\* Every step keeps the two transcripts in agreement.
LEMMA SameStep ==
  ASSUME Shape, Traffic, SameInv, Next
  PROVE  SameInv'
<1>0. /\ IsSeq(sent) /\ IsSeq(inbox) /\ IsSeq(hash) /\ ServerShape /\ Len(hash) \in Nat
      /\ Transcripts /\ FinalAnswer /\ SameSession
  BY SeqFacts DEF Shape, SameInv
<1>1. CASE SendNegotiate
  <2>1. PICK q : /\ phase = "new" /\ phase' = "negotiating"
                 /\ hash' = IF "smb311" \in Offered THEN <<q>> ELSE << >>
                 /\ UNCHANGED <<policy, params, server>>
    BY <1>1, SendNegotiateIs
  <2>2. "smb311" \in Offered => Len(hash') = 1
    BY <2>1
  <2> QED BY <1>0, <2>1, <2>2 DEF SameInv, Transcripts, FinalAnswer, SameSession, ParamsOf
<1>2. CASE StartSetup
  <2>1. phase' = "round" /\ UNCHANGED <<policy, params, hash, server>>
    BY <1>2, StartSetupIs
  <2>2. Transcripts'
    BY <1>0, <2>1, ClientTranscript
  <2> QED BY <2>1, <2>2 DEF SameInv, FinalAnswer, SameSession
<1>3. CASE CallStarts
  <2>1. /\ phase = "session" /\ UNCHANGED <<policy, params, hash, sid, session, server>>
        /\ phase' \in {"session", "waiting"}
    BY <1>3, CallStartIs DEF CallQuiet, CallSent
  <2>2. Transcripts'
    BY <1>0, <2>1, ClientTranscript
  <2> QED BY <1>0, <2>1, <2>2 DEF SameInv, FinalAnswer, SameSession
<1>4. CASE ReceiveNegotiate
  <2>1. PICK r : r = Head(inbox)
    OBVIOUS
  <2>2. /\ phase = "negotiating" /\ UNCHANGED <<policy, server>>
        /\ \/ phase' = "dropped" /\ params' = params /\ hash' = hash
           \/ /\ phase' = "negotiated" /\ NegotiateAccepted(Head(inbox))
              /\ params' = [dialect |-> r.dialect, requires |-> r.requires \/ policy.requires]
              /\ hash' = IF r.dialect = "smb311" THEN Append(hash, r) ELSE << >>
    BY <1>4, <2>1, NegotiateCases
  <2>3. CASE phase' = "dropped" /\ params' = params /\ hash' = hash
    <3>1. Transcripts'
      BY <1>0, <2>2, <2>3, ClientTranscript
    <3> QED BY <2>3, <3>1 DEF SameInv, FinalAnswer, SameSession
  <2>4. CASE /\ phase' = "negotiated" /\ NegotiateAccepted(Head(inbox))
             /\ params' = [dialect |-> r.dialect, requires |-> r.requires \/ policy.requires]
             /\ hash' = IF r.dialect = "smb311" THEN Append(hash, r) ELSE << >>
    <3>1. r.dialect \in Offered
      BY <2>1, <2>4 DEF NegotiateAccepted
    <3>2. ASSUME r.dialect = "smb311"
          PROVE  Len(hash') >= 2 /\ hash'[2] = r
      <4>1. Len(hash) = 1 /\ hash' = Append(hash, r)
        BY <1>0, <2>2, <2>4, <3>1, <3>2 DEF Transcripts
      <4>2. Len(Append(hash, r)) = Len(hash) + 1 /\ Append(hash, r)[Len(hash) + 1] = r
        BY <1>0, SeqAppend
      <4> QED BY <4>1, <4>2
    <3>3. params'.dialect = r.dialect
      BY <2>4
    <3>4. Transcripts'
      BY <1>0, <2>2, <2>4, <3>2, <3>3 DEF Transcripts, ParamsOf
    <3> QED BY <2>4, <3>4 DEF SameInv, FinalAnswer, SameSession
  <2> QED BY <2>2, <2>3, <2>4
<1>5. CASE SendSetup
  <2>1. /\ phase = "round" /\ UNCHANGED <<policy, params, inbox, server>>
        /\ phase' = "dropped" \/ phase' = "setup"
        /\ phase' = "dropped" => hash' = hash
    BY <1>5, SendSetupCases
  <2>2. PICK q : hash' = hash \/ hash' = Append(hash, q)
    BY <1>5, <2>1, SetupSent
  <2>3. Transcripts'
    BY <1>0, <2>1, <2>2, ClientTranscript
  <2>4. Msgs(inbox') = {}
    BY <1>0, <2>1, MsgsFacts DEF Traffic
  <2> QED BY <2>1, <2>3, <2>4 DEF SameInv, FinalAnswer, SameSession
<1>6. CASE ReceiveSetup
  <2>1. /\ phase = "setup" /\ UNCHANGED <<policy, params, server>>
        /\ phase' \in {"dropped", "round", "session"}
    BY <1>6, SetupCases
  <2>2. hash' = hash \/ hash' = Append(hash, Head(inbox))
    BY <1>6 DEF ReceiveSetup, SetupContinues, SetupSucceeds, Hashed
  <2>3. PICK e : e = Head(inbox)
    OBVIOUS
  <2>4. Transcripts'
    BY <1>0, <2>1, <2>2, <2>3, ClientTranscript
  <2>5. phase' = "session" => SameSession'
    BY <1>0, <1>6, SessionMade
  <2> QED BY <2>1, <2>4, <2>5 DEF SameInv, FinalAnswer, SameSession
<1>7. CASE ReceiveAnswer \/ GiveUp
  <2>1. /\ UNCHANGED <<policy, params, hash, sid, session, server>>
        /\ phase' \in {"waiting", "session", "dropped"}
        /\ phase' \in {"waiting", "session"} => phase = "waiting"
    BY <1>7, AnswerCases, GiveUpCases
  <2>2. Transcripts'
    BY <1>0, <2>1, ClientTranscript
  <2> QED BY <1>0, <2>1, <2>2 DEF SameInv, FinalAnswer, SameSession
<1>8. CASE Refuse
  <2>1. PICK r, q : /\ Replies(r) /\ q = Head(sent) /\ server' = server
                    /\ r.key = IF Genuine(q) THEN q.key ELSE NoKey
    BY <1>8, RefuseIs
  <2>2. Transcripts'
    BY <1>0, <2>1, ServerTranscript
  <2>3. FinalAnswer'
    <3>1. phase = "setup" => Msgs(inbox') = {r} /\ ~r.key.set
      BY <2>1, OnlyAnswer, Keys
    <3> QED BY <2>1, <3>1 DEF FinalAnswer, Replies, ClientStays
  <2>4. SameSession'
    BY <1>0, <2>1 DEF SameSession, Replies, ClientStays
  <2> QED BY <2>2, <2>3, <2>4 DEF SameInv
<1>9. CASE AnswerNegotiate
  <2>1. PICK r, q : /\ Replies(r) /\ q = Head(sent) /\ q.cmd = "negotiate"
                    /\ server'.params = [dialect |-> r.dialect,
                                         requires |-> r.requires \/ policy.requires]
                    /\ server'.hash = IF r.dialect = "smb311" THEN <<q, r>> ELSE << >>
    BY <1>0, <1>9, NegotiateIs
  <2>2. phase \notin {"setup", "session", "waiting"} /\ phase' = phase
    BY <2>1, OnlyAnswer DEF Commands
  <2>3. UNCHANGED <<policy, params, hash>>
    BY <2>1 DEF Replies, ClientStays
  <2>4. r.dialect = "smb311" => Len(server'.hash) = 2 /\ server'.hash[2] = r
    BY <2>1
  <2>5. server'.params.dialect = r.dialect
    BY <2>1
  <2>6. IF server'.params.dialect = "smb311"
          THEN Len(server'.hash) >= 2 /\ server'.params = ParamsOf(server.hash[2])'
          ELSE server'.hash = << >>
    BY <2>1, <2>3, <2>4, <2>5 DEF ParamsOf
  <2>7. Transcripts'
    BY <1>0, <2>2, <2>3, <2>6 DEF Transcripts, ParamsOf
  <2> QED BY <2>2, <2>7 DEF SameInv, FinalAnswer, SameSession
<1>10. CASE AnswerInit
  <2>1. PICK r, q : /\ Replies(r) /\ q = Head(sent) /\ q.cmd = "setup" /\ r.key = NoKey
                    /\ server'.hash = IF server.params.dialect = "smb311"
                                        THEN Append(server.hash, q) \o <<r>> ELSE << >>
                    /\ server'.params = server.params
    BY <1>0, <1>10, InitIs
  <2>2. server.params.dialect # "smb311" => server.hash = << >>
    BY <1>0 DEF Transcripts
  <2>3. Transcripts'
    BY <1>0, <2>1, <2>2, ServerTranscript
  <2>4. phase' = phase /\ phase \notin {"session", "waiting"} /\ (phase = "setup" => Msgs(inbox') = {r})
    BY <2>1, OnlyAnswer DEF Commands
  <2>5. ~r.key.set
    BY <2>1, Keys
  <2> QED BY <2>3, <2>4, <2>5 DEF SameInv, FinalAnswer, SameSession
<1>11. CASE AnswerAuth
  <2>1. PICK r, q : /\ Replies(r) /\ q = Head(sent) /\ q.cmd = "setup" /\ r.sid = server.sid
                    /\ server'.hash = IF server.params.dialect = "smb311"
                                        THEN Append(server.hash, q) ELSE server.hash
                    /\ server'.key = IF policy.mechanism = "anonymous" \/ r.flags \cap {"guest", "null"} # {}
                                       THEN NoKey ELSE Key(server'.hash)
                    /\ r.key = NoKey \/ r.key = server'.key
                    /\ server'.sid = server.sid /\ server'.params = server.params
    BY <1>0, <1>11, AuthIs
  <2>2. Transcripts'
    BY <1>0, <2>1, ServerTranscript
  <2>3. phase' = phase /\ phase \notin {"session", "waiting"} /\ (phase = "setup" => Msgs(inbox') = {r})
    BY <2>1, OnlyAnswer DEF Commands
  <2>4. r.key.set => r.key = server'.key /\ server'.key = Key(server'.hash)
    BY <2>1, Keys
  <2>5. FinalAnswer'
    BY <2>1, <2>3, <2>4 DEF FinalAnswer, Key
  <2> QED BY <2>2, <2>3, <2>5 DEF SameInv, SameSession
<1>12. CASE AnswerCall
  <2>1. PICK r, q : /\ Replies(r) /\ q = Head(sent) /\ q.cmd \in Commands
                    /\ server'.params = server.params /\ server'.hash = server.hash
                    /\ server'.sid = server.sid /\ server'.key = server.key
    BY <1>0, <1>12, CallIs
  <2>2. Transcripts'
    BY <1>0, <2>1, ServerTranscript
  <2>3. phase' = phase /\ phase # "setup"
    BY <2>1, OnlyAnswer DEF Commands
  <2>4. SameSession'
    BY <1>0, <2>1 DEF SameSession, Replies, ClientStays
  <2> QED BY <2>2, <2>3, <2>4 DEF SameInv, FinalAnswer
<1>13. CASE GoAsync
  <2>1. PICK q : /\ q = Head(sent) /\ q.cmd \in Commands /\ sent # << >> /\ ClientStays /\ server' = server
    BY <1>13, AsyncIs
  <2>2. phase' = phase /\ phase # "setup" /\ UNCHANGED <<params, policy, hash, sid, session>>
    <3>1. q \in Msgs(sent)
      BY <1>0, <2>1, MsgsFacts
    <3> QED BY <2>1, <3>1 DEF Traffic, OneMessage, ClientStays, Commands
  <2> QED BY <1>0, <2>1, <2>2 DEF SameInv, Transcripts, ParamsOf, FinalAnswer, SameSession
<1>14. CASE ChangeResponse
  <2>1. \A i \in DOMAIN inbox : "changed" \in DOMAIN inbox[i]
    BY <1>0, MsgsFacts DEF Shape
  <2>2. PICK i, c :
           /\ i \in DOMAIN inbox
           /\ inbox' = [inbox EXCEPT ![i] = c] /\ c.changed = TRUE /\ ClientStays /\ server' = server
    BY <1>14, <2>1, ChangedIs
  <2>3. Msgs(inbox') \subseteq Msgs(inbox) \cup {c}
    BY <1>0, <2>2, MsgsSet
  <2>4. UNCHANGED <<phase, params, policy, hash, sid, session>>
    BY <2>2 DEF ClientStays
  <2>5. FinalAnswer'
    BY <1>0, <2>2, <2>3, <2>4 DEF FinalAnswer, Key
  <2> QED BY <1>0, <2>2, <2>4, <2>5 DEF SameInv, Transcripts, ParamsOf, SameSession
<1>15. CASE ChangeRequest
  <2>1. ClientStays /\ UNCHANGED <<inbox, server>>
    BY <1>15, ChangedRequestIs
  <2> QED BY <1>0, <2>1 DEF ClientStays, SameInv, Transcripts, ParamsOf, FinalAnswer, Key, SameSession
<1> QED BY <1>1, <1>2, <1>3, <1>4, <1>5, <1>6, <1>7, <1>8, <1>9, <1>10, <1>11, <1>12, <1>13, <1>14,
           <1>15 DEF Next, CallStarts

-----------------------------------------------------------------------------
(* A call succeeds with its own answer.                                     *)

\* What every outcome "ok" has been checked for.
LEMMA OutcomeOk ==
  ASSUME request.cmd \in Commands, NEW r, r = Head(inbox), Outcome(Head(inbox)) = "ok"
  PROVE  /\ r.cmd = request.cmd /\ r.mid = request.mid
         /\ request.cmd \in {"tree", "create"} => r.status = "ok"
         /\ session.required => ~r.changed
<1> DEFINE m == Head(inbox)
<1>1. CASE request.cmd = "tree"
  <2>1. TreeOutcome(m) = "ok"
    BY <1>1 DEF Outcome
  <2>2. Correlated(m) /\ m.status = "ok" /\ Verified(m)
    BY <2>1 DEF TreeOutcome
  <2> QED BY <2>2 DEF Correlated, Verified, Valid
<1>2. CASE request.cmd = "create"
  <2>1. CreateOutcome(m) = "ok"
    BY <1>2 DEF Outcome
  <2>2. OnTree(m) /\ m.status = "ok" /\ Verified(m)
    BY <2>1 DEF CreateOutcome
  <2> QED BY <2>2 DEF OnTree, Correlated, Verified, Valid
<1>3. CASE request.cmd = "query"
  <2>1. QueryOutcome(m) = "ok"
    BY <1>3 DEF Outcome
  <2>2. OnTree(m) /\ Verified(m)
    BY <2>1 DEF QueryOutcome
  <2> QED BY <1>3, <2>2 DEF OnTree, Correlated, Verified, Valid
<1>4. CASE request.cmd = "list"
  <2>1. ListOutcome(m) = "ok"
    BY <1>4 DEF Outcome
  <2>2. OnTree(m) /\ Verified(m)
    BY <2>1 DEF ListOutcome, QueryOutcome
  <2> QED BY <1>4, <2>2 DEF OnTree, Correlated, Verified, Valid
<1>5. CASE request.cmd = "set"
  <2>1. SetOutcome(m) = "ok"
    BY <1>5 DEF Outcome
  <2>2. AsyncAccepted(m) /\ Verified(m)
    BY <2>1 DEF SetOutcome
  <2> QED BY <1>5, <2>2 DEF AsyncAccepted, Correlated, Verified, Valid
<1>6. CASE request.cmd = "close"
  <2>1. CloseOutcome(m) = "ok"
    BY <1>6 DEF Outcome
  <2>2. OnTree(m) /\ Verified(m)
    BY <2>1 DEF CloseOutcome
  <2> QED BY <1>6, <2>2 DEF OnTree, Correlated, Verified, Valid
<1> QED BY <1>1, <1>2, <1>3, <1>4, <1>5, <1>6 DEF Commands

CallInv == Answers /\ AcceptedGenuine /\ Trees /\ Files /\ HandlesLive

\* The server answers a request, and carries it out.
LEMMA ReplyCalls ==
  ASSUME Shape, Traffic, CallInv, NEW r, NEW q, Replies(r), q = Head(sent),
         server.trees \subseteq server'.trees,
         r.cmd = "tree" /\ r.status = "ok" => r.tree \in server'.trees,
         r.cmd = "create" /\ r.status = "ok" => r.file = r.mid /\ r.file \in server'.files,
         \A f \in server.files : f \in server'.files \/ (q.cmd = "close" /\ f = q.file)
  PROVE  CallInv'
<1>1. /\ sent # << >> /\ sent' = Tail(sent) /\ inbox' = Append(inbox, r) /\ r.changed = FALSE
      /\ r.mid = q.mid /\ r.answers = q.mid /\ faults' = faults
      /\ UNCHANGED <<phase, session, tree, file, request, result, next>>
  BY DEF Replies, ClientStays
<1>2. IsSeq(sent) /\ IsSeq(inbox)
  BY DEF Shape
<1>3. /\ q \in Msgs(sent) /\ Msgs(sent') \subseteq Msgs(sent)
      /\ Msgs(inbox') = Msgs(inbox) \cup {r}
  BY <1>1, <1>2, MsgsFacts, MsgsAppend
<1>4. Answers /\ AcceptedGenuine /\ Trees /\ Files /\ HandlesLive /\ (Guarded' <=> Guarded)
  BY <1>1 DEF CallInv, Guarded
<1>5. q.mid \in Nat /\ q.mid < next
  BY <1>3, <1>4 DEF Files
<1>6. Answers'
  BY <1>1, <1>3, <1>4, <1>5 DEF Answers
<1>7. AcceptedGenuine'
  BY <1>1, <1>4 DEF AcceptedGenuine
<1>8. Trees'
  BY <1>3, <1>4 DEF Trees
<1>9. ASSUME Guarded
      PROVE  /\ \A c \in Msgs(sent) : c.cmd = "close" =>
                  c.file \in Nat /\ c.file # NoFile /\ c.file < c.mid /\ c.file # file
             /\ \A m \in Msgs(inbox) : ~m.changed /\ m.cmd = "create" /\ m.status = "ok" =>
                  /\ m.file = m.mid
                  /\ phase = "waiting" /\ m.mid = request.mid => m.file \in server.files
             /\ file # NoFile => file \in server.files
             /\ file \in Nat /\ (file # NoFile => file < next)
  BY <1>4, <1>9 DEF Files, HandlesLive, Guarded
<1>10. HandlesLive'
  <2>1. ASSUME Guarded, file # NoFile
        PROVE  file \in server'.files
    BY <1>3, <1>9, <2>1
  <2> QED BY <1>1, <1>4, <2>1 DEF HandlesLive, Guarded
<1>11. ASSUME Guarded, NEW m \in Msgs(inbox'), ~m.changed, m.cmd = "create", m.status = "ok"
       PROVE  /\ m.file = m.mid
              /\ phase = "waiting" /\ m.mid = request.mid => m.file \in server'.files
  <2>1. CASE m = r
    BY <1>11, <2>1
  <2>2. CASE m \in Msgs(inbox)
    <3>1. m.file = m.mid /\ (phase = "waiting" /\ m.mid = request.mid => m.file \in server.files)
      BY <1>9, <1>11, <2>2
    <3>2. ASSUME phase = "waiting", m.mid = request.mid, q.cmd = "close", m.file = q.file
          PROVE  FALSE
      <4>1. q.mid <= request.mid /\ q.file < q.mid /\ q.file \in Nat /\ request.mid \in Nat
        BY <1>3, <1>4, <1>9, <1>11, <3>2 DEF Files
      <4>2. q.file = request.mid
        BY <3>1, <3>2
      <4> QED BY <1>5, <4>1, <4>2
    <3> QED BY <3>1, <3>2
  <2> QED BY <1>3, <1>11, <2>1, <2>2
<1>12. /\ phase = "waiting" => request.mid \in Nat /\ request.mid < next
       /\ \A c \in Msgs(sent) : c.mid \in Nat /\ c.mid < next /\ (phase = "waiting" => c.mid <= request.mid)
       /\ phase \notin {"session", "waiting", "dropped"} => tree = NoTree /\ file = NoFile
  BY <1>4 DEF Files
<1>13. Files'
  BY <1>1, <1>3, <1>4, <1>9, <1>11, <1>12 DEF Files
<1> QED BY <1>6, <1>7, <1>8, <1>10, <1>13 DEF CallInv

\* An answer to a call is taken.
LEMMA AnswerCalls ==
  ASSUME Shape, Traffic, CallInv, ReceiveAnswer
  PROVE  CallInv'
<1>0. PICK r : r = Head(inbox)
  OBVIOUS
<1>1. /\ phase = "waiting" /\ inbox # << >> /\ inbox' = Tail(inbox)
      /\ UNCHANGED <<session, request, next, sent, server, faults>>
      /\ phase' \in {"waiting", "session"}
      /\ \/ UNCHANGED <<phase, result, tree, file>>
         \/ /\ phase' = "session"
            /\ result'.call = request.cmd /\ result'.kind = Outcome(Head(inbox))
            /\ result'.asked = request.mid /\ result'.answers = r.answers
            /\ result'.changed = r.changed
            /\ tree' = IF Outcome(Head(inbox)) = "ok" /\ request.cmd = "tree" THEN r.tree ELSE tree
            /\ file' = IF Outcome(Head(inbox)) = "ok" /\ request.cmd = "create" THEN r.file ELSE file
  BY <1>0, AnswerCases
<1>2. r \in Msgs(inbox) /\ Msgs(inbox') \subseteq Msgs(inbox)
  BY <1>0, <1>1, MsgsFacts DEF Shape
<1>3. Answers /\ AcceptedGenuine /\ Trees /\ Files /\ HandlesLive /\ (Guarded' <=> Guarded)
      /\ request.cmd \in Commands
  BY <1>1 DEF CallInv, Guarded, Traffic
<1>4. Outcome(Head(inbox)) = "ok" =>
        /\ r.cmd = request.cmd /\ r.mid = request.mid
        /\ request.cmd \in {"tree", "create"} => r.status = "ok"
        /\ session.required => ~r.changed
  BY <1>0, <1>3, OutcomeOk
<1>5. ASSUME Outcome(Head(inbox)) = "ok", Guarded
      PROVE  /\ ~r.changed /\ r.answers = request.mid
             /\ request.cmd = "tree" => r.tree \in server.trees
             /\ request.cmd = "create" =>
                  r.file = request.mid /\ r.file \in server.files
  <2>1. ~r.changed
    BY <1>2, <1>3, <1>4, <1>5 DEF Guarded, Answers
  <2>2. r.answers = request.mid
    BY <1>2, <1>3, <1>4, <1>5, <2>1 DEF Answers
  <2>3. request.cmd = "tree" => r.tree \in server.trees
    BY <1>2, <1>3, <1>4, <1>5, <2>1 DEF Trees
  <2>4. request.cmd = "create" => r.file = request.mid /\ r.file \in server.files
    BY <1>1, <1>2, <1>3, <1>4, <1>5, <2>1 DEF Files
  <2> QED BY <2>1, <2>2, <2>3, <2>4
<1>6. Answers'
  BY <1>1, <1>2, <1>3 DEF Answers
<1>7. AcceptedGenuine'
  BY <1>1, <1>3, <1>5 DEF AcceptedGenuine, Guarded
<1>8. Trees'
  BY <1>1, <1>2, <1>3 DEF Trees
<1>9. HandlesLive'
  BY <1>1, <1>3, <1>5 DEF HandlesLive, Guarded
<1>10. /\ request.mid \in Nat /\ request.mid < next
       /\ \A c \in Msgs(sent) : c.mid \in Nat /\ c.mid < next /\ c.mid <= request.mid
       /\ Guarded =>
            /\ file \in Nat /\ (file # NoFile => file < next)
            /\ \A c \in Msgs(sent) : c.cmd = "close" =>
                 c.file \in Nat /\ c.file # NoFile /\ c.file < c.mid /\ c.file # file
            /\ \A m \in Msgs(inbox) : ~m.changed /\ m.cmd = "create" /\ m.status = "ok" =>
                 /\ m.file = m.mid
                 /\ m.mid = request.mid => m.file \in server.files
  BY <1>1, <1>3 DEF Files
<1>11. file' = file \/ (Guarded => file' = request.mid)
  BY <1>1, <1>5
<1>12. ASSUME Guarded
       PROVE  /\ file' \in Nat /\ (file' # NoFile => file' < next)
              /\ \A c \in Msgs(sent) : c.cmd = "close" =>
                   c.file \in Nat /\ c.file # NoFile /\ c.file < c.mid /\ c.file # file'
  <2>1. CASE file' = file
    BY <1>10, <1>12, <2>1
  <2>2. CASE file' = request.mid
    <3>1. ASSUME NEW c \in Msgs(sent), c.cmd = "close"
          PROVE  c.file # request.mid
      <4>1. c.file \in Nat /\ c.file < c.mid /\ c.mid \in Nat /\ c.mid <= request.mid /\ request.mid \in Nat
        BY <1>10, <1>12, <3>1
      <4> QED BY <4>1
    <3> QED BY <1>10, <1>12, <2>2, <3>1
  <2> QED BY <1>11, <1>12, <2>1, <2>2
<1>13. Files'
  BY <1>1, <1>2, <1>3, <1>10, <1>12 DEF Files
<1> QED BY <1>6, <1>7, <1>8, <1>9, <1>13 DEF CallInv

\* Every step keeps answers, trees and files in agreement.
LEMMA CallStep ==
  ASSUME Shape, Traffic, CallInv, Next
  PROVE  CallInv'
<1>0. /\ IsSeq(sent) /\ IsSeq(inbox) /\ ServerShape /\ next \in Nat /\ faults \in Nat
      /\ Answers /\ AcceptedGenuine /\ Trees /\ Files /\ HandlesLive
  BY DEF Shape, CallInv
<1>1. CASE SendNegotiate
  <2>1. PICK q : /\ q.cmd = "negotiate" /\ q.mid = next
                 /\ phase = "new" /\ phase' = "negotiating" /\ next' = next + 1 /\ request' = q
                 /\ sent' = Append(sent, q)
                 /\ UNCHANGED <<session, tree, file, result, inbox, server, faults>>
    BY <1>1, SendNegotiateIs
  <2>2. Msgs(sent') = {q} /\ Msgs(inbox') = {}
    BY <1>0, <2>1, MsgsAppend, MsgsFacts DEF Traffic
  <2>3. tree = NoTree /\ file = NoFile
    BY <1>0, <2>1 DEF Files
  <2>4. Files'
    BY <1>0, <2>1, <2>2, <2>3 DEF Files, NoFile
  <2> QED BY <1>0, <2>1, <2>2, <2>4 DEF CallInv, Answers, AcceptedGenuine, Trees, HandlesLive
<1>2. CASE StartSetup
  <2>1. /\ phase = "negotiated" /\ phase' = "round"
        /\ UNCHANGED <<session, tree, file, request, result, next, sent, inbox, server, faults>>
    BY <1>2, StartSetupIs
  <2>2. Msgs(sent') = {} /\ Msgs(inbox') = {}
    BY <1>0, <2>1, MsgsFacts DEF Traffic
  <2> QED BY <1>0, <2>1, <2>2 DEF CallInv, Answers, AcceptedGenuine, Trees, HandlesLive, Files, Guarded
<1>3. CASE CallStarts
  <2>1. /\ phase = "session" /\ UNCHANGED <<session, tree, inbox, server, faults>>
    BY <1>3, CallStartIs DEF CallQuiet
  <2>2. PICK cmd, key, q :
              /\ cmd \in Commands /\ key \in {TreeSigningKey, SigningKey}
              /\ Calling(cmd, key) /\ file' = IF cmd = "close" THEN NoFile ELSE file
              /\ \/ /\ result'.kind \in {"unsupported", "credits"}
                    /\ UNCHANGED <<phase, request, asyncId, next, sent>>
                 \/ CallSent(q, cmd, key)
    BY <1>3, CallStartIs
  <2>3. Trees' /\ HandlesLive' /\ (Guarded' <=> Guarded)
    BY <1>0, <2>1, <2>2 DEF Trees, HandlesLive, Guarded
  <2>4. /\ \A c \in Msgs(sent) : c.mid \in Nat /\ c.mid < next
        /\ Guarded =>
             /\ file \in Nat /\ (file # NoFile => file < next)
             /\ \A c \in Msgs(sent) : c.cmd = "close" =>
                  c.file \in Nat /\ c.file # NoFile /\ c.file < c.mid /\ c.file # file
             /\ \A m \in Msgs(inbox) : ~m.changed /\ m.cmd = "create" /\ m.status = "ok" => m.file = m.mid
    BY <1>0 DEF Files
  <2>5. CASE /\ result'.kind \in {"unsupported", "credits"}
             /\ UNCHANGED <<phase, request, asyncId, next, sent>>
    <3>1. Answers'
      BY <1>0, <2>1, <2>5 DEF Answers
    <3>2. AcceptedGenuine'
      BY <2>5 DEF AcceptedGenuine
    <3>3. Guarded => /\ file' \in Nat /\ (file' # NoFile => file' < next)
                     /\ \A c \in Msgs(sent) : c.cmd = "close" => c.file # file'
      BY <2>2, <2>4 DEF NoFile
    <3>4. Files'
      BY <2>1, <2>3, <2>4, <2>5, <3>3 DEF Files
    <3> QED BY <2>3, <3>1, <3>2, <3>4 DEF CallInv
  <2>6. CASE CallSent(q, cmd, key)
    <3>1. /\ q.cmd = cmd /\ q.mid = next /\ q.file = file /\ phase' = "waiting" /\ next' = next + 1
          /\ result' = result /\ request' = q /\ sent' = Append(sent, q)
      BY <2>6 DEF CallSent
    <3>2. Msgs(sent') = Msgs(sent) \cup {q}
      BY <1>0, <3>1, MsgsAppend
    <3>3. Answers'
      BY <1>0, <2>1, <3>1 DEF Answers
    <3>4. AcceptedGenuine'
      BY <1>0, <2>1, <3>1 DEF AcceptedGenuine
    <3>5. \A c \in Msgs(sent') : c.mid \in Nat /\ c.mid < next' /\ c.mid <= request'.mid
      BY <1>0, <2>4, <3>1, <3>2
    <3>6. cmd = "close" => file # NoFile
      BY <2>2 DEF Calling
    <3>7. ASSUME Guarded
          PROVE  /\ file' \in Nat /\ (file' # NoFile => file' < next')
                 /\ \A c \in Msgs(sent') : c.cmd = "close" =>
                      c.file \in Nat /\ c.file # NoFile /\ c.file < c.mid /\ c.file # file'
      <4>1. file' \in Nat /\ (file' # NoFile => file' < next')
        BY <1>0, <2>2, <2>4, <3>1, <3>7 DEF NoFile
      <4>2. ASSUME NEW c \in Msgs(sent), c.cmd = "close"
            PROVE  c.file \in Nat /\ c.file # NoFile /\ c.file < c.mid /\ c.file # file'
        BY <2>2, <2>4, <3>7, <4>2
      <4>3. ASSUME q.cmd = "close"
            PROVE  q.file \in Nat /\ q.file # NoFile /\ q.file < q.mid /\ q.file # file'
        BY <2>2, <2>4, <3>1, <3>6, <3>7, <4>3
      <4> QED BY <3>2, <4>1, <4>2, <4>3
    <3>8. ASSUME Guarded, NEW m \in Msgs(inbox), ~m.changed, m.cmd = "create", m.status = "ok"
          PROVE  m.file = m.mid /\ m.mid # request'.mid
      <4>1. m.mid \in Nat /\ m.mid < next
        BY <1>0, <3>8 DEF Answers
      <4> QED BY <1>0, <2>4, <3>1, <3>8, <4>1
    <3>9. Files'
      BY <1>0, <2>1, <2>3, <3>1, <3>5, <3>7, <3>8 DEF Files
    <3> QED BY <2>3, <3>3, <3>4, <3>9 DEF CallInv
  <2> QED BY <2>2, <2>5, <2>6
<1>4. CASE ReceiveNegotiate
  <2>1. /\ phase = "negotiating" /\ inbox # << >> /\ inbox' = Tail(inbox)
        /\ UNCHANGED <<session, tree, file, request, next, sent, server, faults>>
        /\ phase' \in {"dropped", "negotiated"}
        /\ result'.kind # "ok" \/ result'.call = request.cmd
    BY <1>4, NegotiateCases
  <2>2. sent = << >> /\ Tail(inbox) = << >> /\ request.cmd = "negotiate"
    BY <1>0, <2>1, MsgsFacts DEF Traffic, OneMessage
  <2>3. Msgs(sent') = {} /\ Msgs(inbox') = {}
    BY <1>0, <2>1, <2>2, MsgsFacts, NoSeq
  <2>4. AcceptedGenuine'
    BY <2>1, <2>2 DEF AcceptedGenuine, Commands
  <2> QED BY <1>0, <2>1, <2>3, <2>4 DEF CallInv, Answers, Trees, HandlesLive, Files, Guarded
<1>5. CASE SendSetup
  <2>1. /\ phase = "round" /\ UNCHANGED <<session, tree, file, inbox, server, faults>>
        /\ phase' = "dropped" \/ phase' = "setup"
        /\ phase' = "dropped" => UNCHANGED <<next, request, sent>> /\ result'.kind # "ok"
    BY <1>5, SendSetupCases
  <2>2. Msgs(sent) = {} /\ Msgs(inbox) = {} /\ sent = << >>
    BY <1>0, <2>1, MsgsFacts DEF Traffic
  <2>3. Answers' /\ Trees' /\ HandlesLive' /\ tree = NoTree /\ file = NoFile
    BY <1>0, <2>1, <2>2 DEF Answers, Trees, HandlesLive, Files
  <2>4. CASE phase' = "dropped"
    <3>1. AcceptedGenuine'
      BY <2>1, <2>4 DEF AcceptedGenuine
    <3>2. Files'
      BY <1>0, <2>1, <2>2, <2>3, <2>4 DEF Files, NoFile
    <3> QED BY <2>3, <3>1, <3>2 DEF CallInv
  <2>5. CASE phase' = "setup"
    <3>1. PICK q : /\ q.cmd = "setup" /\ q.mid = next /\ next' = next + 1 /\ request' = q
                   /\ result' = result /\ sent' = Append(sent, q)
      BY <1>5, <2>5, SetupSent
    <3>2. Msgs(sent') = {q}
      BY <1>0, <2>2, <3>1, MsgsAppend
    <3>3. AcceptedGenuine'
      BY <1>0, <2>1, <3>1 DEF AcceptedGenuine
    <3>4. Files'
      BY <1>0, <2>1, <2>2, <2>3, <2>5, <3>1, <3>2 DEF Files, NoFile
    <3> QED BY <2>3, <3>3, <3>4 DEF CallInv
  <2> QED BY <2>1, <2>4, <2>5
<1>6. CASE ReceiveSetup
  <2>1. /\ phase = "setup" /\ inbox # << >> /\ inbox' = Tail(inbox)
        /\ UNCHANGED <<tree, file, request, next, sent, server, faults>>
        /\ phase' \in {"dropped", "round", "session"}
        /\ result'.kind # "ok" \/ result'.call = request.cmd \/ UNCHANGED <<result, session>>
    BY <1>6, SetupCases
  <2>2. sent = << >> /\ Tail(inbox) = << >> /\ request.cmd = "setup"
    BY <1>0, <2>1, MsgsFacts DEF Traffic, OneMessage
  <2>3. Msgs(sent') = {} /\ Msgs(inbox') = {}
    BY <1>0, <2>1, <2>2, MsgsFacts, NoSeq
  <2>4. AcceptedGenuine'
    BY <1>0, <2>1, <2>2 DEF AcceptedGenuine, Commands
  <2>5. tree = NoTree /\ file = NoFile
    BY <1>0, <2>1 DEF Files
  <2>6. Files'
    BY <1>0, <2>1, <2>3, <2>5 DEF Files, NoFile
  <2> QED BY <2>1, <2>3, <2>4, <2>5, <2>6 DEF CallInv, Answers, Trees, HandlesLive
<1>7. CASE ReceiveAnswer
  BY <1>7, AnswerCalls
<1>8. CASE GiveUp
  <2>1. /\ phase \in {"negotiating", "setup", "waiting"}
        /\ phase' = IF phase = "waiting" THEN "session" ELSE "dropped"
        /\ result'.kind = "timeout"
        /\ UNCHANGED <<session, tree, file, request, next, sent, inbox, server, faults>>
    BY <1>8, GiveUpCases
  <2>2. AcceptedGenuine'
    BY <2>1 DEF AcceptedGenuine
  <2> QED BY <1>0, <2>1, <2>2 DEF CallInv, Answers, Trees, HandlesLive, Files, Guarded
<1>9. CASE Refuse
  <2>1. PICK r, q : Replies(r) /\ q = Head(sent) /\ server' = server /\ r.status = "error"
    BY <1>9, RefuseIs
  <2> QED BY <2>1, ReplyCalls
<1>10. CASE AnswerNegotiate \/ AnswerInit \/ AnswerAuth
  <2>1. PICK r, q : /\ Replies(r) /\ q = Head(sent) /\ q.cmd \in {"negotiate", "setup"}
                    /\ server'.trees = server.trees /\ server'.files = server.files
    <3>1. CASE AnswerNegotiate
      BY <1>0, <3>1, NegotiateIs
    <3>2. CASE AnswerInit
      BY <1>0, <3>2, InitIs
    <3>3. CASE AnswerAuth
      BY <1>0, <3>3, AuthIs
    <3> QED BY <1>10, <3>1, <3>2, <3>3
  <2>2. r.cmd = q.cmd
    BY <2>1 DEF Replies
  <2> QED BY <2>1, <2>2, ReplyCalls
<1>11. CASE AnswerCall
  <2>1. PICK r, q : /\ Replies(r) /\ q = Head(sent) /\ q.cmd \in Commands
                    /\ r.tree = IF q.cmd = "tree" THEN q.mid ELSE q.tree
                    /\ r.file = IF q.cmd = "create" THEN q.mid ELSE NoFile
                    /\ server'.trees = IF q.cmd = "tree" THEN server.trees \cup {q.mid} ELSE server.trees
                    /\ server'.files = CASE q.cmd = "create" -> server.files \cup {q.mid}
                                         [] q.cmd = "close" -> server.files \ {q.file}
                                         [] OTHER -> server.files
    BY <1>0, <1>11, CallIs
  <2>2. r.cmd = q.cmd /\ r.mid = q.mid
    BY <2>1 DEF Replies
  <2>3. r.cmd = "tree" => r.tree \in server'.trees
    BY <2>1, <2>2
  <2>4. r.cmd = "create" => r.file = r.mid /\ r.file \in server'.files
    BY <2>1, <2>2
  <2>5. \A f \in server.files : f \in server'.files \/ (q.cmd = "close" /\ f = q.file)
    BY <2>1
  <2>6. server.trees \subseteq server'.trees
    BY <2>1
  <2> QED BY <2>1, <2>3, <2>4, <2>5, <2>6, ReplyCalls
<1>12. CASE GoAsync
  <2>1. PICK r, q : /\ q = Head(sent) /\ q.cmd \in Commands /\ q.token = "none" /\ Genuine(q)
                    /\ phase # "dropped" /\ sent # << >>
                    /\ sent' = [sent EXCEPT ![1] = [sent[1] EXCEPT !.token = "async"]]
                    /\ inbox' = Append(inbox, r) /\ ClientStays /\ UNCHANGED <<server, faults>>
                    /\ "changed" \in DOMAIN r /\ r.changed = FALSE /\ r.body = TRUE
                    /\ r.cmd = q.cmd /\ r.mid = q.mid /\ r.answers = q.mid
                    /\ r.status = "pending" /\ r.sid = server.sid /\ r.form = "a1" /\ r.tree = q.tree
                    /\ r.key = q.key \/ r.key = NoKey
    BY <1>12, AsyncIs, Zenon
  <2>2. PICK c : c = [q EXCEPT !["token"] = "async"]
    OBVIOUS
  <2>3. q = sent[1] /\ q \in Msgs(sent) /\ 1 \in DOMAIN sent
    BY <1>0, <2>1, SeqFacts, MsgsFacts
  <2>4. sent' = [sent EXCEPT ![1] = c]
    BY <2>1, <2>2, <2>3
  <2>5. c.cmd = q.cmd /\ c.mid = q.mid /\ c.file = q.file
    <3>1. ReqShape(q)
      BY <2>3 DEF Shape
    <3> QED BY <2>2, <3>1, MarkedIs
  <2>6. Msgs(sent') \subseteq Msgs(sent) \cup {c} /\ Msgs(inbox') = Msgs(inbox) \cup {r}
    <3>1. Msgs(sent') \subseteq Msgs(sent) \cup {c}
      BY <1>0, <2>3, <2>4, MsgsSet
    <3>2. Msgs(inbox') = Msgs(inbox) \cup {r}
      <4>1. inbox' = Append(inbox, r)
        BY <2>1
      <4> QED BY <1>0, <4>1, MsgsAppend
    <3> QED BY <3>1, <3>2
  <2>7. UNCHANGED <<phase, session, tree, file, request, result, next>>
    BY <2>1 DEF ClientStays
  <2>8. q.mid \in Nat /\ q.mid < next /\ (phase = "waiting" => q.mid <= request.mid)
    BY <1>0, <2>3 DEF Files
  <2>9. Answers'
    BY <1>0, <2>1, <2>6, <2>7, <2>8 DEF Answers
  <2>10. AcceptedGenuine' /\ HandlesLive'
    BY <1>0, <2>1, <2>7 DEF AcceptedGenuine, HandlesLive
  <2>11. Trees'
    BY <1>0, <2>1, <2>6 DEF Trees
  <2>12. Files'
    BY <1>0, <2>1, <2>3, <2>5, <2>6, <2>7, <2>8 DEF Files, Guarded
  <2> QED BY <2>9, <2>10, <2>11, <2>12 DEF CallInv
<1>13. CASE ChangeResponse
  <2>1. \A i \in DOMAIN inbox : "changed" \in DOMAIN inbox[i]
    BY <1>0, MsgsFacts DEF Shape
  <2>2. PICK i, c :
           /\ i \in DOMAIN inbox
           /\ inbox' = [inbox EXCEPT ![i] = c] /\ c.changed = TRUE /\ ClientStays
           /\ UNCHANGED <<sent, server>> /\ faults' = faults + 1
    BY <1>13, <2>1, ChangedIs
  <2>3. Msgs(inbox') \subseteq Msgs(inbox) \cup {c}
    BY <1>0, <2>2, MsgsSet
  <2>4. UNCHANGED <<phase, session, tree, file, request, result, next>> /\ (Guarded' => Guarded)
        /\ faults' # 0
    BY <1>0, <2>2 DEF ClientStays, Guarded
  <2>5. Answers'
    BY <1>0, <2>2, <2>3, <2>4 DEF Answers
  <2>6. AcceptedGenuine' /\ HandlesLive'
    BY <1>0, <2>2, <2>4 DEF AcceptedGenuine, HandlesLive
  <2>7. Trees'
    BY <1>0, <2>2, <2>3 DEF Trees
  <2>8. Files'
    BY <1>0, <2>2, <2>3, <2>4 DEF Files
  <2> QED BY <2>5, <2>6, <2>7, <2>8 DEF CallInv
<1>14. CASE ChangeRequest
  <2>1. PICK i \in DOMAIN sent :
           /\ sent' = [sent EXCEPT ![i] = [sent[i] EXCEPT !.changed = TRUE]]
           /\ ClientStays /\ UNCHANGED <<inbox, server>> /\ faults' = faults + 1
    BY <1>14, ChangedRequestIs
  <2>2. PICK q : q = sent[i] /\ q \in Msgs(sent)
    BY <1>0, MsgsFacts
  <2>3. PICK v : v = TRUE
    OBVIOUS
  <2>4. PICK c : c = [q EXCEPT !["changed"] = v]
    OBVIOUS
  <2>5. sent' = [sent EXCEPT ![i] = c]
    BY <2>1, <2>2, <2>3, <2>4
  <2>6. c.cmd = q.cmd /\ c.mid = q.mid /\ c.file = q.file
    <3>1. ReqShape(q)
      BY <2>2 DEF Shape
    <3> QED BY <2>4, <3>1, MarkedIs
  <2>7. Msgs(sent') \subseteq Msgs(sent) \cup {c}
    BY <1>0, <2>5, MsgsSet
  <2>8. UNCHANGED <<phase, session, tree, file, request, result, next>> /\ (Guarded' => Guarded)
        /\ faults' # 0
    BY <1>0, <2>1 DEF ClientStays, Guarded
  <2>9. Answers'
    BY <1>0, <2>1, <2>8 DEF Answers
  <2>10. AcceptedGenuine' /\ HandlesLive' /\ Trees'
    BY <1>0, <2>1, <2>8 DEF AcceptedGenuine, HandlesLive, Trees
  <2>11. Files'
    <3>1. Files /\ UNCHANGED <<inbox, server>>
      BY <1>0, <2>1
    <3>2. ASSUME NEW m \in Msgs(sent')
          PROVE  m.mid \in Nat /\ m.mid < next /\ (phase = "waiting" => m.mid <= request.mid)
                 /\ (Guarded /\ m.cmd = "close" =>
                       m.file \in Nat /\ m.file # NoFile /\ m.file < m.mid /\ m.file # file)
      <4>1. PICK d \in Msgs(sent) : m.cmd = d.cmd /\ m.mid = d.mid /\ m.file = d.file
        BY <2>2, <2>6, <2>7, <3>2
      <4> QED BY <3>1, <4>1 DEF Files
    <3> QED BY <2>8, <3>1, <3>2 DEF Files
  <2> QED BY <2>9, <2>10, <2>11 DEF CallInv
<1> QED BY <1>1, <1>2, <1>3, <1>4, <1>5, <1>6, <1>7, <1>8, <1>9, <1>10, <1>11, <1>12, <1>13, <1>14
        DEF Next, CallStarts

-----------------------------------------------------------------------------
(* Nothing is refused that should not be.                                   *)

\* Two messages.
LEMMA SeqTwo ==
  ASSUME NEW a, NEW b
  PROVE  Append(<<a>>, b) = <<a, b>>
<1>1. <<a>> \in Seq({a, b}) /\ <<b>> \in Seq({a, b}) /\ <<a, b>> \in Seq({a, b})
  OBVIOUS
<1>2. Append(<<a>>, b) \in Seq({a, b}) /\ Len(Append(<<a>>, b)) = 2
  BY <1>1
<1>3. Append(<<a>>, b)[1] = a /\ Append(<<a>>, b)[2] = b
  BY <1>1
<1>4. Len(<<a, b>>) = 2 /\ <<a, b>>[1] = a /\ <<a, b>>[2] = b
  OBVIOUS
<1>5. \A i \in 1 .. 2 : Append(<<a>>, b)[i] = <<a, b>>[i]
  BY <1>3, <1>4
<1> QED BY <1>1, <1>2, <1>4, <1>5, SeqEqual

\* NEGOTIATE is the first message of the transcript.
LEMMA HealthySendNegotiate ==
  ASSUME Shape, Traffic, HealthyState, SendNegotiate
  PROVE  HealthyState'
<1>1. PICK q : /\ phase = "new" /\ phase' = "negotiating" /\ next' = next + 1 /\ request' = q
               /\ sent' = Append(sent, q)
               /\ hash' = IF "smb311" \in Offered THEN <<q>> ELSE << >>
               /\ UNCHANGED <<provider, rounds, sid, result, inbox, server>>
  BY SendNegotiateIs
<1>2. Msgs(sent') = {q} /\ Msgs(inbox') = {}
  BY <1>1, MsgsAppend, MsgsFacts DEF Traffic, Shape
<1>3. next' > 0
  BY <1>1 DEF Shape
<1>4. provider = "new" /\ rounds = 0 /\ sid = 0 /\ server.sid = 0
  BY <1>1 DEF HealthyState, HealthyNegotiation
<1>5. HealthyNegotiation'
  BY <1>1, <1>2, <1>3, <1>4 DEF HealthyNegotiation
<1>6. HealthySetup' /\ HealthySession'
  BY <1>1 DEF HealthySetup, HealthySession
<1> QED BY <1>1, <1>5, <1>6 DEF HealthyState

\* What the server chose is what was offered, and taken.
LEMMA HealthyReceiveNegotiate ==
  ASSUME Shape, Traffic, HealthyState, ReceiveNegotiate
  PROVE  HealthyState'
<1>1. PICK r : r = Head(inbox)
  OBVIOUS
<1>2. /\ phase = "negotiating" /\ inbox # << >> /\ inbox' = Tail(inbox)
      /\ UNCHANGED <<policy, provider, rounds, sid, next, server>>
      /\ \/ /\ phase' = "dropped"
            /\ result'.kind = "protocol" => ~NegotiateAccepted(Head(inbox)) /\
                 ~(r.mid = request.mid /\ r.status # "ok")
         \/ /\ phase' = "negotiated" /\ NegotiateAccepted(Head(inbox))
            /\ ~(r.mid = request.mid /\ r.status # "ok")
            /\ params' = [dialect |-> r.dialect, requires |-> r.requires \/ policy.requires]
            /\ hash' = IF r.dialect = "smb311" THEN Append(hash, r) ELSE << >>
            /\ result'.kind = "ok"
  BY <1>1, NegotiateCases
<1>3. r \in Msgs(inbox)
  BY <1>1, <1>2, MsgsFacts DEF Shape
<1>4. /\ provider = "new" /\ rounds = 0 /\ sid = 0 /\ server.sid = 0 /\ next > 0
      /\ hash = IF "smb311" \in Offered THEN <<request>> ELSE << >>
      /\ r.cmd = request.cmd /\ r.mid = request.mid /\ r.body = TRUE
      /\ r.status = "ok" =>
           /\ r.dialect \in Offered /\ r.credits > 0 /\ server.params = ParamsOf(r)
           /\ server.hash = IF r.dialect = "smb311" THEN <<request, r>> ELSE << >>
  BY <1>2, <1>3 DEF HealthyState, HealthyNegotiation, To
<1>5. request.cmd = "negotiate"
  BY <1>2 DEF Traffic, OneMessage
<1>6. r.status = "ok" => NegotiateAccepted(Head(inbox))
  BY <1>1, <1>4, <1>5 DEF NegotiateAccepted
<1>7. CASE phase' = "dropped"
  <2>1. result'.kind # "protocol"
    BY <1>2, <1>4, <1>6, <1>7
  <2> QED BY <1>7, <2>1 DEF HealthyState, HealthyNegotiation, HealthySetup, HealthySession
<1>8. CASE phase' # "dropped"
  <2>1. /\ phase' = "negotiated" /\ r.status = "ok" /\ result'.kind = "ok"
        /\ params' = [dialect |-> r.dialect, requires |-> r.requires \/ policy.requires]
        /\ hash' = IF r.dialect = "smb311" THEN Append(hash, r) ELSE << >>
    BY <1>2, <1>4, <1>8
  <2>2. params' = server.params
    BY <1>4, <2>1 DEF ParamsOf
  <2>3. Append(<<request>>, r) = <<request, r>>
    BY SeqTwo
  <2>4. hash' = server.hash
    BY <1>4, <2>1, <2>3
  <2>5. HealthyNegotiation'
    BY <1>2, <1>4, <2>1, <2>2, <2>4 DEF HealthyNegotiation, Agreed
  <2> QED BY <2>1, <2>5 DEF HealthyState, HealthySetup, HealthySession
<1> QED BY <1>7, <1>8

\* The server chooses a dialect that was offered and grants a credit.
LEMMA HealthyAnswerNegotiate ==
  ASSUME Shape, Traffic, HealthyState, AnswerNegotiate, 0 \notin InitialCredits
  PROVE  HealthyState'
<1>1. PICK r, q : /\ Replies(r) /\ q = Head(sent) /\ q.cmd = "negotiate" /\ r.status = "ok"
                  /\ r.dialect \in Offered /\ r.credits \in InitialCredits /\ r.key = NoKey
                  /\ server'.params = [dialect |-> r.dialect, requires |-> r.requires \/ policy.requires]
                  /\ server'.hash = IF r.dialect = "smb311" THEN <<q, r>> ELSE << >>
                  /\ server'.sid = server.sid
  BY NegotiateIs DEF Shape
<1>2. /\ UNCHANGED <<phase, policy, provider, rounds, sid, next, hash, request, result>>
      /\ r.cmd = q.cmd /\ r.mid = q.mid /\ r.body = TRUE /\ r.changed = FALSE
  BY <1>1 DEF Replies, ClientStays
<1>3. phase \notin {"new", "negotiated", "round", "setup", "session", "waiting"} /\ q \in Msgs(sent)
      /\ (phase = "negotiating" => Msgs(inbox') = {r} /\ Msgs(sent') = {})
  BY <1>1, OnlyAnswer DEF Commands
<1>4. r.credits > 0
  <2>1. PICK n : n = r.credits
    OBVIOUS
  <2>2. n \in Nat /\ n # 0
    BY <1>1, <2>1, SessionLimits
  <2> QED BY <2>1, <2>2
<1>5. ASSUME phase = "negotiating"
      PROVE  HealthyNegotiation'
  <2>1. /\ provider = "new" /\ rounds = 0 /\ sid = 0 /\ server.sid = 0 /\ next > 0 /\ q = request
        /\ hash = IF "smb311" \in Offered THEN <<request>> ELSE << >>
    BY <1>3, <1>5 DEF HealthyState, HealthyNegotiation
  <2>2. To(r, NoKey)'
    BY <1>1, <1>2, <2>1 DEF To
  <2>3. server'.params = ParamsOf(r)'
    BY <1>1, <1>2 DEF ParamsOf
  <2>4. server'.hash = IF r.dialect = "smb311" THEN <<request', r>> ELSE << >>
    BY <1>1, <1>2, <2>1
  <2> QED BY <1>1, <1>2, <1>3, <1>4, <1>5, <2>1, <2>2, <2>3, <2>4 DEF HealthyNegotiation
<1>6. HealthyNegotiation'
  BY <1>2, <1>3, <1>5 DEF HealthyNegotiation
<1> QED BY <1>2, <1>3, <1>6 DEF HealthyState, HealthySetup, HealthySession

\* The provider is asked for its first token.
LEMMA HealthyStartSetup ==
  ASSUME Shape, HealthyState, StartSetup
  PROVE  HealthyState'
<1>1. /\ phase = "negotiated" /\ phase' = "round" /\ provider' = "sent" /\ token' = "init"
      /\ UNCHANGED <<params, hash, rounds, sid, result, next, server>>
  BY StartSetupIs
<1>2. rounds = 0 /\ sid = 0 /\ Agreed /\ hash = server.hash /\ next > 0
  BY <1>1 DEF HealthyState, HealthyNegotiation
<1>3. Round(token, rounds)'
  BY <1>1, <1>2 DEF Round
<1>4. HealthySetup'
  BY <1>1, <1>2, <1>3 DEF HealthySetup, Agreed
<1> QED BY <1>1, <1>4 DEF HealthyState, HealthyNegotiation, HealthySession

\* There are rounds enough.
LEMMA HealthySendSetup ==
  ASSUME Shape, Traffic, HealthyState, SendSetup, MaxRounds >= 2
  PROVE  HealthyState'
<1>1. /\ phase = "round" /\ UNCHANGED <<params, provider, sid, inbox, server>>
      /\ phase' = "dropped" \/ phase' = "setup"
      /\ phase' = "dropped" /\ result'.kind = "protocol" => rounds = MaxRounds
  BY SendSetupCases
<1>2. Round(token, rounds) /\ Agreed /\ hash = server.hash /\ next > 0
  BY <1>1 DEF HealthyState, HealthySetup
<1>3. rounds = 0 \/ rounds = 1
  BY <1>2 DEF Round
<1>4. CASE phase' = "dropped"
  <2>1. result'.kind # "protocol"
    BY <1>1, <1>3, <1>4, SessionLimits
  <2> QED BY <1>4, <2>1 DEF HealthyState, HealthyNegotiation, HealthySetup, HealthySession
<1>5. CASE phase' = "setup"
  <2>1. PICK q : /\ q.token = token /\ rounds' = rounds + 1 /\ next' = next + 1 /\ request' = q
                 /\ result' = result /\ sent' = Append(sent, q)
                 /\ hash' = IF params.dialect = "smb311" THEN Append(hash, q) ELSE hash
    BY <1>5, SetupSent
  <2>2. Msgs(sent') = {q} /\ Msgs(inbox') = {}
    BY <1>1, <2>1, MsgsAppend, MsgsFacts DEF Traffic, Shape
  <2>3. rounds' - 1 = rounds /\ rounds' \in {1, 2}
    BY <1>3, <2>1
  <2>4. Round(request.token, rounds - 1)'
    BY <1>1, <1>2, <2>1, <2>3 DEF Round
  <2>5. params' = server'.params /\ sid' = server'.sid
    BY <1>1, <1>2 DEF Agreed
  <2>6. hash' = Hashed(server.hash, request)'
    BY <1>1, <1>2, <2>1 DEF Hashed
  <2>7. next' > 0
    BY <1>2, <2>1 DEF Shape
  <2>8. HealthySetup'
    BY <1>5, <2>1, <2>2, <2>3, <2>4, <2>5, <2>6, <2>7 DEF HealthySetup
  <2>9. result'.kind # "protocol"
    BY <2>1 DEF HealthyState
  <2> QED BY <1>5, <2>8, <2>9 DEF HealthyState, HealthyNegotiation, HealthySession
<1> QED BY <1>1, <1>4, <1>5

\* What the client has sent is what the server answers.
LEMMA HealthyFirst ==
  ASSUME Shape, Traffic, HealthyState, NEW r, NEW q, Replies(r), q = Head(sent), q.cmd = "setup"
  PROVE  /\ phase' = phase /\ phase \notin {"new", "negotiating", "negotiated", "round", "session", "waiting"}
         /\ phase = "setup" =>
              /\ Msgs(inbox') = {r} /\ Msgs(sent') = {} /\ q = request /\ sid = server.sid
              /\ q.key = NoKey
              /\ hash = Hashed(server.hash, request)
              /\ Round(request.token, rounds - 1) /\ rounds \in {1, 2} /\ params = server.params
              /\ next > 0
<1>1. /\ phase' = phase /\ phase \notin {"new", "negotiating", "negotiated", "round", "session", "waiting"}
      /\ q \in Msgs(sent)
      /\ phase = "setup" => Msgs(inbox') = {r} /\ Msgs(sent') = {} /\ q.key = NoKey
  BY OnlyAnswer DEF Commands
<1> QED BY <1>1 DEF HealthyState, HealthySetup

\* The server answers the first round with a challenge and a SessionId.
LEMMA HealthyAnswerInit ==
  ASSUME Shape, Traffic, Transcripts, HealthyState, AnswerInit
  PROVE  HealthyState'
<1>1. PICK r, q : /\ Replies(r) /\ q = Head(sent) /\ q.cmd = "setup" /\ q.token = "init"
                  /\ r.status = "more" /\ r.sid = 1 /\ r.blob = "challenge" /\ r.key = NoKey
                  /\ server'.hash = IF server.params.dialect = "smb311"
                                      THEN Append(server.hash, q) \o <<r>> ELSE << >>
                  /\ server'.sid = 1 /\ server'.params = server.params
  BY InitIs DEF Shape
<1>2. /\ UNCHANGED <<phase, provider, rounds, sid, next, hash, params, request, result>>
      /\ r.cmd = q.cmd /\ r.mid = q.mid /\ r.body = TRUE /\ r.changed = FALSE
  BY <1>1 DEF Replies, ClientStays
<1>3. /\ phase \notin {"new", "negotiating", "negotiated", "round", "session", "waiting"}
      /\ phase = "setup" =>
              /\ Msgs(inbox') = {r} /\ Msgs(sent') = {} /\ q = request
              /\ hash = Hashed(server.hash, request)
              /\ Round(request.token, rounds - 1) /\ rounds \in {1, 2} /\ params = server.params
              /\ next > 0
  BY <1>1, HealthyFirst
<1>4. ASSUME phase = "setup"
      PROVE  HealthySetup'
  <2>1. To(r, NoKey)'
    BY <1>1, <1>2, <1>3, <1>4 DEF To
  <2>2. server'.hash = Hashed(hash, r)'
    <3>1. hash = IF params.dialect = "smb311" THEN Append(server.hash, q) ELSE server.hash
      BY <1>3, <1>4 DEF Hashed
    <3>2. IsSeq(Append(server.hash, q))
      BY SeqAppend DEF Shape
    <3>3. Append(server.hash, q) \o <<r>> = Append(Append(server.hash, q), r)
      BY <3>2, SeqThen
    <3>4. params.dialect # "smb311" => server.hash = << >>
      BY <1>3, <1>4 DEF Transcripts
    <3>5. server'.hash = IF params.dialect = "smb311" THEN Append(hash, r) ELSE hash
      BY <1>1, <1>3, <1>4, <3>1, <3>3, <3>4
    <3> QED BY <1>2, <3>5 DEF Hashed
  <2>3. Round(request.token, rounds - 1)'
    BY <1>2, <1>3, <1>4 DEF Round
  <2>4. request'.token = "init" /\ params' = server'.params /\ next' > 0 /\ rounds' \in {1, 2}
    BY <1>1, <1>2, <1>3, <1>4
  <2>5. Msgs(sent') = {} /\ Msgs(inbox') = {r}
    BY <1>3, <1>4
  <2> QED BY <1>1, <1>2, <1>4, <2>1, <2>2, <2>3, <2>4, <2>5 DEF HealthySetup
<1>5. HealthySetup'
  BY <1>2, <1>3, <1>4 DEF HealthySetup
<1> QED BY <1>2, <1>3, <1>5 DEF HealthyState, HealthyNegotiation, HealthySession

\* The server answers the second round, signed where it must.
LEMMA HealthyAnswerAuth ==
  ASSUME Shape, Traffic, HealthyState, AnswerAuth
  PROVE  HealthyState'
<1>1. PICK r, q : /\ Replies(r) /\ q = Head(sent) /\ q.cmd = "setup" /\ q.token = "auth"
                  /\ r.status = "ok" /\ r.sid = server.sid
                  /\ server'.hash = IF server.params.dialect = "smb311"
                                      THEN Append(server.hash, q) ELSE server.hash
                  /\ server'.key = IF policy.mechanism = "anonymous" \/ r.flags \cap {"guest", "null"} # {}
                                     THEN NoKey ELSE Key(server'.hash)
                  /\ r.key = NoKey \/ r.key = server'.key
                  /\ server.params.dialect = "smb311" \/ server.params.requires => r.key = server'.key
                  /\ server'.sid = server.sid /\ server'.params = server.params
  BY AuthIs DEF Shape
<1>2. /\ UNCHANGED <<policy, phase, provider, rounds, sid, next, hash, params, request, result>>
      /\ r.cmd = q.cmd /\ r.mid = q.mid /\ r.body = TRUE /\ r.changed = FALSE
  BY <1>1 DEF Replies, ClientStays
<1>3. /\ phase \notin {"new", "negotiating", "negotiated", "round", "session", "waiting"}
      /\ phase = "setup" =>
              /\ Msgs(inbox') = {r} /\ Msgs(sent') = {} /\ q = request /\ sid = server.sid
              /\ hash = Hashed(server.hash, request)
              /\ Round(request.token, rounds - 1) /\ rounds \in {1, 2} /\ params = server.params
              /\ next > 0
  BY <1>1, HealthyFirst
<1>4. ASSUME phase = "setup"
      PROVE  HealthySetup'
  <2>1. To(r, r.key)'
    BY <1>1, <1>2, <1>3, <1>4 DEF To
  <2>2. server'.hash = hash'
    BY <1>1, <1>2, <1>3, <1>4 DEF Hashed
  <2>3. Round(request.token, rounds - 1)'
    BY <1>2, <1>3, <1>4 DEF Round
  <2>4. server.sid = 1
    BY <1>1, <1>3, <1>4 DEF Round
  <2>5. server'.key = LastKey(r)'
    BY <1>1, <1>2 DEF LastKey, GuestOrNull, Key
  <2>6. /\ r.key \in {NoKey, server'.key}
        /\ params'.dialect = "smb311" \/ params'.requires => r.key = server'.key
    BY <1>1, <1>2, <1>3, <1>4
  <2>7. request'.token = "auth" /\ params' = server'.params /\ next' > 0 /\ rounds' \in {1, 2}
    BY <1>1, <1>2, <1>3, <1>4
  <2>8. Msgs(sent') = {} /\ Msgs(inbox') = {r} /\ r.sid = 1 /\ server'.sid = 1
    BY <1>1, <1>3, <1>4, <2>4
  <2> QED BY <1>1, <1>2, <1>4, <2>1, <2>2, <2>3, <2>5, <2>6, <2>7, <2>8 DEF HealthySetup
<1>5. HealthySetup'
  BY <1>2, <1>3, <1>4 DEF HealthySetup
<1> QED BY <1>2, <1>3, <1>5 DEF HealthyState, HealthyNegotiation, HealthySession

\* The final answer's signature is the one the client expects.
LEMMA HealthyFinal ==
  ASSUME NEW r, r = Head(inbox), r.changed = FALSE, server.hash = hash, server.key = LastKey(r),
         r.key \in {NoKey, server.key},
         params.dialect = "smb311" \/ params.requires => r.key = server.key
  PROVE  /\ FinalSigned(Head(inbox)) /\ DerivedKey(Head(inbox)) = server.key
         /\ SigningRequired(Head(inbox)) => DerivedKey(Head(inbox)).set
<1>1. PICK g \in BOOLEAN : g <=> GuestOrNull(Head(inbox))
  BY DEF GuestOrNull
<1>2. LastKey(r) = IF g THEN NoKey ELSE Key(hash)
  BY <1>1 DEF LastKey, GuestOrNull, Key
<1>3. DerivedKey(Head(inbox)) = server.key /\ server.key = IF g THEN NoKey ELSE Key(hash)
  BY <1>1, <1>2 DEF DerivedKey
<1>4. SigningRequired(Head(inbox)) => ~g /\ params.requires
  BY <1>1 DEF SigningRequired
<1>5. ~g => server.key.set
  BY <1>3, Keys
<1>6. g => ~server.key.set
  BY <1>3, Keys
<1>7. FinalSigned(Head(inbox))
  <2>1. CASE r.key.set
    <3>1. r.key = server.key
      BY <2>1, Keys
    <3>2. Valid(Head(inbox), DerivedKey(Head(inbox)))
      BY <1>3, <2>1, <3>1 DEF Valid
    <3> QED BY <2>1, <3>2 DEF FinalSigned
  <2>2. CASE ~r.key.set
    <3>1. ~(params.dialect = "smb311" /\ ~g)
      BY <1>5, <2>2
    <3>2. ~SigningRequired(Head(inbox))
      BY <1>4, <1>5, <2>2
    <3> QED BY <1>1, <2>2, <3>1, <3>2 DEF FinalSigned
  <2> QED BY <2>1, <2>2
<1> QED BY <1>3, <1>4, <1>5, <1>7

\* The client goes on with the challenge and ends with the session.
LEMMA HealthyReceiveSetup ==
  ASSUME Shape, Traffic, HealthyState, ReceiveSetup
  PROVE  HealthyState'
<1>0. PICK r : r = Head(inbox)
  OBVIOUS
<1>1. /\ phase = "setup" /\ inbox # << >> /\ inbox' = Tail(inbox)
      /\ UNCHANGED <<policy, params, request, next, sent, server>>
  BY SetupCases
<1>2. r \in Msgs(inbox) /\ sent = << >> /\ Tail(inbox) = << >> /\ request.cmd = "setup"
  BY <1>0, <1>1, MsgsFacts DEF Shape, Traffic, OneMessage
<1>3. /\ Round(request.token, rounds - 1) /\ rounds \in {1, 2} /\ params = server.params /\ next > 0
      /\ \/ To(r, NoKey) /\ r.status = "error"
         \/ /\ To(r, NoKey) /\ r.status = "more" /\ request.token = "init" /\ r.blob = "challenge"
            /\ r.sid = 1 /\ server.sid = 1 /\ server.hash = Hashed(hash, r)
         \/ /\ To(r, r.key) /\ r.status = "ok" /\ request.token = "auth"
            /\ r.sid = 1 /\ server.sid = 1 /\ server.hash = hash
            /\ server.key = LastKey(r) /\ r.key \in {NoKey, server.key}
            /\ params.dialect = "smb311" \/ params.requires => r.key = server.key
  BY <1>1, <1>2 DEF HealthyState, HealthySetup
<1>4. r.cmd = "setup" /\ r.mid = request.mid /\ r.body = TRUE /\ r.changed = FALSE
  BY <1>2, <1>3 DEF To
<1>5. /\ request.token = "init" => provider = "sent" /\ sid = 0 /\ rounds = 1
      /\ request.token = "auth" => provider = "complete" /\ sid = 1 /\ rounds = 2
  BY <1>3 DEF Round
<1>6. CASE r.status = "error"
  <2>1. phase' = "dropped" /\ result'.kind # "protocol"
    BY <1>0, <1>4, <1>6, SetupCases
  <2> QED BY <2>1 DEF HealthyState, HealthyNegotiation, HealthySetup, HealthySession
<1>7. CASE r.status = "more"
  <2>1. /\ request.token = "init" /\ r.blob = "challenge" /\ r.sid = 1 /\ server.sid = 1
        /\ server.hash = Hashed(hash, r)
    BY <1>3, <1>7
  <2>2. SetupAccepted(Head(inbox)) /\ TokenAccepted(Head(inbox))
    BY <1>0, <1>4, <1>5, <2>1 DEF SetupAccepted, TokenAccepted, ChallengeAccepted
  <2>3. AssignedId(Head(inbox)) = 1
    BY <1>0, <2>1 DEF AssignedId
  <2>4. \/ phase' = "dropped" /\ result'.kind # "protocol"
        \/ /\ phase' = "round" /\ hash' = Hashed(hash, Head(inbox)) /\ sid' = AssignedId(Head(inbox))
           /\ provider' = "complete" /\ token' = NextToken /\ UNCHANGED <<rounds, result>>
    BY <1>0, <1>7, <2>2, <2>3, SetupCases
  <2>5. CASE phase' = "dropped" /\ result'.kind # "protocol"
    BY <2>5 DEF HealthyState, HealthyNegotiation, HealthySetup, HealthySession
  <2>6. CASE /\ phase' = "round" /\ hash' = Hashed(hash, Head(inbox)) /\ sid' = AssignedId(Head(inbox))
             /\ provider' = "complete" /\ token' = NextToken /\ UNCHANGED <<rounds, result>>
    <3>1. hash' = server'.hash
      BY <1>0, <1>1, <2>1, <2>6 DEF Hashed
    <3>2. token' = "auth"
      BY <1>5, <2>1, <2>6 DEF NextToken
    <3>3. Round(token, rounds)'
      BY <1>5, <2>1, <2>3, <2>6, <3>2 DEF Round
    <3>4. Agreed'
      BY <1>1, <1>3, <2>1, <2>3, <2>6 DEF Agreed
    <3>5. HealthySetup'
      BY <1>1, <1>3, <2>6, <3>1, <3>3, <3>4 DEF HealthySetup
    <3>6. result'.kind # "protocol"
      BY <2>6 DEF HealthyState
    <3> QED BY <2>6, <3>5, <3>6 DEF HealthyState, HealthyNegotiation, HealthySession
  <2> QED BY <2>4, <2>5, <2>6
<1>8. CASE r.status = "ok"
  <2>1. /\ request.token = "auth" /\ r.sid = 1 /\ server.sid = 1 /\ server.hash = hash
        /\ server.key = LastKey(r) /\ r.key \in {NoKey, server.key}
        /\ params.dialect = "smb311" \/ params.requires => r.key = server.key
    BY <1>3, <1>8
  <2>2. SetupAccepted(Head(inbox)) /\ provider = "complete"
    BY <1>0, <1>4, <1>5, <2>1 DEF SetupAccepted
  <2>3. AssignedId(Head(inbox)) = 1
    BY <1>0, <2>1 DEF AssignedId
  <2>4. /\ FinalSigned(Head(inbox)) /\ DerivedKey(Head(inbox)) = server.key
        /\ SigningRequired(Head(inbox)) => DerivedKey(Head(inbox)).set
    BY <1>0, <1>4, <2>1, HealthyFinal
  <2>5. \/ phase' = "dropped" /\ result'.kind # "protocol"
        \/ /\ phase' = "session" /\ sid' = AssignedId(Head(inbox))
           /\ session'.key = DerivedKey(Head(inbox)) /\ session'.required = SigningRequired(Head(inbox))
           /\ result'.kind = "ok"
    BY <1>0, <1>8, <2>2, <2>3, <2>4, SetupCases
  <2>6. CASE phase' = "dropped" /\ result'.kind # "protocol"
    BY <2>6 DEF HealthyState, HealthyNegotiation, HealthySetup, HealthySession
  <2>7. CASE /\ phase' = "session" /\ sid' = AssignedId(Head(inbox))
             /\ session'.key = DerivedKey(Head(inbox)) /\ session'.required = SigningRequired(Head(inbox))
             /\ result'.kind = "ok"
    <3>1. Agreed' /\ sid' # 0
      BY <1>1, <1>3, <2>1, <2>3, <2>7 DEF Agreed
    <3>2. session'.key = server'.key /\ (session'.required => session'.key.set)
      BY <1>1, <2>4, <2>7
    <3>3. HealthySession'
      BY <1>1, <1>2, <1>3, <2>7, <3>1, <3>2 DEF HealthySession
    <3> QED BY <2>7, <3>3 DEF HealthyState, HealthyNegotiation, HealthySetup
  <2> QED BY <2>5, <2>6, <2>7
<1> QED BY <1>3, <1>6, <1>7, <1>8

\* A call is the only one.
LEMMA HealthyCallStarts ==
  ASSUME Shape, HealthyState, CallStarts
  PROVE  HealthyState'
<1>1. /\ phase = "session" /\ UNCHANGED <<params, sid, session, inbox, server>>
  BY CallStartIs DEF CallQuiet
<1>2. PICK cmd, key, q :
              /\ cmd \in Commands /\ key \in {TreeSigningKey, SigningKey}
              /\ \/ /\ result'.kind \in {"unsupported", "credits"}
                    /\ UNCHANGED <<phase, request, asyncId, next, sent>>
                 \/ CallSent(q, cmd, key)
  BY CallStartIs
<1>3. /\ Agreed /\ sid # 0 /\ session.key = server.key /\ (session.required => session.key.set)
      /\ next > 0 /\ sent = << >> /\ inbox = << >> /\ result.kind # "protocol"
  BY <1>1 DEF HealthyState, HealthySession
<1>4. CASE /\ result'.kind \in {"unsupported", "credits"}
           /\ UNCHANGED <<phase, request, asyncId, next, sent>>
  <2>1. HealthySession'
    BY <1>1, <1>3, <1>4 DEF HealthySession, Agreed
  <2> QED BY <1>1, <1>4, <2>1 DEF HealthyState, HealthyNegotiation, HealthySetup
<1>5. CASE CallSent(q, cmd, key)
  <2>1. /\ q.mid = next /\ q.token = "none" /\ q.key = key /\ q.changed = FALSE
        /\ phase' = "waiting" /\ next' = next + 1 /\ asyncId' = "none" /\ result' = result
        /\ request' = q /\ sent' = Append(sent, q)
    BY <1>5 DEF CallSent
  <2>2. Len(sent') = 1 /\ sent'[1] = q
    BY <1>3, <2>1, MsgsAppend DEF Shape
  <2>3. key \in {NoKey, session.key} /\ (session.required => key = session.key)
    BY <1>2 DEF TreeSigningKey, SigningKey
  <2>4. next' > 0 /\ request'.mid > 0
    BY <1>3, <2>1 DEF Shape
  <2>5. DOMAIN inbox' = {}
    BY <1>1, <1>3
  <2>6. Agreed' /\ sid' # 0 /\ session'.key = server'.key /\ (session'.required => session'.key.set)
    BY <1>1, <1>3 DEF Agreed
  <2>7. /\ request'.token = "none" /\ request'.changed = FALSE
        /\ request'.key \in {NoKey, session'.key} /\ (session'.required => request'.key = session'.key)
        /\ asyncId' = "none" /\ sent'[1] = request' /\ inbox' = << >>
    BY <1>1, <1>3, <2>1, <2>2, <2>3
  <2>8. HealthySession'
    BY <2>1, <2>2, <2>4, <2>5, <2>6, <2>7 DEF HealthySession
  <2> QED BY <1>3, <2>1, <2>8 DEF HealthyState, HealthyNegotiation, HealthySetup
<1> QED BY <1>2, <1>4, <1>5

\* A good answer is taken for what it is.
LEMMA OutcomeGood ==
  ASSUME NEW r, r = Head(inbox), Good(r), request.cmd \in Commands, request.mid # 0,
         request.key \in {NoKey, session.key}, session.required => request.key = session.key,
         session.required => session.key.set, asyncId \in {"none", "a1"}
  PROVE  /\ Outcome(Head(inbox)) # "protocol"
         /\ Outcome(Head(inbox)) = "interim" <=> r.status = "pending"
<1> DEFINE m == Head(inbox)
<1>1. /\ m.cmd = request.cmd /\ m.mid = request.mid /\ m.body = TRUE /\ m.changed = FALSE /\ m.sid = sid
      /\ m.form \in {"sync", "a1"} /\ (m.form = "a1" => request.cmd = "set")
      /\ m.status \in {"ok", "nomore", "pending", "error"}
      /\ m.status = "nomore" => request.cmd = "list"
      /\ m.status = "pending" => m.form = "a1" /\ m.key \in {NoKey, request.key}
      /\ m.status # "pending" => m.key = request.key
      /\ m.tree = IF request.cmd = "tree" /\ m.status = "ok" THEN request.mid ELSE request.tree
      /\ request.cmd = "create" /\ m.status = "ok" => m.file = request.mid
      /\ m.form = "sync" => asyncId = "none"
  BY DEF Good, To
<1>2. Correlated(m)
  BY <1>1 DEF Correlated
<1>3. m.status # "pending" => Verified(m)
  <2>1. ASSUME m.key = request.key
        PROVE  Verified(m)
    <3>1. CASE m.key.set
      <4>1. m.key = session.key
        BY <2>1, <3>1, Keys
      <4>2. Valid(m, session.key)
        BY <1>1, <3>1, <4>1 DEF Valid
      <4> QED BY <3>1, <4>2 DEF Verified
    <3>2. CASE ~m.key.set
      <4>1. ~session.required
        BY <2>1, <3>2
      <4> QED BY <3>2, <4>1 DEF Verified
    <3> QED BY <3>1, <3>2
  <2> QED BY <1>1, <2>1
<1>4. m.status = "pending" /\ m.key.set => Verified(m)
  <2>1. ASSUME m.status = "pending", m.key.set
        PROVE  Verified(m)
    <3>1. m.key = session.key
      BY <1>1, <2>1, Keys
    <3>2. Valid(m, session.key)
      BY <1>1, <2>1, <3>1 DEF Valid
    <3> QED BY <2>1, <3>2 DEF Verified
  <2> QED BY <2>1
<1>5. request.cmd # "set" => m.form = "sync" /\ m.status # "pending"
  BY <1>1
<1>6. request.cmd \notin {"set", "tree"} => OnTree(m)
  BY <1>1, <1>2, <1>5 DEF OnTree
<1>7. CASE request.cmd = "tree"
  <2>1. m.status = "ok" => m.tree # NoTree
    BY <1>1, <1>7 DEF NoTree
  <2>2. TreeOutcome(m) \in {"ok", "status"}
    BY <1>1, <1>2, <1>3, <1>5, <1>7, <2>1 DEF TreeOutcome
  <2>3. Outcome(m) = TreeOutcome(m)
    BY <1>7 DEF Outcome
  <2> QED BY <1>5, <1>7, <2>2, <2>3
<1>8. CASE request.cmd = "create"
  <2>1. m.status = "ok" => m.file # NoFile
    BY <1>1, <1>8 DEF NoFile
  <2>2. CreateOutcome(m) \in {"ok", "status"}
    BY <1>1, <1>3, <1>5, <1>6, <1>8, <2>1 DEF CreateOutcome
  <2>3. Outcome(m) = CreateOutcome(m)
    BY <1>8 DEF Outcome
  <2> QED BY <1>5, <1>8, <2>2, <2>3
<1>9. CASE request.cmd = "query"
  <2>1. QueryOutcome(m) \in {"ok", "status"}
    BY <1>1, <1>3, <1>5, <1>6, <1>9 DEF QueryOutcome
  <2>2. Outcome(m) = QueryOutcome(m)
    BY <1>9 DEF Outcome
  <2> QED BY <1>5, <1>9, <2>1, <2>2
<1>10. CASE request.cmd = "list"
  <2>1. ListOutcome(m) \in {"ok", "status"}
    BY <1>1, <1>3, <1>5, <1>6, <1>10 DEF ListOutcome, QueryOutcome
  <2>2. Outcome(m) = ListOutcome(m)
    BY <1>10 DEF Outcome
  <2> QED BY <1>5, <1>10, <2>1, <2>2
<1>11. CASE request.cmd = "set"
  <2>1. AsyncAccepted(m)
    BY <1>1, <1>2, <1>11 DEF AsyncAccepted
  <2>2. Interim(m) <=> m.status = "pending"
    BY <1>1 DEF Interim
  <2>3. CASE m.status = "pending"
    <3>1. Verified(m) \/ (Interim(m) /\ ~m.key.set)
      BY <1>4, <2>2, <2>3
    <3>2. SetOutcome(m) = "interim"
      BY <2>1, <2>2, <2>3, <3>1 DEF SetOutcome
    <3> QED BY <1>11, <2>3, <3>2 DEF Outcome
  <2>4. CASE m.status # "pending"
    <3>1. SetOutcome(m) \in {"ok", "status"}
      BY <1>1, <1>3, <2>1, <2>2, <2>4 DEF SetOutcome
    <3> QED BY <1>11, <2>4, <3>1 DEF Outcome
  <2> QED BY <2>3, <2>4
<1>12. CASE request.cmd = "close"
  <2>1. CloseOutcome(m) \in {"ok", "status"}
    BY <1>1, <1>3, <1>5, <1>6, <1>12 DEF CloseOutcome
  <2>2. Outcome(m) = CloseOutcome(m)
    BY <1>12 DEF Outcome
  <2> QED BY <1>5, <1>12, <2>1, <2>2
<1> QED BY <1>7, <1>8, <1>9, <1>10, <1>11, <1>12 DEF Commands

\* What the client holds of the session does not change.
HealthyClient ==
  /\ Agreed /\ sid # 0 /\ session.key = server.key /\ (session.required => session.key.set) /\ next > 0
  /\ request.mid > 0 /\ request.token = "none" /\ request.changed = FALSE
  /\ request.key \in {NoKey, session.key} /\ (session.required => request.key = session.key)

\* The client takes an interim answer, or the last.
LEMMA HealthyReceiveAnswer ==
  ASSUME Shape, Traffic, HealthyState, ReceiveAnswer
  PROVE  HealthyState'
<1>0. PICK r : r = Head(inbox)
  OBVIOUS
<1>1. /\ phase = "waiting" /\ inbox # << >> /\ inbox' = Tail(inbox)
      /\ UNCHANGED <<params, sid, session, request, next, sent, server>>
      /\ \/ /\ Outcome(Head(inbox)) = "interim" /\ asyncId' = r.form
            /\ UNCHANGED <<phase, result>>
         \/ /\ Outcome(Head(inbox)) # "interim" /\ phase' = "session"
            /\ result'.kind = Outcome(Head(inbox))
  BY <1>0, AnswerCases
<1>2. /\ HealthyClient /\ asyncId \in {"none", "a1"} /\ result.kind # "protocol"
      /\ \/ sent = << >>
         \/ /\ Len(sent) = 1
            /\ \/ sent[1] = request /\ inbox = << >> /\ asyncId = "none"
               \/ sent[1] = [request EXCEPT !.token = "async"] /\ request.cmd = "set"
      /\ \A i \in DOMAIN inbox : Good(inbox[i]) /\ (inbox[i].status # "pending" => i = Len(inbox))
  BY <1>1 DEF HealthyState, HealthySession, HealthyClient
<1>3. /\ Len(inbox) \in Nat /\ DOMAIN inbox = 1 .. Len(inbox) /\ r = inbox[1] /\ 1 \in DOMAIN inbox
  BY <1>0, <1>1, SeqFacts DEF Shape
<1>4. Good(r) /\ (r.status # "pending" => Len(inbox) = 1 /\ sent = << >>)
  BY <1>2, <1>3 DEF Good
<1>5. request.cmd \in Commands
  BY <1>1 DEF Traffic
<1>6. /\ Outcome(Head(inbox)) # "protocol"
      /\ Outcome(Head(inbox)) = "interim" <=> r.status = "pending"
  BY <1>0, <1>2, <1>4, <1>5, OutcomeGood DEF HealthyClient
<1>7. HealthyClient'
  BY <1>1, <1>2 DEF HealthyClient, Agreed
<1>8. CASE r.status # "pending"
  <2>1. phase' = "session" /\ result'.kind # "protocol"
    BY <1>1, <1>6, <1>8
  <2>2. Tail(inbox) = << >>
    BY <1>4, <1>8, MsgsFacts DEF Shape
  <2>3. sent' = << >> /\ inbox' = << >>
    BY <1>1, <1>4, <1>8, <2>2
  <2>4. HealthySession'
    BY <1>7, <2>1, <2>3 DEF HealthySession, HealthyClient
  <2> QED BY <2>1, <2>4 DEF HealthyState, HealthyNegotiation, HealthySetup
<1>9. CASE r.status = "pending"
  <2>1. phase' = "waiting" /\ result' = result /\ asyncId' = "a1"
    BY <1>1, <1>4, <1>6, <1>9 DEF Good
  <2>2. /\ IsSeq(inbox') /\ Len(inbox') = Len(inbox) - 1
        /\ \A i \in 1 .. Len(inbox') : inbox'[i] = inbox[i + 1]
    BY <1>1, SeqTail DEF Shape
  <2>3. DOMAIN inbox' = 1 .. Len(inbox')
    BY <2>2, SeqFacts
  <2>4. ASSUME NEW i \in DOMAIN inbox'
        PROVE  Good(inbox[i])' /\ (inbox[i].status # "pending" => i = Len(inbox))'
    <3>1. i \in Nat /\ i + 1 \in DOMAIN inbox /\ inbox'[i] = inbox[i + 1] /\ Len(inbox) # 1
      BY <1>3, <2>2, <2>3
    <3>2. PICK m : m = inbox[i + 1]
      OBVIOUS
    <3>3. Good(m) /\ (m.status # "pending" => i = Len(inbox'))
      BY <1>2, <1>3, <2>2, <3>1, <3>2
    <3>4. Good(m)'
      BY <1>1, <3>1, <3>3 DEF Good, To
    <3>5. m = inbox'[i]
      BY <3>1, <3>2
    <3> QED BY <3>3, <3>4, <3>5
  <2>5. \/ sent' = << >>
        \/ Len(sent') = 1 /\ sent'[1] = [request' EXCEPT !.token = "async"] /\ request'.cmd = "set"
    BY <1>1, <1>2
  <2>6. HealthySession'
    BY <1>7, <2>1, <2>4, <2>5 DEF HealthySession, HealthyClient
  <2> QED BY <1>2, <2>1, <2>6 DEF HealthyState, HealthyNegotiation, HealthySetup
<1> QED BY <1>8, <1>9

\* The request on its way is the one whose answer is awaited.
LEMMA HealthyRequest ==
  ASSUME Shape, HealthyState, phase = "waiting", sent # << >>, NEW q, q = Head(sent)
  PROVE  /\ HealthyClient /\ result.kind # "protocol" /\ asyncId \in {"none", "a1"}
         /\ Len(sent) = 1 /\ sent[1] = q /\ Tail(sent) = << >> /\ Msgs(sent) = {q} /\ ReqShape(q)
         /\ q.cmd = request.cmd /\ q.mid = request.mid /\ q.key = request.key /\ q.tree = request.tree
         /\ q.changed = FALSE /\ Genuine(q)
         /\ \A i \in DOMAIN inbox : Good(inbox[i]) /\ inbox[i].status = "pending"
         /\ \/ q = request /\ inbox = << >> /\ asyncId = "none"
            \/ q = [request EXCEPT !.token = "async"] /\ q.token = "async" /\ q.cmd = "set"
<1>1. /\ HealthyClient /\ result.kind # "protocol" /\ asyncId \in {"none", "a1"}
      /\ Len(sent) = 1
      /\ \/ sent[1] = request /\ inbox = << >> /\ asyncId = "none"
         \/ sent[1] = [request EXCEPT !.token = "async"] /\ request.cmd = "set"
      /\ \A i \in DOMAIN inbox : Good(inbox[i]) /\ (inbox[i].status # "pending" => i = Len(inbox))
  BY DEF HealthyState, HealthySession, HealthyClient
<1>2. sent[1] = q /\ Tail(sent) = << >> /\ Msgs(sent) = {q}
  BY <1>1, MsgsFacts DEF Shape
<1>3. ReqShape(q)
  BY <1>2 DEF Shape
<1>4. \A i \in DOMAIN inbox : Good(inbox[i]) /\ inbox[i].status = "pending"
  BY <1>1 DEF Good
<1>5. CASE q = request /\ inbox = << >> /\ asyncId = "none"
  <2>1. q.changed = FALSE /\ q.key \in {NoKey, server.key}
    BY <1>1, <1>5 DEF HealthyClient
  <2>2. Genuine(q)
    BY <2>1, Keys DEF Genuine
  <2> QED BY <1>1, <1>2, <1>3, <1>4, <1>5, <2>1, <2>2
<1>6. CASE q = [request EXCEPT !.token = "async"] /\ request.cmd = "set"
  <2>0. PICK a1, a2, a3, a4, a5, a6, a7 :
        q = [cmd |-> a1, mid |-> a2, token |-> a3, tree |-> a4, file |-> a5, key |-> a6, changed |-> a7]
    BY <1>3 DEF ReqShape
  <2>1. DOMAIN q = {"cmd", "mid", "token", "tree", "file", "key", "changed"}
    BY <2>0
  <2>2. DOMAIN request = DOMAIN q
    BY <1>6
  <2>3. /\ q.cmd = request.cmd /\ q.mid = request.mid /\ q.key = request.key /\ q.tree = request.tree
        /\ q.changed = request.changed /\ q.token = "async"
    BY <1>6, <2>1, <2>2
  <2>4. q.changed = FALSE /\ q.key \in {NoKey, server.key}
    BY <1>1, <2>3 DEF HealthyClient
  <2>5. Genuine(q)
    BY <2>4, Keys DEF Genuine
  <2> QED BY <1>1, <1>2, <1>3, <1>4, <1>6, <2>3, <2>4, <2>5
<1> QED BY <1>1, <1>2, <1>5, <1>6

\* An answer to the call that waits is a good one, and the last.
LEMMA HealthyAnswered ==
  ASSUME Shape, Traffic, HealthyState, phase = "waiting", NEW r, NEW q, Replies(r), q = Head(sent),
         r.sid = server.sid, r.key = q.key, r.status \in {"ok", "nomore", "error"},
         r.status = "nomore" => q.cmd = "list",
         r.form = IF q.token = "async" THEN "a1" ELSE "sync",
         r.tree = IF q.cmd = "tree" /\ r.status = "ok" THEN q.mid ELSE q.tree,
         q.cmd = "create" /\ r.status = "ok" => r.file = q.mid,
         server'.params = server.params, server'.sid = server.sid, server'.key = server.key
  PROVE  HealthyState'
<1>1. /\ sent # << >> /\ sent' = Tail(sent) /\ inbox' = Append(inbox, r)
      /\ r.changed = FALSE /\ r.body = TRUE /\ r.cmd = q.cmd /\ r.mid = q.mid
      /\ UNCHANGED <<phase, params, sid, session, request, asyncId, result, next>>
  BY DEF Replies, ClientStays
<1>2. /\ HealthyClient /\ result.kind # "protocol" /\ asyncId \in {"none", "a1"}
      /\ Tail(sent) = << >>
      /\ q.cmd = request.cmd /\ q.mid = request.mid /\ q.key = request.key /\ q.tree = request.tree
      /\ \A i \in DOMAIN inbox : Good(inbox[i]) /\ inbox[i].status = "pending"
      /\ \/ q = request /\ inbox = << >> /\ asyncId = "none"
         \/ q.token = "async" /\ q.cmd = "set"
  BY <1>1, HealthyRequest
<1>3. HealthyClient'
  BY <1>1, <1>2 DEF HealthyClient, Agreed
<1>4. /\ Len(inbox) \in Nat /\ DOMAIN inbox = 1 .. Len(inbox)
      /\ IsSeq(inbox') /\ Len(inbox') = Len(inbox) + 1
      /\ inbox'[Len(inbox) + 1] = r /\ \A i \in 1 .. Len(inbox) : inbox'[i] = inbox[i]
      /\ inbox = << >> => Len(inbox) = 0
  BY <1>1, SeqAppend, SeqFacts DEF Shape
<1>5. DOMAIN inbox' = 1 .. Len(inbox')
  BY <1>4, SeqFacts
<1>6. Good(r)'
  <2>1. To(r, r.key)' /\ r.sid = sid'
    BY <1>1, <1>2 DEF To, HealthyClient, Agreed
  <2>2. r.form \in {"sync", "a1"} /\ (r.form = "a1" => request'.cmd = "set")
    BY <1>1, <1>2 DEF HealthyClient
  <2>3. r.form = "sync" => asyncId' = "none" /\ Len(inbox') = 1
    BY <1>1, <1>2, <1>4
  <2>4. /\ r.status = "nomore" => request'.cmd = "list"
        /\ r.key = request'.key /\ sent' = << >>
        /\ r.tree = IF request'.cmd = "tree" /\ r.status = "ok" THEN request'.mid ELSE request'.tree
        /\ request'.cmd = "create" /\ r.status = "ok" => r.file = request'.mid
    BY <1>1, <1>2
  <2> QED BY <2>1, <2>2, <2>3, <2>4 DEF Good
<1>7. ASSUME NEW i \in DOMAIN inbox'
      PROVE  Good(inbox[i])' /\ (inbox[i].status # "pending" => i = Len(inbox))'
  <2>1. CASE i = Len(inbox) + 1
    BY <1>4, <1>6, <2>1
  <2>2. CASE i \in DOMAIN inbox
    <3>1. PICK m : m = inbox[i]
      OBVIOUS
    <3>2. m = inbox'[i] /\ Good(m) /\ m.status = "pending"
      BY <1>2, <1>4, <2>2, <3>1
    <3>3. Good(m)'
      BY <1>1, <3>2 DEF Good, To
    <3> QED BY <3>2, <3>3
  <2> QED BY <1>4, <1>5, <2>1, <2>2
<1>8. HealthySession'
  BY <1>1, <1>2, <1>3, <1>7 DEF HealthySession, HealthyClient
<1> QED BY <1>1, <1>2, <1>8 DEF HealthyState, HealthyNegotiation, HealthySetup

\* The server carries out a call.
LEMMA HealthyAnswerCall ==
  ASSUME Shape, Traffic, HealthyState, AnswerCall
  PROVE  HealthyState'
<1>1. PICK r, q : /\ Replies(r) /\ q = Head(sent) /\ q.cmd \in Commands /\ Genuine(q)
                  /\ r.status = "ok" \/ (r.status = "nomore" /\ q.cmd = "list")
                  /\ r.sid = server.sid /\ r.key = q.key
                  /\ r.form = IF q.token = "async" THEN "a1" ELSE "sync"
                  /\ r.tree = IF q.cmd = "tree" THEN q.mid ELSE q.tree
                  /\ r.file = IF q.cmd = "create" THEN q.mid ELSE NoFile
                  /\ server'.params = server.params /\ server'.hash = server.hash
                  /\ server'.sid = server.sid /\ server'.key = server.key
  BY CallIs DEF Shape
<1>2. CASE phase = "waiting"
  BY <1>1, <1>2, HealthyAnswered
<1>3. CASE phase # "waiting"
  <2>1. phase' = phase /\ result' = result /\ sent # << >>
    BY <1>1 DEF Replies, ClientStays
  <2>2. phase \notin {"new", "negotiating", "negotiated", "round", "setup"}
    BY <1>1, OnlyAnswer DEF Commands
  <2>3. phase # "session"
    BY <2>1 DEF HealthyState, HealthySession
  <2> QED BY <1>3, <2>1, <2>2, <2>3 DEF HealthyState, HealthyNegotiation, HealthySetup, HealthySession
<1> QED BY <1>2, <1>3

\* The server refuses a request, in every phase.
LEMMA HealthyRefuse ==
  ASSUME Shape, Traffic, HealthyState, Refuse
  PROVE  HealthyState'
<1>1. PICK r, q : /\ Replies(r) /\ q = Head(sent) /\ server' = server
                  /\ r.status = "error" /\ r.sid = server.sid /\ r.tree = q.tree
                  /\ r.form = IF q.token = "async" THEN "a1" ELSE "sync"
                  /\ r.key = IF Genuine(q) THEN q.key ELSE NoKey
  BY RefuseIs
<1>2. /\ sent # << >> /\ r.cmd = q.cmd /\ r.mid = q.mid /\ r.body = TRUE /\ r.changed = FALSE
      /\ UNCHANGED <<policy, phase, params, hash, provider, rounds, sid, request, result, next>>
  BY <1>1 DEF Replies, ClientStays
<1>3. CASE phase = "waiting"
  <2>1. Genuine(q)
    BY <1>1, <1>2, <1>3, HealthyRequest
  <2>2. r.key = q.key
    BY <1>1, <2>1
  <2> QED BY <1>1, <1>3, <2>2, HealthyAnswered
<1>4. CASE phase \in {"negotiating", "setup"}
  <2>1. /\ Msgs(inbox') = {r} /\ Msgs(sent') = {} /\ q.key = NoKey /\ q \in Msgs(sent)
    BY <1>1, <1>4, OnlyAnswer
  <2>2. q = request
    BY <1>4, <2>1 DEF HealthyState, HealthyNegotiation, HealthySetup
  <2>3. To(r, NoKey)'
    BY <1>1, <1>2, <2>1, <2>2 DEF To
  <2>4. HealthyNegotiation'
    BY <1>1, <1>2, <1>4, <2>1, <2>3 DEF HealthyState, HealthyNegotiation
  <2>5. phase = "setup" => Round(request.token, rounds - 1)'
    BY <1>2 DEF HealthyState, HealthySetup, Round
  <2>6. HealthySetup'
    BY <1>1, <1>2, <1>4, <2>1, <2>3, <2>5 DEF HealthyState, HealthySetup
  <2> QED BY <1>2, <1>4, <2>4, <2>6 DEF HealthyState, HealthySession
<1>5. CASE phase \notin {"waiting", "negotiating", "setup"}
  <2>1. phase \notin {"new", "negotiated", "round"}
    BY <1>1, OnlyAnswer
  <2>2. phase # "session"
    BY <1>2 DEF HealthyState, HealthySession
  <2> QED BY <1>2, <1>5, <2>1, <2>2 DEF HealthyState, HealthyNegotiation, HealthySetup, HealthySession
<1> QED BY <1>3, <1>4, <1>5

\* An interim answer to SET_INFO names the one AsyncId of the call.
LEMMA HealthyGoAsync ==
  ASSUME Shape, Traffic, HealthyState, GoAsync, Healthy'
  PROVE  HealthyState'
<1>0. deferred' = {}
  BY DEF Healthy
<1>1. PICK r, q : /\ q = Head(sent) /\ q.cmd = "set" /\ q.token = "none" /\ Genuine(q)
                  /\ phase # "dropped" /\ sent # << >>
                  /\ sent' = [sent EXCEPT ![1] = [sent[1] EXCEPT !.token = "async"]]
                  /\ inbox' = Append(inbox, r) /\ ClientStays /\ UNCHANGED <<server, faults>>
                  /\ "changed" \in DOMAIN r /\ r.changed = FALSE /\ r.body = TRUE
                  /\ r.cmd = q.cmd /\ r.mid = q.mid /\ r.answers = q.mid
                  /\ r.status = "pending" /\ r.sid = server.sid /\ r.form = "a1" /\ r.tree = q.tree
                  /\ r.key = q.key \/ r.key = NoKey
  BY <1>0, AsyncIs
<1>2. UNCHANGED <<phase, params, sid, session, request, asyncId, result, next>>
  BY <1>1 DEF ClientStays
<1>3. CASE phase = "waiting"
  <2>1. /\ HealthyClient /\ result.kind # "protocol" /\ asyncId \in {"none", "a1"}
        /\ Len(sent) = 1 /\ sent[1] = q /\ q = request /\ inbox = << >>
    BY <1>1, <1>3, HealthyRequest
  <2>2. HealthyClient'
    BY <1>1, <1>2, <2>1 DEF HealthyClient, Agreed
  <2>3. /\ Len(inbox') = 1 /\ inbox'[1] = r /\ IsSeq(inbox')
    <3>1. IsSeq(inbox)
      BY DEF Shape
    <3>2. inbox = << >> =>
            /\ Len(Append(inbox, r)) = 1 /\ Append(inbox, r)[1] = r /\ IsSeq(Append(inbox, r))
      BY <3>1, MsgsAppend
    <3> QED BY <1>1, <2>1, <3>2
  <2>4. DOMAIN inbox' = {1}
    BY <2>3, SeqFacts
  <2>5. Good(r)'
    BY <1>1, <1>2, <2>1 DEF Good, To, HealthyClient, Agreed
  <2>6. PICK c : c = [q EXCEPT !.token = "async"]
    OBVIOUS
  <2>7. Len(sent') = 1 /\ sent'[1] = c
    <3>1. 1 \in 1 .. Len(sent) /\ sent' = [sent EXCEPT ![1] = c]
      BY <1>1, <2>1, <2>6
    <3> QED BY <2>1, <3>1, SeqSet DEF Shape
  <2>8. \A i \in DOMAIN inbox' : Good(inbox[i])' /\ (inbox[i].status # "pending" => i = Len(inbox))'
    BY <1>1, <2>3, <2>4, <2>5
  <2>9. sent'[1] = [request' EXCEPT !.token = "async"] /\ request'.cmd = "set"
    BY <1>1, <1>2, <2>1, <2>6, <2>7
  <2>10. HealthySession'
    <3>1. phase' = "waiting" /\ asyncId' \in {"none", "a1"} /\ Len(sent') = 1
      BY <1>2, <1>3, <2>1, <2>7
    <3> QED BY <2>2, <2>8, <2>9, <3>1 DEF HealthySession, HealthyClient
  <2> QED BY <1>2, <1>3, <2>1, <2>10 DEF HealthyState, HealthyNegotiation, HealthySetup
<1>4. CASE phase # "waiting"
  <2>1. phase # "session"
    BY <1>1 DEF HealthyState, HealthySession
  <2>2. q \in Msgs(sent)
    BY <1>1, MsgsFacts DEF Shape
  <2>3. phase \notin {"new", "negotiating", "negotiated", "round", "setup"}
    BY <1>1, <2>2, MsgsFacts DEF Traffic, OneMessage, Shape
  <2> QED BY <1>2, <1>4, <2>1, <2>3 DEF HealthyState, HealthyNegotiation, HealthySetup, HealthySession
<1> QED BY <1>3, <1>4

\* Nothing takes back a change, a late answer or a deferred one, and only a
\* server that goes asynchronous defers one.
LEMMA HistoryStep ==
  ASSUME Shape, Next
  PROVE  /\ faults' = 0 => faults = 0
         /\ ~late' => ~late
         /\ deferred' = deferred \/ GoAsync
         /\ deferred \subseteq deferred'
<1>1. CASE SendNegotiate \/ StartSetup \/ CallStarts \/ ReceiveNegotiate \/ SendSetup \/ ReceiveSetup
           \/ ReceiveAnswer
  <2>1. CASE SendNegotiate \/ StartSetup
    BY <2>1 DEF SendNegotiate, StartSetup, wire, history
  <2>2. CASE CallStarts
    BY <2>2 DEF CallStarts, TreeConnect, OpenFile, QueryInfo, QueryDirectory, SetInfo, CloseFile,
                StartCall, history
  <2>3. CASE ReceiveNegotiate
    BY <2>3 DEF ReceiveNegotiate, history
  <2>4. CASE SendSetup
    BY <2>4 DEF SendSetup, history
  <2>5. CASE ReceiveSetup
    BY <2>5 DEF ReceiveSetup, history
  <2>6. CASE ReceiveAnswer
    BY <2>6 DEF ReceiveAnswer, history
  <2> QED BY <1>1, <2>1, <2>2, <2>3, <2>4, <2>5, <2>6
<1>2. CASE GiveUp
  BY <1>2 DEF GiveUp, wire
<1>3. CASE Refuse
  BY <1>3 DEF Refuse, Send, clientSide, history
<1>4. CASE AnswerNegotiate \/ AnswerInit \/ AnswerAuth \/ AnswerCall
  <2>1. UNCHANGED <<faults, clientSide>>
    BY <1>4 DEF AnswerNegotiate, AnswerInit, AnswerAuth, AnswerCall, Send
  <2> QED BY <2>1 DEF clientSide, history
<1>5. CASE GoAsync
  <2>1. faults' = faults /\ ClientStays /\ deferred \subseteq deferred'
    BY <1>5, AsyncIs
  <2> QED BY <1>5, <2>1 DEF ClientStays
<1>6. CASE ChangeResponse \/ ChangeRequest
  <2>1. faults' = faults + 1 /\ UNCHANGED clientSide
    BY <1>6 DEF ChangeResponse, ChangeRequest
  <2> QED BY <2>1 DEF Shape, clientSide, history
<1> QED BY <1>1, <1>2, <1>3, <1>4, <1>5, <1>6 DEF Next, CallStarts

\* A connection that is healthy after a step was healthy before it.
LEMMA HealthyBefore ==
  ASSUME Shape, Next, Healthy'
  PROVE  Healthy
BY HistoryStep DEF Healthy

\* Every step keeps a healthy connection healthy.
LEMMA HealthyStep ==
  ASSUME Shape, Traffic, Transcripts, HealthyInv, Next, MaxRounds >= 2, 0 \notin InitialCredits
  PROVE  HealthyInv'
<1> SUFFICES ASSUME Healthy'
             PROVE  HealthyState'
  BY DEF HealthyInv
<1>1. HealthyState
  BY HealthyBefore DEF HealthyInv
<1>2. CASE GiveUp
  BY <1>2, GiveUpCases DEF Healthy
<1>3. CASE ChangeResponse \/ ChangeRequest
  <2>1. faults' = faults + 1
    BY <1>3 DEF ChangeResponse, ChangeRequest
  <2> QED BY <2>1 DEF Healthy, Shape
<1>4. CASE SendNegotiate \/ StartSetup \/ CallStarts \/ ReceiveNegotiate \/ SendSetup \/ ReceiveSetup
           \/ ReceiveAnswer
  BY <1>1, <1>4, HealthySendNegotiate, HealthyStartSetup, HealthyCallStarts, HealthyReceiveNegotiate,
     HealthySendSetup, HealthyReceiveSetup, HealthyReceiveAnswer
<1>5. CASE Refuse \/ AnswerNegotiate \/ AnswerInit \/ AnswerAuth \/ AnswerCall \/ GoAsync
  BY <1>1, <1>5, HealthyRefuse, HealthyAnswerNegotiate, HealthyAnswerInit, HealthyAnswerAuth,
     HealthyAnswerCall, HealthyGoAsync
<1> QED BY <1>2, <1>3, <1>4, <1>5 DEF Next, CallStarts

-----------------------------------------------------------------------------
(* What comes of an answer STATUS_PENDING.                                  *)

Early == {"new", "negotiating", "negotiated", "round", "setup"}

\* The requests that were deferred are those of the session, up to the last.
DeferredInv ==
  /\ deferred # {} => phase \notin Early
  /\ \A m \in deferred : m \in Nat /\ m < next /\ (phase = "waiting" => m <= request.mid)

\* On a session, only the answer to a call ends it in a protocol error.
LEMMA RefusedBy ==
  ASSUME Shape, Next, phase \notin Early
  PROVE  /\ phase' \notin Early
         /\ \/ result' = result
            \/ result'.kind # "protocol"
            \/ phase = "waiting" /\ result'.asked = request.mid
         /\ \/ UNCHANGED <<next, request>> /\ (phase' = "waiting" => phase = "waiting")
            \/ next' = next + 1 /\ request'.mid = next
<1>1. CASE SendNegotiate \/ StartSetup \/ ReceiveNegotiate \/ SendSetup \/ ReceiveSetup
  BY <1>1 DEF SendNegotiate, StartSetup, ReceiveNegotiate, SendSetup, ReceiveSetup, Early
<1>2. CASE CallStarts
  <2>1. PICK cmd, key, q : \/ /\ result'.kind \in {"unsupported", "credits"}
                             /\ UNCHANGED <<phase, request, asyncId, next, sent>>
                          \/ CallSent(q, cmd, key)
    BY <1>2, CallStartIs
  <2> QED BY <2>1 DEF CallSent, Early
<1>3. CASE ReceiveAnswer
  BY <1>3, AnswerCases DEF Early
<1>4. CASE GiveUp
  BY <1>4, GiveUpCases DEF Early
<1>5. CASE Refuse \/ AnswerNegotiate \/ AnswerInit \/ AnswerAuth \/ AnswerCall \/ ChangeResponse
           \/ ChangeRequest
  <2>1. UNCHANGED clientSide
    BY <1>5 DEF Refuse, AnswerNegotiate, AnswerInit, AnswerAuth, AnswerCall, ChangeResponse,
                ChangeRequest
  <2> QED BY <2>1, StaysFacts DEF ClientStays
<1>6. CASE GoAsync
  <2>1. ClientStays
    BY <1>6, AsyncIs
  <2> QED BY <2>1 DEF ClientStays
<1> QED BY <1>1, <1>2, <1>3, <1>4, <1>5, <1>6 DEF Next, CallStarts

\* A request that is deferred was on its way on the session.
LEMMA DeferredStep ==
  ASSUME Shape, Traffic, Files, DeferredInv, Next
  PROVE  DeferredInv'
<1>1. CASE GoAsync
  <2>1. PICK q : /\ q = Head(sent) /\ q.cmd \in Commands /\ sent # << >> /\ ClientStays
                 /\ deferred' = deferred \/ deferred' = deferred \cup {q.mid}
                 /\ phase # "dropped"
    BY <1>1, AsyncIs
  <2>2. q \in Msgs(sent)
    BY <2>1, MsgsFacts DEF Shape
  <2>3. phase \notin Early
    BY <2>1, <2>2 DEF Traffic, OneMessage, Commands, Early
  <2>4. q.mid \in Nat /\ q.mid < next /\ (phase = "waiting" => q.mid <= request.mid)
    BY <2>2 DEF Files
  <2>5. UNCHANGED <<phase, next, request>>
    BY <2>1 DEF ClientStays
  <2> QED BY <2>1, <2>3, <2>4, <2>5 DEF DeferredInv
<1>2. CASE deferred' = deferred
  <2>1. CASE deferred = {}
    BY <1>2, <2>1 DEF DeferredInv
  <2>2. CASE deferred # {}
    <3>1. phase \notin Early
      BY <2>2 DEF DeferredInv
    <3>2. PICK n, r : n = next' /\ r = request'
      OBVIOUS
    <3>3. /\ phase' \notin Early
          /\ \/ n = next /\ r = request /\ (phase' = "waiting" => phase = "waiting")
             \/ n = next + 1 /\ r.mid = next
      BY <3>1, <3>2, RefusedBy
    <3>4. next \in Nat
      BY DEF Shape
    <3>5. ASSUME NEW m \in deferred
          PROVE  m \in Nat /\ m < n /\ (phase' = "waiting" => m <= r.mid)
      BY <3>3, <3>4 DEF DeferredInv
    <3> QED BY <1>2, <3>2, <3>3, <3>5 DEF DeferredInv
  <2> QED BY <2>1, <2>2
<1> QED BY <1>1, <1>2, HistoryStep

\* A refusal follows a deferred answer, or there was none to refuse.
LEMMA RefusedStep ==
  ASSUME Shape, DeferredInv, HealthyCalls, HealthyInv', Next
  PROVE  HealthyCalls'
<1> SUFFICES ASSUME faults' = 0, ~late', result'.kind = "protocol"
             PROVE  \E m \in deferred' : m <= result'.asked
  BY DEF HealthyCalls
<1>1. faults = 0 /\ ~late /\ deferred \subseteq deferred' /\ (deferred' = deferred \/ GoAsync)
  BY HistoryStep
<1>2. deferred' # {}
  BY DEF HealthyInv, Healthy, HealthyState
<1>3. CASE result' = result
  BY <1>1, <1>3 DEF HealthyCalls
<1>4. CASE result' # result
  <2>1. ~GoAsync
    <3>1. GoAsync => ClientStays
      BY AsyncIs
    <3> QED BY <1>4, <3>1 DEF ClientStays
  <2>2. deferred # {} /\ phase \notin Early
    BY <1>1, <1>2, <2>1 DEF DeferredInv
  <2>3. phase = "waiting" /\ result'.asked = request.mid
    BY <1>4, <2>2, RefusedBy
  <2>4. PICK m \in deferred : m <= request.mid
    BY <2>2, <2>3 DEF DeferredInv
  <2> QED BY <1>1, <2>3, <2>4
<1> QED BY <1>3, <1>4

-----------------------------------------------------------------------------
(* The theorems.                                                            *)

\* Both invariants hold before the first message.
LEMMA InitInv == Init => IInv /\ HealthyInv
<1> SUFFICES ASSUME Init
             PROVE  IInv /\ HealthyInv
  OBVIOUS
<1>1. /\ phase = "new" /\ params = NoParams /\ hash = << >> /\ provider = "new" /\ rounds = 0
      /\ sid = 0 /\ session = NoSession /\ tree = NoTree /\ file = NoFile /\ result = NoResult
      /\ next = 0 /\ sent = << >> /\ inbox = << >> /\ faults = 0
      /\ server = [params |-> NoParams, hash |-> << >>, sid |-> 0, key |-> NoKey,
                   trees |-> {}, files |-> {}]
  BY DEF Init
<1>2. Msgs(<< >>) = {}
  BY DEF Msgs
<1>3. Shape
  BY <1>1, <1>2, NoSeq DEF Shape, ServerShape
<1>4. Traffic
  BY <1>1 DEF Traffic
<1>5. Transcripts
  BY <1>1 DEF Transcripts, NoParams
<1>6. FinalAnswer /\ SameSession /\ Answers /\ Trees
  BY <1>1, <1>2 DEF FinalAnswer, SameSession, Answers, Trees
<1>7. AcceptedGenuine /\ HandlesLive
  BY <1>1 DEF AcceptedGenuine, HandlesLive, NoResult
<1>8. Files
  BY <1>1, <1>2 DEF Files, NoFile
<1>9. HealthyState
  BY <1>1 DEF HealthyState, HealthyNegotiation, HealthySetup, HealthySession, NoResult
<1> QED BY <1>3, <1>4, <1>5, <1>6, <1>7, <1>8, <1>9 DEF IInv, HealthyInv

\* Every step preserves the first.
LEMMA StepInv == IInv /\ [Next]_vars => IInv'
<1> SUFFICES ASSUME IInv, [Next]_vars
             PROVE  IInv'
  OBVIOUS
<1>1. CASE Next
  <2>1. SameInv /\ CallInv /\ Shape /\ Traffic
    BY DEF IInv, SameInv, CallInv
  <2>2. Shape' /\ Traffic' /\ SameInv' /\ CallInv'
    BY <1>1, <2>1, ShapeStep, SameStep, CallStep
  <2> QED BY <2>2 DEF IInv, SameInv, CallInv
<1>2. CASE UNCHANGED vars
  <2> USE <1>2 DEF vars, config, setup, handles, call, credit, wire
  <2>1. Shape' /\ Traffic'
    BY DEF IInv, Shape, ServerShape, Traffic, OneMessage
  <2>2. Transcripts' /\ FinalAnswer' /\ SameSession'
    BY DEF IInv, Transcripts, ParamsOf, FinalAnswer, SameSession
  <2>3. Answers' /\ AcceptedGenuine' /\ Trees'
    BY DEF IInv, Answers, AcceptedGenuine, Trees
  <2>4. Files' /\ HandlesLive'
    BY DEF IInv, Files, Guarded, HandlesLive
  <2> QED BY <2>1, <2>2, <2>3, <2>4 DEF IInv
<1> QED BY <1>1, <1>2

\* A step that changes nothing keeps the second.
LEMMA HealthyStays ==
  ASSUME HealthyInv, UNCHANGED vars
  PROVE  HealthyInv'
<1> USE DEF vars, config, setup, handles, call, credit, wire, history
<1> SUFFICES ASSUME Healthy
             PROVE  HealthyState'
  BY DEF HealthyInv, Healthy
<1>1. HealthyNegotiation'
  BY DEF HealthyInv, HealthyState, HealthyNegotiation, To, ParamsOf, Agreed
<1>2. HealthySetup'
  BY DEF HealthyInv, HealthyState, HealthySetup, Round, Agreed, To, Hashed, LastKey, GuestOrNull
<1>3. HealthySession'
  BY DEF HealthyInv, HealthyState, HealthySession, Agreed, Good, To
<1> QED BY <1>1, <1>2, <1>3 DEF HealthyInv, HealthyState

(***************************************************************************)
(* The inductive invariant of a connection: see its parts above.           *)
(***************************************************************************)
THEOREM SessionInv == Spec => []IInv
BY InitInv, StepInv, PTL DEF Spec

(***************************************************************************)
(* A normal SMB 3.1.1 session is one both ends agree on: what validates    *)
(* the last SESSION_SETUP response covers every message the client hashed, *)
(* so its transcript, parameters, SessionId and key are the server's,      *)
(* however many messages were changed.                                     *)
(***************************************************************************)
THEOREM SameCorrect == Spec => []SameSession
<1>1. IInv => SameSession
  BY DEF IInv
<1> QED BY <1>1, SessionInv, PTL

(***************************************************************************)
(* A call that succeeds got the server's answer to its own request: the    *)
(* correlation by MessageId keeps out the late answers to the calls that   *)
(* gave up, and the signature, where it is required, every changed one.    *)
(***************************************************************************)
THEOREM AcceptedCorrect == Spec => []AcceptedGenuine
<1>1. IInv => AcceptedGenuine
  BY DEF IInv
<1> QED BY <1>1, SessionInv, PTL

(***************************************************************************)
(* A handle the caller holds is one the server has: close_file consumes    *)
(* its handle before it sends, so no CLOSE on its way, however late, names *)
(* the file that is held.                                                  *)
(***************************************************************************)
THEOREM HandlesCorrect == Spec => []HandlesLive
<1>1. IInv => HandlesLive
  BY DEF IInv
<1> QED BY <1>1, SessionInv, PTL

(***************************************************************************)
(* As long as nothing is changed and no answer is late, a call ends in a   *)
(* protocol error only once the server has answered a request other than   *)
(* SET_INFO with STATUS_PENDING, and only if it was asked no earlier than  *)
(* that one: everything else a server that keeps to the protocol answers   *)
(* is taken, for every dialect, policy, kind of session and choice to      *)
(* sign.  Two rounds are what NTLM and the anonymous mechanism need, and   *)
(* NEGOTIATE must grant a credit: with less the client does refuse.        *)
(***************************************************************************)
THEOREM HealthyCorrect ==
  ASSUME MaxRounds >= 2, 0 \notin InitialCredits
  PROVE  Spec => []HealthyCalls
<1> DEFINE Inv == IInv /\ HealthyInv /\ DeferredInv /\ HealthyCalls
<1>1. Init => Inv
  BY InitInv DEF Init, DeferredInv, HealthyCalls, NoResult
<1>2. Inv /\ [Next]_vars => Inv'
  <2> SUFFICES ASSUME IInv, HealthyInv, DeferredInv, HealthyCalls, [Next]_vars
               PROVE  Inv'
    OBVIOUS
  <2>1. IInv'
    BY StepInv
  <2>2. CASE Next
    <3>1. Shape /\ Traffic /\ Transcripts /\ Files
      BY DEF IInv
    <3>2. HealthyInv'
      BY <2>2, <3>1, HealthyStep
    <3>3. DeferredInv' /\ HealthyCalls'
      BY <2>2, <3>1, <3>2, DeferredStep, RefusedStep
    <3> QED BY <2>1, <3>2, <3>3
  <2>3. CASE UNCHANGED vars
    <3>1. HealthyInv'
      BY <2>3, HealthyStays
    <3>2. DeferredInv' /\ HealthyCalls'
      BY <2>3 DEF vars, call, credit, wire, history, DeferredInv, HealthyCalls
    <3> QED BY <2>1, <3>1, <3>2
  <2> QED BY <2>2, <2>3
<1>3. Inv => HealthyCalls
  OBVIOUS
<1> QED BY <1>1, <1>2, <1>3, PTL DEF Spec
=============================================================================
