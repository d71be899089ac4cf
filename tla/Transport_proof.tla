-------------------------- MODULE Transport_proof ---------------------------
(***************************************************************************)
(* The framing of the transport, for messages and chunks of any size:      *)
(* receiving implements the message channel, and what the peer decodes is  *)
(* what was handed to send_message as long as no send was cut short.       *)
(***************************************************************************)
EXTENDS Transport, SequenceTheorems, TLAPS

-----------------------------------------------------------------------------
(* The inductive invariant, in named parts.                                *)

\* The frame of a message stands in a stream after p bytes.
FrameAt(stream, p, m) ==
  /\ stream[p + 1] = 0
  /\ stream[p + 2] = Len(m)
  /\ \A b \in 1 .. Len(m) : stream[p + 2 + b] = m[b]

(***************************************************************************)
(* What stands in a stream from which k of the messages have been taken:   *)
(* message i is framed from byte pos[i] of all that was ever sent.         *)
(***************************************************************************)
Framed(stream, msgs, k, pos) ==
  /\ pos \in [Nat -> Nat] /\ k \in 0 .. Len(msgs)
  /\ \A i \in 1 .. Len(msgs) : pos[i + 1] = pos[i] + 2 + Len(msgs[i])
  /\ \A i, j \in 1 .. Len(msgs) + 1 : i <= j => pos[i] <= pos[j]
  /\ Len(stream) = pos[Len(msgs) + 1] - pos[k + 1]
  /\ \A i \in k + 1 .. Len(msgs) : FrameAt(stream, pos[i] - pos[k + 1], msgs[i])

Holds(stream, msgs, k) == \E pos : Framed(stream, msgs, k, pos)

Prefix(r, s) == Len(r) <= Len(s) /\ \A i \in 1 .. Len(r) : r[i] = s[i]

\* The bytes in the buffer and in the socket are the frames not yet received.
InInv ==
  /\ readBuffer \in Seq(Nat) /\ inbound \in Seq(Nat)
  /\ sent \in Seq(Messages) /\ received \in Seq(Messages)
  /\ Prefix(received, sent)
  /\ Holds(readBuffer \o inbound, sent, Len(received))

\* No frame is left half written unless a send is under way or was cut, and the
\* bytes on their way and those still to be written are the frames not yet taken.
OutInv ==
  /\ frame \in Seq(Nat) /\ outbound \in Seq(Nat)
  /\ given \in Seq(Messages) /\ taken \in Seq(Seq(Nat)) /\ cut \in BOOLEAN
  /\ op # "send" => frame = << >>
  /\ ~cut => /\ Prefix(taken, given)
             /\ Holds(outbound \o frame, given, Len(taken))

IInv == InInv /\ OutInv

-----------------------------------------------------------------------------
(* Sequences of bytes.                                                     *)

\* A message is a sequence of bytes.
LEMMA MessageBytes == \A m \in Messages : m \in Seq(Nat)
BY TransportLimits

\* What a stream loses at its front.
LEMMA DropBytes ==
  ASSUME NEW s \in Seq(Nat), NEW n \in Nat, n <= Len(s)
  PROVE  /\ Drop(s, n) \in Seq(Nat) /\ Len(Drop(s, n)) = Len(s) - n
         /\ \A i \in 1 .. Len(s) - n : Drop(s, n)[i] = s[i + n]
<1>1. Len(s) \in Nat
  OBVIOUS
<1>2. \A i \in n + 1 .. Len(s) : s[i] \in Nat
  <2>1. \A i \in n + 1 .. Len(s) : i \in 1 .. Len(s)
    BY <1>1
  <2> QED BY <2>1
<1>3. Drop(s, n) = [i \in 1 .. Len(s) - n |-> s[i + n]]
  BY <1>1, <1>2 DEF Drop
<1> QED BY <1>1, <1>2, <1>3

\* What stands where in two streams put together.
LEMMA CatBytes ==
  ASSUME NEW s \in Seq(Nat), NEW t \in Seq(Nat)
  PROVE  /\ s \o t \in Seq(Nat) /\ Len(s) \in Nat /\ Len(t) \in Nat
         /\ Len(s \o t) = Len(s) + Len(t)
         /\ \A i \in 1 .. Len(s) : (s \o t)[i] = s[i]
         /\ \A i \in 1 .. Len(t) : (s \o t)[Len(s) + i] = t[i]
OBVIOUS

\* Three streams put together.
LEMMA CatAssociative ==
  ASSUME NEW s \in Seq(Nat), NEW t \in Seq(Nat), NEW u \in Seq(Nat)
  PROVE  (s \o t) \o u = s \o (t \o u)
BY ConcatAssociative, SMTT(60)

\* The front of a stream.
LEMMA TakeBytes ==
  ASSUME NEW s \in Seq(Nat), NEW n \in Nat, n <= Len(s)
  PROVE  /\ SubSeq(s, 1, n) \in Seq(Nat) /\ Len(SubSeq(s, 1, n)) = n
         /\ \A i \in 1 .. n : SubSeq(s, 1, n)[i] = s[i]
<1>1. Len(s) \in Nat
  OBVIOUS
<1>2. \A i \in 1 .. n : s[i] \in Nat
  BY <1>1
<1>3. SubSeq(s, 1, n) = [i \in 1 .. n |-> s[i]]
  BY <1>1
<1> QED BY <1>2, <1>3

\* The bytes between a header and the end of its frame.
LEMMA CutBytes ==
  ASSUME NEW s \in Seq(Nat), NEW n \in Nat, 2 + n <= Len(s)
  PROVE  /\ SubSeq(s, 3, 2 + n) \in Seq(Nat) /\ Len(SubSeq(s, 3, 2 + n)) = n
         /\ \A i \in 1 .. n : SubSeq(s, 3, 2 + n)[i] = s[2 + i]
<1>1. Len(s) \in Nat
  OBVIOUS
<1>2. \A i \in 1 .. n : 2 + i \in 1 .. Len(s)
  BY <1>1
<1>3. \A i \in 1 .. n : s[2 + i] \in Nat
  BY <1>2
<1>4. SubSeq(s, 3, 2 + n) = [i \in 1 .. n |-> s[2 + i]]
  BY <1>1
<1> QED BY <1>3, <1>4

\* Two streams of the same length with the same bytes.
LEMMA SameBytes ==
  ASSUME NEW s \in Seq(Nat), NEW t \in Seq(Nat), Len(s) = Len(t),
         \A i \in 1 .. Len(s) : s[i] = t[i]
  PROVE  s = t
OBVIOUS

\* Moving bytes from the front of one stream to the end of the other.
LEMMA MoveBytes ==
  ASSUME NEW s \in Seq(Nat), NEW t \in Seq(Nat), NEW n \in Nat, n <= Len(t)
  PROVE  /\ s \o SubSeq(t, 1, n) \in Seq(Nat)
         /\ (s \o SubSeq(t, 1, n)) \o Drop(t, n) = s \o t
<1> DEFINE f == SubSeq(t, 1, n)
           v == Drop(t, n)
           u == s \o f
           w == u \o v
           x == s \o t
<1>1. f \in Seq(Nat) /\ Len(f) = n /\ \A i \in 1 .. n : f[i] = t[i]
  BY TakeBytes
<1>2. v \in Seq(Nat) /\ Len(v) = Len(t) - n /\ \A i \in 1 .. Len(t) - n : v[i] = t[i + n]
  BY DropBytes
<1> HIDE DEF f, v
<1>3. /\ u \in Seq(Nat) /\ Len(s) \in Nat /\ Len(u) = Len(s) + n
      /\ \A i \in 1 .. Len(s) : u[i] = s[i]
      /\ \A i \in 1 .. n : u[Len(s) + i] = f[i]
  <2>1. /\ u \in Seq(Nat) /\ Len(s) \in Nat /\ Len(u) = Len(s) + Len(f)
        /\ \A i \in 1 .. Len(s) : u[i] = s[i]
        /\ \A i \in 1 .. Len(f) : u[Len(s) + i] = f[i]
    BY <1>1, CatBytes, Zenon
  <2> HIDE DEF u
  <2> QED BY <1>1, <2>1
<1> HIDE DEF u
<1>4. /\ w \in Seq(Nat) /\ Len(w) = Len(u) + Len(v)
      /\ \A i \in 1 .. Len(u) : w[i] = u[i]
      /\ \A i \in 1 .. Len(v) : w[Len(u) + i] = v[i]
  BY <1>2, <1>3, CatBytes, Zenon
<1>5. /\ x \in Seq(Nat) /\ Len(t) \in Nat /\ Len(x) = Len(s) + Len(t)
      /\ \A i \in 1 .. Len(s) : x[i] = s[i]
      /\ \A i \in 1 .. Len(t) : x[Len(s) + i] = t[i]
  BY CatBytes
<1> HIDE DEF w, x
<1>6. Len(s) \in Nat /\ Len(t) \in Nat /\ Len(u) = Len(s) + n /\ Len(v) = Len(t) - n
  BY <1>2, <1>3, <1>5
<1>7. Len(w) = Len(s) + Len(t)
  <2>1. Len(w) = Len(u) + Len(v)
    BY <1>4
  <2> QED BY <1>6, <2>1
<1>8. ASSUME NEW i \in 1 .. Len(s) + Len(t)
      PROVE  w[i] = x[i]
  <2>1. CASE i <= Len(s)
    <3>1. i \in 1 .. Len(s) /\ i \in 1 .. Len(u)
      BY <1>6, <2>1
    <3>2. w[i] = u[i]
      BY <1>4, <3>1
    <3>3. u[i] = s[i]
      BY <1>3, <3>1
    <3>4. x[i] = s[i]
      BY <1>5, <3>1
    <3> QED BY <3>2, <3>3, <3>4
  <2>2. CASE i > Len(s) /\ i <= Len(s) + n
    <3>1. PICK j \in 1 .. n : i = Len(s) + j
      <4>1. i - Len(s) \in 1 .. n /\ i = Len(s) + (i - Len(s))
        BY <1>6, <2>2
      <4> QED BY <4>1
    <3>2. j \in 1 .. Len(t) /\ i \in 1 .. Len(u)
      BY <1>6, <3>1
    <3>3. w[i] = u[i]
      BY <1>4, <3>2
    <3>4. u[i] = f[j]
      BY <1>3, <3>1
    <3>5. f[j] = t[j]
      BY <1>1, <3>1
    <3>6. x[i] = t[j]
      BY <1>5, <3>1, <3>2
    <3> QED BY <3>3, <3>4, <3>5, <3>6
  <2>3. CASE i > Len(s) + n
    <3>1. PICK j \in 1 .. Len(t) - n : i = Len(s) + (j + n) /\ i = Len(u) + j
      <4>1. i - (Len(s) + n) \in 1 .. Len(t) - n
            /\ i = Len(s) + ((i - (Len(s) + n)) + n) /\ i = Len(u) + (i - (Len(s) + n))
        BY <1>6, <2>3
      <4> QED BY <4>1
    <3>2. j + n \in 1 .. Len(t) /\ j \in 1 .. Len(v)
      BY <1>6, <3>1
    <3>3. w[i] = v[j]
      BY <1>4, <3>1, <3>2
    <3>4. x[i] = t[j + n]
      BY <1>5, <3>1, <3>2
    <3>5. v[j] = t[j + n]
      BY <1>2, <3>1
    <3> QED BY <3>3, <3>4, <3>5
  <2> QED BY <1>6, <2>1, <2>2, <2>3
<1>9. w = x
  BY <1>4, <1>5, <1>7, <1>8, SameBytes
<1> QED BY <1>3, <1>9 DEF f, u, v, w, x

-----------------------------------------------------------------------------
(* Frames in a stream.                                                     *)

\* What encode_direct_tcp_frame writes.
LEMMA Encoded ==
  ASSUME NEW m \in Seq(Nat)
  PROVE  /\ EncodeFrame(m) \in Seq(Nat) /\ Len(EncodeFrame(m)) = 2 + Len(m)
         /\ FrameAt(EncodeFrame(m), 0, m)
<1> DEFINE h == <<0, Len(m)>>
           e == h \o m
<1>1. h \in Seq(Nat) /\ Len(h) = 2 /\ h[1] = 0 /\ h[2] = Len(m)
  OBVIOUS
<1> HIDE DEF h
<1>2. /\ e \in Seq(Nat) /\ Len(e) = Len(h) + Len(m)
      /\ \A i \in 1 .. Len(h) : e[i] = h[i]
      /\ \A i \in 1 .. Len(m) : e[Len(h) + i] = m[i]
  BY <1>1, CatBytes, Zenon
<1> HIDE DEF e
<1>3. e[1] = 0 /\ e[2] = Len(m) /\ \A i \in 1 .. Len(m) : e[2 + i] = m[i]
  BY <1>1, <1>2
<1>4. FrameAt(e, 0, m)
  BY <1>3 DEF FrameAt
<1> QED BY <1>1, <1>2, <1>4 DEF EncodeFrame, e, h

\* A frame stays where it is when bytes follow it.
LEMMA FrameKept ==
  ASSUME NEW s \in Seq(Nat), NEW t \in Seq(Nat), NEW m \in Seq(Nat), NEW p \in Nat,
         p + 2 + Len(m) <= Len(s), FrameAt(s, p, m)
  PROVE  FrameAt(s \o t, p, m)
<1> DEFINE x == s \o t
<1>1. Len(s) \in Nat /\ Len(m) \in Nat /\ \A i \in 1 .. Len(s) : x[i] = s[i]
  BY CatBytes
<1> HIDE DEF x
<1>2. p + 1 \in 1 .. Len(s) /\ p + 2 \in 1 .. Len(s)
      /\ \A b \in 1 .. Len(m) : p + 2 + b \in 1 .. Len(s)
  BY <1>1
<1>3. FrameAt(x, p, m)
  BY <1>1, <1>2 DEF FrameAt
<1> QED BY <1>3 DEF x

\* A frame put behind a stream.
LEMMA FrameAdded ==
  ASSUME NEW s \in Seq(Nat), NEW t \in Seq(Nat), NEW m \in Seq(Nat),
         2 + Len(m) <= Len(t), FrameAt(t, 0, m)
  PROVE  FrameAt(s \o t, Len(s), m)
<1> DEFINE x == s \o t
<1>1. /\ Len(s) \in Nat /\ Len(t) \in Nat /\ Len(m) \in Nat
      /\ \A i \in 1 .. Len(t) : x[Len(s) + i] = t[i]
  BY CatBytes
<1> HIDE DEF x
<1>2. 1 \in 1 .. Len(t) /\ 2 \in 1 .. Len(t)
      /\ \A b \in 1 .. Len(m) : 2 + b \in 1 .. Len(t) /\ Len(s) + (2 + b) = Len(s) + 2 + b
  BY <1>1
<1>3. t[1] = 0 /\ t[2] = Len(m) /\ \A b \in 1 .. Len(m) : t[2 + b] = m[b]
  BY DEF FrameAt
<1>4. x[Len(s) + 1] = 0 /\ x[Len(s) + 2] = Len(m)
  BY <1>1, <1>2, <1>3
<1>5. \A b \in 1 .. Len(m) : x[Len(s) + 2 + b] = m[b]
  BY <1>1, <1>2, <1>3
<1>6. FrameAt(x, Len(s), m)
  BY <1>4, <1>5 DEF FrameAt
<1> QED BY <1>6 DEF x

\* A frame moves to the front when bytes before it are taken away.
LEMMA FrameShifted ==
  ASSUME NEW s \in Seq(Nat), NEW m \in Seq(Nat), NEW p \in Nat, NEW n \in Nat,
         p + n + 2 + Len(m) <= Len(s), FrameAt(s, p + n, m)
  PROVE  FrameAt(Drop(s, n), p, m)
<1> DEFINE x == Drop(s, n)
<1>1. Len(s) \in Nat /\ Len(m) \in Nat
  OBVIOUS
<1>2. n <= Len(s)
  BY <1>1
<1>3. \A i \in 1 .. Len(s) - n : x[i] = s[i + n]
  BY <1>2, DropBytes
<1> HIDE DEF x
<1>4. p + 1 \in 1 .. Len(s) - n /\ p + 2 \in 1 .. Len(s) - n
      /\ \A b \in 1 .. Len(m) : p + 2 + b \in 1 .. Len(s) - n
  BY <1>1
<1>5. (p + 1) + n = (p + n) + 1 /\ (p + 2) + n = (p + n) + 2
      /\ \A b \in 1 .. Len(m) : (p + 2 + b) + n = (p + n) + 2 + b
  BY <1>1
<1>6. x[p + 1] = 0 /\ x[p + 2] = Len(m)
  BY <1>3, <1>4, <1>5 DEF FrameAt
<1>7. \A b \in 1 .. Len(m) : x[p + 2 + b] = m[b]
  BY <1>3, <1>4, <1>5 DEF FrameAt
<1>8. FrameAt(x, p, m)
  BY <1>6, <1>7 DEF FrameAt
<1> QED BY <1>8 DEF x

\* What is taken from the front of the buffer is taken from the front of the stream.
LEMMA DropFront ==
  ASSUME NEW s \in Seq(Nat), NEW t \in Seq(Nat), NEW n \in Nat, n <= Len(s)
  PROVE  Drop(s, n) \o t = Drop(s \o t, n)
<1> DEFINE d == Drop(s, n)
           x == s \o t
           w == d \o t
           y == Drop(x, n)
<1>1. /\ x \in Seq(Nat) /\ Len(s) \in Nat /\ Len(t) \in Nat /\ Len(x) = Len(s) + Len(t)
      /\ \A i \in 1 .. Len(s) : x[i] = s[i]
      /\ \A i \in 1 .. Len(t) : x[Len(s) + i] = t[i]
  BY CatBytes, Zenon
<1>2. d \in Seq(Nat) /\ Len(d) = Len(s) - n /\ \A i \in 1 .. Len(s) - n : d[i] = s[i + n]
  BY DropBytes
<1> HIDE DEF d, x
<1>3. /\ w \in Seq(Nat) /\ Len(w) = Len(d) + Len(t)
      /\ \A i \in 1 .. Len(d) : w[i] = d[i]
      /\ \A i \in 1 .. Len(t) : w[Len(d) + i] = t[i]
  BY <1>2, CatBytes, Zenon
<1>4. n <= Len(x)
  BY <1>1
<1>5. y \in Seq(Nat) /\ Len(y) = Len(x) - n /\ \A i \in 1 .. Len(x) - n : y[i] = x[i + n]
  BY <1>1, <1>4, DropBytes
<1> HIDE DEF w, y
<1>6. Len(d) = Len(s) - n /\ Len(x) = Len(s) + Len(t) /\ Len(s) \in Nat /\ Len(t) \in Nat
  BY <1>1, <1>2
<1>7. Len(w) = Len(y)
  <2>1. Len(w) = Len(d) + Len(t) /\ Len(y) = Len(x) - n
    BY <1>3, <1>5
  <2> QED BY <1>6, <2>1
<1>8. ASSUME NEW i \in 1 .. Len(w) PROVE w[i] = y[i]
  <2>0. i \in Nat /\ 1 <= i /\ i <= (Len(s) - n) + Len(t)
    <3>1. Len(w) = Len(d) + Len(t)
      BY <1>3
    <3> QED BY <1>6, <3>1
  <2>1. i \in 1 .. Len(x) - n
    BY <1>6, <2>0
  <2>2. y[i] = x[i + n]
    BY <1>5, <2>1
  <2>3. CASE i <= Len(s) - n
    <3>1. i \in 1 .. Len(d) /\ i + n \in 1 .. Len(s) /\ i \in 1 .. Len(s) - n
      BY <1>6, <2>0, <2>3
    <3>2. w[i] = d[i]
      BY <1>3, <3>1
    <3>3. d[i] = s[i + n]
      BY <1>2, <3>1
    <3>4. x[i + n] = s[i + n]
      BY <1>1, <3>1
    <3> QED BY <2>2, <3>2, <3>3, <3>4
  <2>4. CASE i > Len(s) - n
    <3>1. PICK j \in 1 .. Len(t) : i = Len(d) + j /\ i + n = Len(s) + j
      <4>1. i - (Len(s) - n) \in 1 .. Len(t) /\ i = Len(d) + (i - (Len(s) - n))
            /\ i + n = Len(s) + (i - (Len(s) - n))
        BY <1>6, <2>0, <2>4
      <4> QED BY <4>1
    <3>2. w[i] = t[j]
      BY <1>3, <3>1
    <3>3. x[i + n] = t[j]
      BY <1>1, <3>1
    <3> QED BY <2>2, <3>2, <3>3
  <2> QED BY <1>6, <2>0, <2>3, <2>4
<1>9. w = y
  BY <1>3, <1>5, <1>7, <1>8, SameBytes
<1> QED BY <1>9 DEF d, w, x, y

\* Nothing was sent.
LEMMA StreamEmpty == Holds(<< >>, << >>, 0)
<1> DEFINE pos == [i \in Nat |-> 0]
<1>1. pos \in [Nat -> Nat] /\ \A i \in Nat : pos[i] = 0
  OBVIOUS
<1> HIDE DEF pos
<1>2. Len(<< >>) = 0
  OBVIOUS
<1>3. 0 \in 0 .. Len(<< >>) /\ 1 .. Len(<< >>) = {} /\ 0 + 1 .. Len(<< >>) = {}
  BY <1>2
<1>4. pos[Len(<< >>) + 1] = 0 /\ pos[0 + 1] = 0
  BY <1>1, <1>2
<1>5. \A i, j \in 1 .. Len(<< >>) + 1 : i <= j => pos[i] <= pos[j]
  BY <1>1, <1>2
<1>6. Len(<< >>) = pos[Len(<< >>) + 1] - pos[0 + 1]
  BY <1>2, <1>4
<1>7. Framed(<< >>, << >>, 0, pos)
  BY <1>1, <1>3, <1>5, <1>6 DEF Framed
<1> QED BY <1>7 DEF Holds

\* A frame between two places of a stream fits into it.
LEMMA FrameFits ==
  ASSUME NEW a \in Nat, NEW b \in Nat, NEW e \in Nat, NEW l \in Nat, a <= b, b + 2 + l <= e
  PROVE  b - a \in Nat /\ (b - a) + 2 + l <= e - a
OBVIOUS

\* A message is sent behind the others.
LEMMA StreamAppend ==
  ASSUME NEW s \in Seq(Nat), NEW msgs \in Seq(Messages), NEW k, NEW m \in Messages,
         Holds(s, msgs, k)
  PROVE  Holds(s \o EncodeFrame(m), Append(msgs, m), k)
<1> DEFINE L == Len(msgs)
           f == EncodeFrame(m)
           x == s \o f
           more == Append(msgs, m)
<1>1. PICK pos : Framed(s, msgs, k, pos)
  BY DEF Holds
<1> DEFINE M == Len(m)
           N == Len(s)
           new == [i \in Nat |-> IF i = L + 2 THEN pos[L + 1] + 2 + M ELSE pos[i]]
<1>2. M \in Nat /\ L \in Nat /\ N \in Nat
  BY MessageBytes
<1>2a. m \in Seq(Nat)
  BY MessageBytes
<1>3. /\ Len(more) = L + 1 /\ more[L + 1] = m
      /\ \A i \in 1 .. L : more[i] = msgs[i] /\ msgs[i] \in Seq(Nat) /\ Len(msgs[i]) \in Nat
  <2>1. Len(more) = L + 1 /\ more[L + 1] = m /\ \A i \in 1 .. L : more[i] = msgs[i]
    OBVIOUS
  <2>2. \A i \in 1 .. L : msgs[i] \in Messages
    OBVIOUS
  <2>3. \A i \in 1 .. L : msgs[i] \in Seq(Nat)
    BY <2>2, MessageBytes
  <2>4. \A i \in 1 .. L : Len(msgs[i]) \in Nat
    BY <2>3
  <2> QED BY <2>1, <2>3, <2>4
<1> HIDE DEF more, L
<1>4. f \in Seq(Nat) /\ Len(f) = 2 + M /\ FrameAt(f, 0, m)
  BY <1>2a, Encoded
<1> HIDE DEF f
<1>5. x \in Seq(Nat) /\ Len(x) = N + 2 + M
  <2>1. x \in Seq(Nat) /\ Len(x) = N + Len(f)
    BY <1>4, CatBytes
  <2> HIDE DEF x, M, N
  <2> QED BY <1>2, <1>4, <2>1
<1> HIDE DEF x, M, N
<1>6. /\ pos \in [Nat -> Nat] /\ k \in 0 .. L
      /\ \A i \in 1 .. L : pos[i + 1] = pos[i] + 2 + Len(msgs[i])
      /\ \A i, j \in 1 .. L + 1 : i <= j => pos[i] <= pos[j]
      /\ N = pos[L + 1] - pos[k + 1]
      /\ \A i \in k + 1 .. L : FrameAt(s, pos[i] - pos[k + 1], msgs[i])
  BY <1>1 DEF Framed, L, N
<1>7. /\ pos \in [Nat -> Nat] /\ k \in 0 .. L /\ L + 1 \in Nat /\ k + 1 \in Nat
      /\ pos[L + 1] \in Nat /\ pos[k + 1] \in Nat
  <2>1. pos \in [Nat -> Nat] /\ k \in 0 .. L
    BY <1>6
  <2>2. L + 1 \in Nat /\ k + 1 \in Nat
    BY <1>2, <2>1
  <2> QED BY <2>1, <2>2
<1>7a. pos[L + 1] \in Nat /\ pos[k + 1] \in Nat
  BY <1>7
<1>8. new \in [Nat -> Nat]
  <2>1. pos[L + 1] + 2 + M \in Nat
    BY <1>2, <1>7a
  <2> QED BY <1>7, <2>1
<1>9. /\ new[L + 2] = pos[L + 1] + 2 + M
      /\ \A i \in 1 .. L + 1 : new[i] = pos[i] /\ new[i] \in Nat
  <2>1. L + 2 \in Nat /\ \A i \in 1 .. L + 1 : i \in Nat /\ i # L + 2
    BY <1>2
  <2> QED BY <1>7, <2>1
<1> HIDE DEF new
<1>10. \A i \in 1 .. L + 1 : new[i + 1] = new[i] + 2 + Len(more[i])
  <2> SUFFICES ASSUME NEW i \in 1 .. L + 1 PROVE new[i + 1] = new[i] + 2 + Len(more[i])
    OBVIOUS
  <2>1. CASE i = L + 1
    <3>1. i + 1 = L + 2 /\ L + 1 \in 1 .. L + 1
      BY <1>2, <2>1
    <3>2. new[i + 1] = pos[i] + 2 + M /\ new[i] = pos[i]
      BY <1>9, <2>1, <3>1
    <3>3. Len(more[i]) = M
      BY <1>3, <2>1 DEF M
    <3> QED BY <3>2, <3>3
  <2>2. CASE i # L + 1
    <3>1. i \in 1 .. L /\ i + 1 \in 1 .. L + 1
      BY <1>2, <2>2
    <3>2. new[i + 1] = pos[i + 1] /\ new[i] = pos[i]
      BY <1>9, <2>2, <3>1
    <3>3. more[i] = msgs[i] /\ pos[i + 1] = pos[i] + 2 + Len(msgs[i])
      BY <1>3, <1>6, <3>1
    <3> QED BY <3>2, <3>3
  <2> QED BY <2>1, <2>2
<1>11. \A i, j \in 1 .. L + 2 : i <= j => new[i] <= new[j]
  <2> SUFFICES ASSUME NEW i \in 1 .. L + 2, NEW j \in 1 .. L + 2, i <= j
               PROVE  new[i] <= new[j]
    OBVIOUS
  <2>1. CASE j # L + 2
    <3>1. i \in 1 .. L + 1 /\ j \in 1 .. L + 1
      BY <1>2, <2>1
    <3>2. new[i] = pos[i] /\ new[j] = pos[j]
      BY <1>9, <3>1
    <3>3. pos[i] <= pos[j]
      BY <1>6, <3>1
    <3> QED BY <3>2, <3>3
  <2>2. CASE j = L + 2 /\ i = L + 2
    <3>1. new[L + 2] = pos[L + 1] + 2 + M
      BY <1>9
    <3>2. new[L + 2] \in Nat
      BY <1>2, <1>7a, <3>1
    <3> QED BY <2>2, <3>2
  <2>3. CASE j = L + 2 /\ i # L + 2
    <3>1. i \in 1 .. L + 1 /\ L + 1 \in 1 .. L + 1 /\ i <= L + 1
      BY <1>2, <2>3
    <3>2. pos[i] <= pos[L + 1] /\ new[i] = pos[i] /\ pos[i] \in Nat
      <4>1. pos[i] <= pos[L + 1]
        BY <1>6, <3>1
      <4> QED BY <1>9, <3>1, <4>1
    <3>3. new[j] = pos[L + 1] + 2 + M
      BY <1>9, <2>3
    <3> QED BY <1>2, <1>7a, <3>2, <3>3
  <2> QED BY <2>1, <2>2, <2>3
<1>12. k + 1 \in 1 .. L + 1 /\ new[k + 1] = pos[k + 1]
  <2>1. k + 1 \in 1 .. L + 1
    BY <1>2, <1>7
  <2> QED BY <1>9, <2>1
<1>13. Len(x) = new[L + 2] - new[k + 1]
  <2>1. N = pos[L + 1] - pos[k + 1]
    BY <1>6
  <2>2. new[L + 2] = pos[L + 1] + 2 + M /\ new[k + 1] = pos[k + 1]
    BY <1>9, <1>12
  <2>3. Len(x) = N + 2 + M
    BY <1>5
  <2>4. (pos[L + 1] - pos[k + 1]) + 2 + M = (pos[L + 1] + 2 + M) - pos[k + 1]
    BY <1>2, <1>7a
  <2> QED BY <2>1, <2>2, <2>3, <2>4
<1>14. \A i \in k + 1 .. L + 1 : FrameAt(x, new[i] - new[k + 1], more[i])
  <2> SUFFICES ASSUME NEW i \in k + 1 .. L + 1 PROVE FrameAt(x, new[i] - new[k + 1], more[i])
    OBVIOUS
  <2>1. CASE i = L + 1
    <3>1. new[i] - new[k + 1] = N /\ more[i] = m
      <4>1. new[i] = pos[L + 1]
        <5>1. L + 1 \in 1 .. L + 1
          BY <1>2
        <5> QED BY <1>9, <2>1, <5>1
      <4>2. N = pos[L + 1] - pos[k + 1] /\ more[i] = m
        BY <1>3, <1>6, <2>1
      <4> QED BY <1>12, <4>1, <4>2
    <3>2. 2 + M <= Len(f)
      BY <1>2, <1>4
    <3> QED BY <1>2a, <1>4, <3>1, <3>2, FrameAdded DEF x, M, N
  <2>2. CASE i # L + 1
    <3>1. /\ i \in k + 1 .. L /\ i \in 1 .. L /\ i \in 1 .. L + 1 /\ i + 1 \in 1 .. L + 1
          /\ k + 1 <= i /\ i + 1 <= L + 1 /\ L + 1 \in 1 .. L + 1
      BY <1>2, <1>7, <2>2
    <3>2. /\ FrameAt(s, pos[i] - pos[k + 1], msgs[i]) /\ pos[k + 1] <= pos[i]
          /\ pos[i + 1] <= pos[L + 1] /\ pos[i + 1] = pos[i] + 2 + Len(msgs[i])
          /\ pos[i] \in Nat
      <4>1. FrameAt(s, pos[i] - pos[k + 1], msgs[i])
        BY <1>6, <3>1
      <4>2. pos[k + 1] <= pos[i]
        BY <1>6, <1>12, <3>1
      <4>3. pos[i + 1] <= pos[L + 1]
        BY <1>6, <3>1
      <4>4. pos[i + 1] = pos[i] + 2 + Len(msgs[i])
        BY <1>6, <3>1
      <4>5. pos[i] \in Nat
        BY <1>7, <3>1
      <4> QED BY <4>1, <4>2, <4>3, <4>4, <4>5
    <3>3. more[i] = msgs[i] /\ msgs[i] \in Seq(Nat) /\ Len(msgs[i]) \in Nat /\ new[i] = pos[i]
      <4>1. new[i] = pos[i]
        BY <1>9, <3>1
      <4> QED BY <1>3, <3>1, <4>1
    <3> DEFINE p == pos[i] - pos[k + 1]
    <3>4. N = pos[L + 1] - pos[k + 1]
      BY <1>6
    <3>5. p \in Nat /\ p + 2 + Len(msgs[i]) <= N
      <4> DEFINE l == Len(msgs[i])
      <4>1. l \in Nat /\ pos[i + 1] = pos[i] + 2 + l
        BY <3>2, <3>3
      <4> HIDE DEF l
      <4>2. pos[i] \in Nat /\ pos[k + 1] <= pos[i] /\ pos[i + 1] <= pos[L + 1]
        BY <3>2
      <4>3. p \in Nat /\ p + 2 + l <= N
        <5>1. pos[i] + 2 + l <= pos[L + 1]
          BY <4>1, <4>2
        <5> QED BY <1>7a, <3>4, <4>1, <4>2, <5>1, FrameFits
      <4> QED BY <4>3 DEF l
    <3>6. FrameAt(x, p, msgs[i])
      BY <1>4, <3>2, <3>3, <3>5, FrameKept DEF x, N
    <3> QED BY <1>12, <3>3, <3>6
  <2> QED BY <2>1, <2>2
<1>15. k \in 0 .. Len(more) /\ Len(more) = L + 1 /\ Len(more) + 1 = L + 2
  BY <1>2, <1>3, <1>7
<1>16. Framed(x, more, k, new)
  <2> QED BY <1>8, <1>10, <1>11, <1>13, <1>14, <1>15 DEF Framed
<1> QED BY <1>16 DEF Holds, f, more, x

\* A stream with a header in it has the first message that was not taken at
\* its front; without that frame it holds the messages after it.
LEMMA StreamTake ==
  ASSUME NEW s \in Seq(Nat), NEW msgs \in Seq(Messages), NEW k \in Nat,
         Holds(s, msgs, k), Len(s) >= 2
  PROVE  /\ k + 1 \in 1 .. Len(msgs) /\ msgs[k + 1] \in Seq(Nat)
         /\ FrameAt(s, 0, msgs[k + 1]) /\ 2 + Len(msgs[k + 1]) <= Len(s)
         /\ Holds(Drop(s, 2 + Len(msgs[k + 1])), msgs, k + 1)
<1> DEFINE L == Len(msgs)
           N == Len(s)
<1>1. PICK pos : Framed(s, msgs, k, pos)
  BY DEF Holds
<1>2. L \in Nat /\ N \in Nat /\ N >= 2
  OBVIOUS
<1>3. \A i \in 1 .. L : msgs[i] \in Seq(Nat) /\ Len(msgs[i]) \in Nat
  <2>1. \A i \in 1 .. L : msgs[i] \in Messages
    OBVIOUS
  <2>2. \A i \in 1 .. L : msgs[i] \in Seq(Nat)
    BY <2>1, MessageBytes
  <2> QED BY <2>2
<1>4. /\ pos \in [Nat -> Nat] /\ k \in 0 .. L
      /\ \A i \in 1 .. L : pos[i + 1] = pos[i] + 2 + Len(msgs[i])
      /\ \A i, j \in 1 .. L + 1 : i <= j => pos[i] <= pos[j]
      /\ N = pos[L + 1] - pos[k + 1]
      /\ \A i \in k + 1 .. L : FrameAt(s, pos[i] - pos[k + 1], msgs[i])
  BY <1>1 DEF Framed
<1> HIDE DEF L, N
<1>5. /\ \A i \in Nat : pos[i] \in Nat
      /\ k <= L /\ k + 1 \in Nat /\ L + 1 \in Nat /\ (k + 1) + 1 \in Nat
  <2>1. \A i \in Nat : pos[i] \in Nat
    BY <1>4
  <2>2. k \in 0 .. L
    BY <1>4
  <2> QED BY <1>2, <2>1, <2>2
<1>6. pos[k + 1] \in Nat /\ pos[L + 1] \in Nat /\ pos[(k + 1) + 1] \in Nat
  BY <1>5
<1>7. k # L
  <2>1. N = pos[L + 1] - pos[k + 1]
    BY <1>4
  <2>2. pos[k + 1] - pos[k + 1] = 0
    BY <1>6
  <2> QED BY <1>2, <2>1, <2>2
<1>8. k + 1 \in 1 .. L /\ k + 1 \in k + 1 .. L /\ (k + 1) + 1 \in 1 .. L + 1 /\ L + 1 \in 1 .. L + 1
      /\ (k + 1) + 1 <= L + 1 /\ k + 1 \in 0 .. L
  BY <1>2, <1>5, <1>7
<1>9. pos[(k + 1) + 1] = pos[k + 1] + 2 + Len(msgs[k + 1])
  BY <1>4, <1>8
<1>10. pos[(k + 1) + 1] <= pos[L + 1]
  BY <1>4, <1>8
<1> DEFINE M == Len(msgs[k + 1])
           d == 2 + M
           x == Drop(s, d)
<1>11. M \in Nat /\ msgs[k + 1] \in Seq(Nat)
  BY <1>3, <1>8
<1>12. pos[(k + 1) + 1] = pos[k + 1] + d /\ d \in Nat /\ d <= N /\ N - d = pos[L + 1] - pos[(k + 1) + 1]
  <2>1. N = pos[L + 1] - pos[k + 1] /\ M \in Nat /\ pos[(k + 1) + 1] = pos[k + 1] + 2 + M
    BY <1>4, <1>9, <1>11
  <2> DEFINE a == pos[k + 1]
             b == pos[(k + 1) + 1]
             e == pos[L + 1]
  <2>2. a \in Nat /\ b \in Nat /\ e \in Nat /\ b <= e /\ b = a + 2 + M /\ N = e - a /\ M \in Nat
    BY <1>6, <1>10, <2>1
  <2> HIDE DEF M, a, b, e
  <2>3. b = a + (2 + M) /\ 2 + M \in Nat /\ 2 + M <= N /\ N - (2 + M) = e - b
    BY <2>2
  <2> QED BY <2>3 DEF a, b, e
<1>13. FrameAt(s, 0, msgs[k + 1])
  <2>1. FrameAt(s, pos[k + 1] - pos[k + 1], msgs[k + 1])
    BY <1>4, <1>8
  <2>2. pos[k + 1] - pos[k + 1] = 0
    BY <1>6
  <2> QED BY <2>1, <2>2
<1>14. Len(x) = N - d
  <2>1. d \in Nat /\ d <= Len(s)
    BY <1>12 DEF N
  <2> HIDE DEF d
  <2> QED BY <2>1, DropBytes DEF N
<1> HIDE DEF M, d, x
<1>15. \A i \in (k + 1) + 1 .. L : FrameAt(x, pos[i] - pos[(k + 1) + 1], msgs[i])
  <2> SUFFICES ASSUME NEW i \in (k + 1) + 1 .. L
               PROVE  FrameAt(x, pos[i] - pos[(k + 1) + 1], msgs[i])
    OBVIOUS
  <2>1. /\ i \in k + 1 .. L /\ i \in 1 .. L /\ i \in 1 .. L + 1 /\ i + 1 \in 1 .. L + 1
        /\ i + 1 <= L + 1 /\ (k + 1) + 1 <= i /\ i \in Nat
    BY <1>2, <1>5
  <2>2. FrameAt(s, pos[i] - pos[k + 1], msgs[i])
    BY <1>4, <2>1
  <2>3. pos[(k + 1) + 1] <= pos[i]
    BY <1>4, <1>8, <2>1
  <2>4. pos[i + 1] <= pos[L + 1]
    BY <1>4, <1>8, <2>1
  <2>5. pos[i + 1] = pos[i] + 2 + Len(msgs[i])
    BY <1>4, <2>1
  <2>6. msgs[i] \in Seq(Nat) /\ Len(msgs[i]) \in Nat /\ pos[i] \in Nat
    BY <1>3, <1>5, <2>1
  <2>7. N = pos[L + 1] - pos[k + 1]
    BY <1>4
  <2> DEFINE l == Len(msgs[i])
             p == pos[i] - pos[(k + 1) + 1]
  <2>8. l \in Nat /\ pos[i + 1] = pos[i] + 2 + l
    BY <2>5, <2>6
  <2> HIDE DEF l
  <2>9. pos[(k + 1) + 1] = pos[k + 1] + d /\ d \in Nat
    BY <1>12
  <2>10. p \in Nat /\ pos[i] - pos[k + 1] = p + d /\ pos[k + 1] <= pos[i]
    <3> DEFINE a == pos[k + 1]
               b == pos[i]
               c == pos[(k + 1) + 1]
    <3>1. a \in Nat /\ b \in Nat /\ c \in Nat /\ d \in Nat /\ c = a + d /\ c <= b
      BY <1>6, <2>3, <2>6, <2>9
    <3> HIDE DEF a, b, c
    <3>2. b - c \in Nat /\ b - a = (b - c) + d /\ a <= b
      BY <3>1
    <3> QED BY <3>2 DEF a, b, c
  <2>11. (p + d) + 2 + l <= N
    <3>1. pos[i] + 2 + l <= pos[L + 1] /\ pos[k + 1] <= pos[i]
      BY <2>4, <2>8, <2>10
    <3>2. (pos[i] - pos[k + 1]) + 2 + l <= pos[L + 1] - pos[k + 1]
      BY <1>6, <2>6, <2>8, <3>1, FrameFits
    <3> QED BY <2>7, <2>10, <3>2
  <2> HIDE DEF p
  <2>12. FrameAt(s, p + d, msgs[i])
    BY <2>2, <2>10
  <2>13. FrameAt(x, p, msgs[i])
    BY <2>6, <2>9, <2>10, <2>11, <2>12, FrameShifted DEF l, N, x
  <2> QED BY <2>13 DEF p
<1>16. Len(x) = pos[L + 1] - pos[(k + 1) + 1]
  BY <1>12, <1>14
<1>17. Framed(x, msgs, k + 1, pos)
  BY <1>4, <1>8, <1>15, <1>16 DEF Framed, L
<1>18. Holds(x, msgs, k + 1)
  BY <1>17 DEF Holds
<1> QED BY <1>8, <1>11, <1>12, <1>13, <1>18 DEF L, M, N, d, x

\* What is taken from any buffer is bytes.
LEMMA TakenBytes ==
  ASSUME NEW buffer \in Seq(Nat)
  PROVE  TryTake(buffer).rest \in Seq(Nat) /\ TryTake(buffer).message \in Seq(Nat)
<1> DEFINE take == TryTake(buffer)
           n == buffer[2]
<1>1. << >> \in Seq(Nat)
  OBVIOUS
<1>2. \/ take.rest = buffer /\ take.message = << >>
      \/ /\ ~(Len(buffer) < HeaderSize) /\ ~(Len(buffer) < HeaderSize + n)
         /\ take.message = SubSeq(buffer, HeaderSize + 1, HeaderSize + n)
         /\ take.rest = Drop(buffer, HeaderSize + n)
  BY DEF TryTake, PayloadLen
<1> HIDE DEF take
<1>3. ASSUME ~(Len(buffer) < HeaderSize), ~(Len(buffer) < HeaderSize + n)
      PROVE  /\ SubSeq(buffer, HeaderSize + 1, HeaderSize + n) \in Seq(Nat)
             /\ Drop(buffer, HeaderSize + n) \in Seq(Nat)
  <2>1. HeaderSize = 2 /\ HeaderSize + 1 = 3 /\ Len(buffer) \in Nat
    BY DEF HeaderSize
  <2>2. 2 \in 1 .. Len(buffer)
    BY <1>3, <2>1
  <2>3. n \in Nat
    BY <2>2
  <2> HIDE DEF n
  <2>4. 2 + n \in Nat /\ 2 + n <= Len(buffer)
    BY <1>3, <2>1, <2>3
  <2> QED BY <2>1, <2>3, <2>4, CutBytes, DropBytes
<1> QED BY <1>1, <1>2, <1>3 DEF take

\* What try_take_message makes of a buffer at the front of a stream.
LEMMA TakeMessage ==
  ASSUME NEW buffer \in Seq(Nat), NEW tail \in Seq(Nat), NEW msgs \in Seq(Messages), NEW k \in Nat,
         Holds(buffer \o tail, msgs, k)
  PROVE  LET take == TryTake(buffer) IN
         /\ take.rest \in Seq(Nat)
         /\ take.found # "message" => take.rest = buffer
         /\ take.found = "message" =>
              /\ k + 1 \in 1 .. Len(msgs) /\ take.message = msgs[k + 1]
              /\ Holds(take.rest \o tail, msgs, k + 1)
<1> DEFINE take == TryTake(buffer)
           s == buffer \o tail
<1>1. /\ s \in Seq(Nat) /\ Len(buffer) \in Nat /\ Len(s) = Len(buffer) + Len(tail)
      /\ \A i \in 1 .. Len(buffer) : s[i] = buffer[i]
  BY CatBytes
<1>2. Len(tail) \in Nat
  OBVIOUS
<1> HIDE DEF s
<1>3. CASE take.found # "message"
  <2>1. take.rest = buffer
    BY <1>3 DEF TryTake
  <2> QED BY <1>3, <2>1
<1>4. CASE take.found = "message"
  <2> DEFINE n == buffer[2]
  <2>1. /\ ~(Len(buffer) < 2) /\ ~(Len(buffer) < 2 + n)
        /\ take.message = SubSeq(buffer, 3, 2 + n) /\ take.rest = Drop(buffer, 2 + n)
    <3>1. /\ ~(Len(buffer) < HeaderSize) /\ ~(Len(buffer) < HeaderSize + n)
          /\ take = [found |-> "message", message |-> SubSeq(buffer, HeaderSize + 1, HeaderSize + n),
                     rest |-> Drop(buffer, HeaderSize + n)]
      BY <1>4 DEF TryTake, PayloadLen
    <3> HIDE DEF take
    <3>2. HeaderSize = 2 /\ HeaderSize + 1 = 3
      BY DEF HeaderSize
    <3> QED BY <3>1, <3>2
  <2> HIDE DEF take
  <2>2. Len(s) >= 2 /\ 1 \in 1 .. Len(buffer) /\ 2 \in 1 .. Len(buffer)
    <3>1. ~(Len(buffer) < 2) /\ Len(s) = Len(buffer) + Len(tail) /\ Len(buffer) \in Nat
      BY <1>1, <2>1
    <3> QED BY <1>2, <3>1
  <2>3. /\ k + 1 \in 1 .. Len(msgs) /\ msgs[k + 1] \in Seq(Nat)
        /\ FrameAt(s, 0, msgs[k + 1]) /\ 2 + Len(msgs[k + 1]) <= Len(s)
        /\ Holds(Drop(s, 2 + Len(msgs[k + 1])), msgs, k + 1)
    BY <1>1, <2>2, StreamTake DEF s
  <2> DEFINE m == msgs[k + 1]
             M == Len(m)
  <2>4. m \in Seq(Nat) /\ M \in Nat
    BY <2>3
  <2>5. s[2] = M /\ \A b \in 1 .. M : s[2 + b] = m[b]
    BY <2>3 DEF FrameAt
  <2> HIDE DEF m, M
  <2>6. n = M
    BY <1>1, <2>2, <2>5
  <2>7. 2 + M \in Nat /\ 2 + M <= Len(buffer)
    <3>1. ~(Len(buffer) < 2 + M) /\ Len(buffer) \in Nat
      BY <1>1, <2>1, <2>6
    <3> QED BY <2>4, <3>1
  <2>8. \A b \in 1 .. M : 2 + b \in 1 .. Len(buffer)
    BY <1>1, <2>4, <2>7
  <2>9. \A b \in 1 .. M : buffer[2 + b] = m[b]
    BY <1>1, <2>5, <2>8
  <2>10. take.message = m
    <3> DEFINE r == SubSeq(buffer, 3, 2 + M)
    <3>1. r \in Seq(Nat) /\ Len(r) = M /\ \A b \in 1 .. M : r[b] = buffer[2 + b]
      BY <2>4, <2>7, CutBytes
    <3> HIDE DEF r
    <3>2. Len(m) = M
      BY DEF M
    <3>3. r = m
      BY <2>4, <2>9, <3>1, <3>2, SameBytes
    <3> QED BY <2>1, <2>6, <3>3 DEF r
  <2>11. Drop(buffer, 2 + M) \in Seq(Nat) /\ Drop(buffer, 2 + M) \o tail = Drop(s, 2 + M)
    BY <2>7, DropBytes, DropFront DEF s
  <2>12. Holds(Drop(s, 2 + M), msgs, k + 1)
    BY <2>3 DEF M, m
  <2>13. take.rest \in Seq(Nat) /\ Holds(take.rest \o tail, msgs, k + 1)
    BY <2>1, <2>6, <2>11, <2>12
  <2> QED BY <1>4, <2>3, <2>10, <2>13 DEF m, take
<1> QED BY <1>3, <1>4

-----------------------------------------------------------------------------
(* The messages of one direction.                                          *)

\* One more is sent.
LEMMA PrefixSent ==
  ASSUME NEW S, NEW T, NEW r \in Seq(S), NEW s \in Seq(T), NEW m \in T, Prefix(r, s)
  PROVE  Append(s, m) \in Seq(T) /\ Prefix(r, Append(s, m))
<1> DEFINE x == Append(s, m)
<1>1. Len(r) \in Nat /\ Len(s) \in Nat /\ Len(r) <= Len(s) /\ \A i \in 1 .. Len(r) : r[i] = s[i]
  BY DEF Prefix
<1>2. x \in Seq(T) /\ Len(x) = Len(s) + 1 /\ \A i \in 1 .. Len(s) : x[i] = s[i]
  OBVIOUS
<1> HIDE DEF x
<1>3. \A i \in 1 .. Len(r) : i \in 1 .. Len(s)
  BY <1>1
<1>4. Len(r) <= Len(x)
  BY <1>1, <1>2
<1>5. Prefix(r, x)
  BY <1>1, <1>2, <1>3, <1>4 DEF Prefix
<1> QED BY <1>2, <1>5 DEF x

\* The next one arrives.
LEMMA PrefixTaken ==
  ASSUME NEW S, NEW T, NEW r \in Seq(S), NEW s \in Seq(T), NEW m \in S, Prefix(r, s),
         Len(r) + 1 \in 1 .. Len(s), m = s[Len(r) + 1]
  PROVE  /\ Append(r, m) \in Seq(S) /\ Len(Append(r, m)) = Len(r) + 1
         /\ Prefix(Append(r, m), s)
<1> DEFINE x == Append(r, m)
<1>1. Len(r) \in Nat /\ Len(s) \in Nat /\ \A i \in 1 .. Len(r) : r[i] = s[i]
  BY DEF Prefix
<1>2. /\ x \in Seq(S) /\ Len(x) = Len(r) + 1 /\ x[Len(r) + 1] = m
      /\ \A i \in 1 .. Len(r) : x[i] = r[i]
  OBVIOUS
<1> HIDE DEF x
<1>3. \A i \in 1 .. Len(x) : i \in 1 .. Len(r) \/ i = Len(r) + 1
  BY <1>1, <1>2
<1>4. Len(x) <= Len(s)
  BY <1>1, <1>2
<1>5. \A i \in 1 .. Len(x) : x[i] = s[i]
  BY <1>1, <1>2, <1>3
<1>6. Prefix(x, s)
  BY <1>4, <1>5 DEF Prefix
<1> QED BY <1>2, <1>6 DEF x

-----------------------------------------------------------------------------
(* Receiving.                                                              *)

\* One turn of the loop takes at most the next message and loses no byte.
LEMMA LoopInv ==
  ASSUME InInv, NEW buffer \in Seq(Nat), inbound' \in Seq(Nat), sent' = sent,
         buffer \o inbound' = readBuffer \o inbound, Loop(buffer)
  PROVE  InInv' /\ (Incoming!Receive \/ received' = received)
<1> DEFINE take == TryTake(buffer)
           k == Len(received)
<1>1. /\ sent \in Seq(Messages) /\ received \in Seq(Messages) /\ Prefix(received, sent)
      /\ Holds(buffer \o inbound', sent, k) /\ k \in Nat
  BY DEF InInv
<1>2. /\ take.rest \in Seq(Nat)
      /\ take.found # "message" => take.rest = buffer
      /\ take.found = "message" =>
           /\ k + 1 \in 1 .. Len(sent) /\ take.message = sent[k + 1]
           /\ Holds(take.rest \o inbound', sent, k + 1)
  BY <1>1, TakeMessage
<1>3. /\ readBuffer' = take.rest
      /\ received' = IF take.found = "message" THEN Append(received, take.message) ELSE received
  BY DEF Loop
<1> HIDE DEF take
<1>4. CASE take.found # "message"
  <2>1. readBuffer' = buffer /\ received' = received
    BY <1>2, <1>3, <1>4
  <2>2. Len(received') = k
    BY <2>1
  <2>3. Holds(readBuffer' \o inbound', sent', Len(received'))
    BY <1>1, <2>1, <2>2
  <2> QED BY <1>1, <2>1, <2>3 DEF InInv
<1>5. CASE take.found = "message"
  <2>1. sent[k + 1] \in Messages
    BY <1>1, <1>2, <1>5
  <2>2. /\ received' = Append(received, sent[k + 1]) /\ readBuffer' = take.rest
        /\ k + 1 \in 1 .. Len(sent) /\ Holds(take.rest \o inbound', sent, k + 1)
    BY <1>2, <1>3, <1>5
  <2>3. received' \in Seq(Messages) /\ Len(received') = k + 1 /\ Prefix(received', sent)
    BY <1>1, <2>1, <2>2, PrefixTaken
  <2>4. Holds(readBuffer' \o inbound', sent', Len(received'))
    BY <2>2, <2>3
  <2>5. InInv'
    BY <1>1, <1>2, <2>2, <2>3, <2>4 DEF InInv
  <2>6. Len(received) < Len(sent)
    <3>1. Len(sent) \in Nat
      BY <1>1
    <3> QED BY <1>1, <2>2, <3>1
  <2>7. Incoming!Receive
    BY <2>2, <2>6 DEF Incoming!Receive
  <2> QED BY <2>5, <2>7
<1> QED BY <1>4, <1>5

\* Every step keeps the incoming side, and is a step of the channel or none.
LEMMA InStep ==
  ASSUME InInv, [Next]_vars
  PROVE  InInv' /\ [Incoming!Next]_<<sent, received>>
<1>1. CASE UNCHANGED <<readBuffer, inbound, sent, received>>
  BY <1>1 DEF InInv
<1>2. ASSUME NEW message \in Messages, PeerSends(message)
      PROVE  InInv' /\ [Incoming!Next]_<<sent, received>>
  <2> DEFINE f == EncodeFrame(message)
  <2>1. /\ sent' = Append(sent, message) /\ inbound' = inbound \o f
        /\ readBuffer' = readBuffer /\ received' = received
    BY <1>2 DEF PeerSends
  <2>2. f \in Seq(Nat)
    BY MessageBytes, Encoded
  <2> HIDE DEF f
  <2>3. /\ readBuffer \in Seq(Nat) /\ inbound \in Seq(Nat) /\ received \in Seq(Messages)
        /\ sent \in Seq(Messages) /\ Prefix(received, sent)
        /\ Holds(readBuffer \o inbound, sent, Len(received))
    BY DEF InInv
  <2>4. readBuffer \o inbound \in Seq(Nat) /\ inbound \o f \in Seq(Nat)
        /\ (readBuffer \o inbound) \o f = readBuffer \o (inbound \o f)
    <3>1. readBuffer \o inbound \in Seq(Nat)
      BY <2>3, CatBytes
    <3>2. inbound \o f \in Seq(Nat)
      BY <2>2, <2>3, CatBytes
    <3>3. (readBuffer \o inbound) \o f = readBuffer \o (inbound \o f)
      BY <2>2, <2>3, CatAssociative
    <3> QED BY <3>1, <3>2, <3>3
  <2>5. Holds((readBuffer \o inbound) \o f, Append(sent, message), Len(received))
    BY <2>3, <2>4, StreamAppend DEF f
  <2>6. Append(sent, message) \in Seq(Messages) /\ Prefix(received, Append(sent, message))
    BY <2>3, PrefixSent
  <2>7. InInv'
    BY <2>1, <2>3, <2>4, <2>5, <2>6 DEF InInv
  <2>8. Incoming!Next
    BY <2>1 DEF Incoming!Next, Incoming!Send
  <2> QED BY <2>7, <2>8
<1>3. CASE Receive
  <2>1. inbound' = inbound /\ sent' = sent /\ Loop(readBuffer)
    BY <1>3 DEF Receive
  <2>2. readBuffer \in Seq(Nat) /\ inbound' \in Seq(Nat)
    BY <2>1 DEF InInv
  <2>3. InInv' /\ (Incoming!Receive \/ received' = received)
    BY <2>1, <2>2, LoopInv
  <2> QED BY <2>1, <2>3 DEF Incoming!Next
<1>4. ASSUME NEW n \in 1 .. ReadChunk, ReadSome(n)
      PROVE  InInv' /\ [Incoming!Next]_<<sent, received>>
  <2>0. n \in Nat
    BY TransportLimits
  <2>1. /\ n <= Len(inbound) /\ Loop(readBuffer \o SubSeq(inbound, 1, n))
        /\ inbound' = Drop(inbound, n) /\ sent' = sent
    BY <1>4 DEF ReadSome
  <2>2. readBuffer \in Seq(Nat) /\ inbound \in Seq(Nat)
    BY DEF InInv
  <2>3. /\ readBuffer \o SubSeq(inbound, 1, n) \in Seq(Nat)
        /\ (readBuffer \o SubSeq(inbound, 1, n)) \o Drop(inbound, n) = readBuffer \o inbound
    BY <2>0, <2>1, <2>2, MoveBytes
  <2>4. Drop(inbound, n) \in Seq(Nat)
    BY <2>0, <2>1, <2>2, DropBytes
  <2>5. InInv' /\ (Incoming!Receive \/ received' = received)
    BY <2>1, <2>3, <2>4, LoopInv
  <2> QED BY <2>1, <2>5 DEF Incoming!Next
<1> QED
  BY <1>1, <1>2, <1>3, <1>4
  DEF Next, vars, PeerCloses, ReceiveInterrupted, ReadEof, SendInterrupted, PeerTakes, SendMessage,
      WriteSome, receiving

-----------------------------------------------------------------------------
(* Sending.                                                                *)

\* Every step keeps the outgoing side.
LEMMA OutStep ==
  ASSUME OutInv, [Next]_vars
  PROVE  OutInv'
<1>0. /\ frame \in Seq(Nat) /\ outbound \in Seq(Nat)
      /\ given \in Seq(Messages) /\ taken \in Seq(Seq(Nat)) /\ cut \in BOOLEAN
      /\ op # "send" => frame = << >>
      /\ ~cut => Prefix(taken, given) /\ Holds(outbound \o frame, given, Len(taken))
  BY DEF OutInv
<1>1. CASE UNCHANGED <<frame, outbound, given, taken, cut>> /\ (op' = "send" => op = "send")
           /\ (op = "send" => op' = "send")
  BY <1>0, <1>1 DEF OutInv
<1>2. ASSUME NEW message \in Messages, SendMessage(message)
      PROVE  OutInv'
  <2> DEFINE f == EncodeFrame(message)
  <2>1. /\ op = "idle" /\ op' = "send" /\ given' = Append(given, message) /\ frame' = f
        /\ outbound' = outbound /\ taken' = taken /\ cut' = cut
    BY <1>2 DEF SendMessage
  <2>2. f \in Seq(Nat)
    BY MessageBytes, Encoded
  <2>3. outbound \o frame = outbound
    <3>1. frame = << >>
      BY <1>0, <2>1
    <3> QED BY <1>0, <3>1
  <2>4. given' \in Seq(Messages)
    BY <1>0, <2>1
  <2>5. ASSUME ~cut'
        PROVE  Prefix(taken', given') /\ Holds(outbound' \o frame', given', Len(taken'))
    <3>1. Prefix(taken, given) /\ Holds(outbound, given, Len(taken))
      BY <1>0, <2>1, <2>3, <2>5
    <3>2. Prefix(taken, Append(given, message))
      BY <1>0, <3>1, PrefixSent
    <3>3. Holds(outbound \o f, Append(given, message), Len(taken))
      BY <1>0, <3>1, StreamAppend
    <3> QED BY <2>1, <3>2, <3>3
  <2> HIDE DEF f
  <2> QED BY <1>0, <2>1, <2>2, <2>4, <2>5 DEF OutInv
<1>3. ASSUME NEW n \in 1 .. ReadChunk, WriteSome(n)
      PROVE  OutInv'
  <2>0. n \in Nat
    BY TransportLimits
  <2>1. /\ n <= Len(frame) /\ outbound' = outbound \o SubSeq(frame, 1, n)
        /\ frame' = Drop(frame, n) /\ op' = IF n = Len(frame) THEN "idle" ELSE "send"
        /\ given' = given /\ taken' = taken /\ cut' = cut
    BY <1>3 DEF WriteSome
  <2>2. outbound' \in Seq(Nat) /\ outbound' \o frame' = outbound \o frame
    BY <1>0, <2>0, <2>1, MoveBytes
  <2>3. frame' \in Seq(Nat) /\ Len(frame') = Len(frame) - n
    BY <1>0, <2>0, <2>1, DropBytes
  <2>4. op' # "send" => frame' = << >>
    <3> SUFFICES ASSUME n = Len(frame) PROVE frame' = << >>
      BY <2>1
    <3>1. Len(frame') = 0
      BY <2>0, <2>3
    <3> QED BY <2>3, <3>1
  <2>5. ~cut' => Prefix(taken', given') /\ Holds(outbound' \o frame', given', Len(taken'))
    BY <1>0, <2>1, <2>2
  <2> QED BY <1>0, <2>1, <2>2, <2>3, <2>4, <2>5 DEF OutInv
<1>4. CASE SendInterrupted
  <2>1. frame' = << >> /\ cut' = TRUE /\ outbound' = outbound /\ given' = given /\ taken' = taken
    BY <1>4 DEF SendInterrupted
  <2>2. << >> \in Seq(Nat)
    OBVIOUS
  <2> QED BY <1>0, <2>1, <2>2 DEF OutInv
<1>5. CASE PeerTakes
  <2> DEFINE take == TryTake(outbound)
             k == Len(taken)
  <2>1. /\ take.found = "message" /\ outbound' = take.rest /\ taken' = Append(taken, take.message)
        /\ op' = op /\ frame' = frame /\ given' = given /\ cut' = cut
    BY <1>5 DEF PeerTakes
  <2>2. take.rest \in Seq(Nat) /\ take.message \in Seq(Nat)
    BY <1>0, <2>1, TakenBytes
  <2>3. k \in Nat /\ taken' \in Seq(Seq(Nat))
    <3> HIDE DEF take
    <3> QED BY <1>0, <2>1, <2>2
  <2>4. ASSUME ~cut'
        PROVE  Prefix(taken', given') /\ Holds(outbound' \o frame', given', Len(taken'))
    <3>1. Prefix(taken, given) /\ Holds(outbound \o frame, given, k)
      BY <1>0, <2>1, <2>4
    <3>2. /\ k + 1 \in 1 .. Len(given) /\ take.message = given[k + 1]
          /\ Holds(take.rest \o frame, given, k + 1)
      BY <1>0, <2>1, <2>3, <3>1, TakeMessage
    <3> HIDE DEF take
    <3>3. Len(taken') = k + 1 /\ Prefix(taken', given)
      BY <1>0, <2>1, <2>2, <3>1, <3>2, PrefixTaken
    <3> QED BY <2>1, <3>2, <3>3
  <2> HIDE DEF take
  <2> QED BY <1>0, <2>1, <2>2, <2>3, <2>4 DEF OutInv
<1>6. ASSUME NEW buffer, Loop(buffer) PROVE op' # "send"
  BY <1>6 DEF Loop
<1>7. ASSUME NEW n, ReadSome(n) PROVE OutInv'
  BY <1>1, <1>6, <1>7 DEF ReadSome, sending
<1>8. CASE Receive
  BY <1>1, <1>6, <1>8 DEF Receive, sending
<1>9. CASE PeerCloses \/ ReceiveInterrupted \/ ReadEof \/ UNCHANGED vars
           \/ \E message \in Messages : PeerSends(message)
  BY <1>1, <1>9 DEF PeerCloses, ReceiveInterrupted, ReadEof, PeerSends, vars, sending
<1> QED BY <1>2, <1>3, <1>4, <1>5, <1>7, <1>8, <1>9 DEF Next

-----------------------------------------------------------------------------
(* The theorems.                                                           *)

\* Nothing was sent, in either direction.
LEMMA InitInv == Init => IInv
<1> SUFFICES ASSUME Init PROVE IInv
  OBVIOUS
<1>1. /\ << >> \in Seq(Nat) /\ << >> \in Seq(Messages) /\ << >> \in Seq(Seq(Nat))
      /\ << >> \o << >> = << >> /\ Len(<< >>) = 0
  OBVIOUS
<1>2. Prefix(<< >>, << >>)
  BY DEF Prefix
<1>3. InInv
  BY <1>1, <1>2, StreamEmpty DEF Init, InInv
<1>4. OutInv
  BY <1>1, <1>2, StreamEmpty DEF Init, OutInv
<1> QED BY <1>3, <1>4 DEF IInv

(***************************************************************************)
(* However the bytes are cut and the receives interrupted, receive_message *)
(* returns the peer's messages whole, in order and each once: the          *)
(* transport implements the message channel.                               *)
(***************************************************************************)
THEOREM ReceiveCorrect == Spec => ReceivesMessages
<1>1. Init => InInv /\ Incoming!Init
  BY InitInv DEF IInv, Init, Incoming!Init
<1>2. InInv /\ [Next]_vars => InInv' /\ [Incoming!Next]_<<sent, received>>
  BY InStep
<1> QED BY <1>1, <1>2, PTL DEF Spec, ReceivesMessages, Incoming!Spec

(***************************************************************************)
(* As long as no send was cut short, what the peer has decoded is the      *)
(* messages handed to send_message, whole and in order.                    *)
(***************************************************************************)
THEOREM SendCorrect == Spec => []SendsMessages
<1>1. Init => OutInv
  BY InitInv DEF IInv
<1>2. OutInv /\ [Next]_vars => OutInv'
  BY OutStep
<1>3. OutInv => SendsMessages
  <2> SUFFICES ASSUME OutInv, ~cut
               PROVE  Len(taken) <= Len(given) /\ taken = SubSeq(given, 1, Len(taken))
    BY DEF SendsMessages
  <2>1. /\ given \in Seq(Messages) /\ taken \in Seq(Seq(Nat)) /\ Len(taken) <= Len(given)
        /\ \A i \in 1 .. Len(taken) : taken[i] = given[i]
    BY DEF OutInv, Prefix
  <2>2. Len(taken) \in Nat /\ Len(given) \in Nat
    BY <2>1
  <2>3. SubSeq(given, 1, Len(taken)) = [i \in 1 .. Len(taken) |-> given[i]]
    BY <2>1, <2>2
  <2>4. taken = [i \in 1 .. Len(taken) |-> taken[i]]
    BY <2>1
  <2> QED BY <2>1, <2>3, <2>4
<1> QED BY <1>1, <1>2, <1>3, PTL DEF Spec
=============================================================================
