----------------------------- MODULE Transport ------------------------------
(***************************************************************************)
(* TcpTransport: SMB messages framed on one TCP stream                     *)
(* (crates/smb-client/src/transport.rs, crates/smb-wire/src/frame.rs).     *)
(*                                                                         *)
(* Bytes arrive in pieces of any size.  receive_message collects them in   *)
(* read_buffer until a frame is complete, and its future may be dropped or *)
(* time out whenever it waits for more; the next call goes on from the     *)
(* buffer.  send_message may be cut short by a timeout in the middle of a  *)
(* frame.  Integers stand for bytes; the header is the reserved byte and   *)
(* one length byte instead of three.                                       *)
(***************************************************************************)
EXTENDS Naturals, Sequences

CONSTANTS
  Messages,         \* the payloads sent in either direction
  MaxMessageSize,   \* max_message_size of the configuration
  ReadChunk,        \* TCP_READ_CHUNK_SIZE
  MaxMessages,      \* bound: how many messages each side sends
  MaxInterrupts     \* bound: how many receives and sends are cut short

ASSUME TransportLimits ==
  /\ Messages \subseteq Seq(Nat)
  /\ MaxMessageSize \in Nat \ {0}
  /\ ReadChunk \in Nat \ {0}
  /\ MaxMessages \in Nat
  /\ MaxInterrupts \in Nat

VARIABLES
  op,          \* what the owner of the transport is doing: a receive or a send
  readBuffer,  \* TcpTransport::read_buffer
  inbound,     \* bytes from the peer in the socket
  peerOpen,    \* the peer has not closed its side
  sent,        \* the messages the peer has sent
  received,    \* the messages receive_message has returned
  frame,       \* what write_all has still to write of the frame being sent
  outbound,    \* bytes for the peer it has not decoded
  given,       \* the messages handed to send_message
  taken,       \* the messages the peer has decoded
  cut,         \* a send was cut short
  interrupts   \* how many calls were cut short

vars == <<op, readBuffer, inbound, peerOpen, sent, received,
          frame, outbound, given, taken, cut, interrupts>>

receiving == <<readBuffer, inbound, peerOpen, sent, received>>
sending == <<frame, outbound, given, taken, cut>>

HeaderSize == 2

-----------------------------------------------------------------------------
\* encode_direct_tcp_frame and decode_direct_tcp_length
EncodeFrame(payload) == <<0, Len(payload)>> \o payload

ReservedOk(buffer) == buffer[1] = 0

PayloadLen(buffer) == buffer[2]

Drop(s, n) == SubSeq(s, n + 1, Len(s))

\* try_take_message on a buffer: "more" bytes are needed, the stream is "refused",
\* or there is a "message", with what it leaves in the buffer.
TryTake(buffer) ==
  IF Len(buffer) < HeaderSize
    THEN [found |-> "more", message |-> <<>>, rest |-> buffer]
  ELSE IF ~ReservedOk(buffer) \/ PayloadLen(buffer) > MaxMessageSize
    THEN [found |-> "refused", message |-> <<>>, rest |-> buffer]
  ELSE IF Len(buffer) < HeaderSize + PayloadLen(buffer)
    THEN [found |-> "more", message |-> <<>>, rest |-> buffer]
  ELSE [found |-> "message",
        message |-> SubSeq(buffer, HeaderSize + 1, HeaderSize + PayloadLen(buffer)),
        rest |-> Drop(buffer, HeaderSize + PayloadLen(buffer))]

-----------------------------------------------------------------------------
\* Mutants: a receive that is given up takes its partial frame along, a call does
\* not look at the buffer before it waits, write_all starts one byte too early.
ReceiveLosesPartial ==
  /\ op = "receive" /\ interrupts < MaxInterrupts
  /\ op' = "idle"
  /\ interrupts' = interrupts + 1
  /\ readBuffer' = <<>>
  /\ UNCHANGED <<inbound, peerOpen, sent, received>> /\ UNCHANGED sending

ReceiveWaitsFirst ==
  /\ op = "idle"
  /\ op' = "receive"
  /\ UNCHANGED receiving /\ UNCHANGED sending /\ UNCHANGED interrupts

WriteSomeTwice(n) ==
  /\ op = "send" /\ n <= Len(frame)
  /\ outbound' = outbound \o SubSeq(frame, 1, n)
  /\ frame' = Drop(frame, n - 1)
  /\ op' = IF n = Len(frame) THEN "idle" ELSE "send"
  /\ UNCHANGED <<given, taken, cut, interrupts>> /\ UNCHANGED receiving

-----------------------------------------------------------------------------
Init ==
  /\ op = "idle" /\ peerOpen = TRUE /\ cut = FALSE /\ interrupts = 0
  /\ readBuffer = <<>> /\ inbound = <<>> /\ frame = <<>> /\ outbound = <<>>
  /\ sent = <<>> /\ received = <<>> /\ given = <<>> /\ taken = <<>>

\* The peer writes whole frames, of messages that may be too large for the client.
PeerSends(message) ==
  /\ peerOpen /\ Len(sent) < MaxMessages
  /\ sent' = Append(sent, message)
  /\ inbound' = inbound \o EncodeFrame(message)
  /\ UNCHANGED <<op, readBuffer, peerOpen, received, interrupts>> /\ UNCHANGED sending

PeerCloses ==
  /\ peerOpen
  /\ peerOpen' = FALSE
  /\ UNCHANGED <<op, readBuffer, inbound, sent, received, interrupts>> /\ UNCHANGED sending

\* One turn of the loop of receive_message, with the bytes it has.
Loop(buffer) ==
  LET take == TryTake(buffer) IN
  /\ readBuffer' = take.rest
  /\ received' = IF take.found = "message" THEN Append(received, take.message) ELSE received
  /\ op' = IF take.found = "more" THEN "receive" ELSE "idle"

Receive ==
  /\ op = "idle"
  /\ Loop(readBuffer)
  /\ UNCHANGED <<inbound, peerOpen, sent, interrupts>> /\ UNCHANGED sending

ReadSome(n) ==
  /\ op = "receive" /\ n <= Len(inbound)
  /\ Loop(readBuffer \o SubSeq(inbound, 1, n))
  /\ inbound' = Drop(inbound, n)
  /\ UNCHANGED <<peerOpen, sent, interrupts>> /\ UNCHANGED sending

\* The io_timeout expires, or the future is dropped while it waits for the
\* socket (the select of cancel.rs); both leave the buffer as it is.
ReceiveInterrupted ==
  /\ op = "receive" /\ interrupts < MaxInterrupts
  /\ op' = "idle"
  /\ interrupts' = interrupts + 1
  /\ UNCHANGED receiving /\ UNCHANGED sending

ReadEof ==
  /\ op = "receive" /\ inbound = <<>> /\ ~peerOpen
  /\ op' = "idle"
  /\ UNCHANGED interrupts /\ UNCHANGED receiving /\ UNCHANGED sending

-----------------------------------------------------------------------------
\* send_message refuses what is too large before anything is written.
SendMessage(message) ==
  /\ op = "idle" /\ Len(given) < MaxMessages
  /\ Len(message) <= MaxMessageSize
  /\ op' = "send"
  /\ given' = Append(given, message)
  /\ frame' = EncodeFrame(message)
  /\ UNCHANGED <<outbound, taken, cut, interrupts>> /\ UNCHANGED receiving

WriteSome(n) ==
  /\ op = "send" /\ n <= Len(frame)
  /\ outbound' = outbound \o SubSeq(frame, 1, n)
  /\ frame' = Drop(frame, n)
  /\ op' = IF n = Len(frame) THEN "idle" ELSE "send"
  /\ UNCHANGED <<given, taken, cut, interrupts>> /\ UNCHANGED receiving

\* The io_timeout of write_all, or an error of the socket: the rest of the frame
\* is never written, and nothing keeps the caller from sending more.
SendInterrupted ==
  /\ op = "send" /\ interrupts < MaxInterrupts
  /\ op' = "idle"
  /\ frame' = <<>>
  /\ cut' = TRUE
  /\ interrupts' = interrupts + 1
  /\ UNCHANGED <<outbound, given, taken>> /\ UNCHANGED receiving

\* The peer cuts the client's stream in frames the same way.
PeerTakes ==
  LET take == TryTake(outbound) IN
  /\ take.found = "message"
  /\ outbound' = take.rest
  /\ taken' = Append(taken, take.message)
  /\ UNCHANGED <<op, frame, given, cut, interrupts>> /\ UNCHANGED receiving

Next ==
  \/ \E message \in Messages : PeerSends(message) \/ SendMessage(message)
  \/ PeerCloses \/ Receive \/ ReceiveInterrupted \/ ReadEof \/ SendInterrupted \/ PeerTakes
  \/ \E n \in 1 .. ReadChunk : ReadSome(n) \/ WriteSome(n)

(***************************************************************************)
(* The socket delivers what is in it, the peer reads, and the owner keeps  *)
(* calling: every request of the client ends with a receive until its      *)
(* answer is there or the connection is given up.                          *)
(***************************************************************************)
Fairness ==
  /\ WF_vars(Receive)
  /\ WF_vars(\E n \in 1 .. ReadChunk : ReadSome(n))
  /\ WF_vars(\E n \in 1 .. ReadChunk : WriteSome(n))
  /\ WF_vars(PeerTakes)

Spec == Init /\ [][Next]_vars /\ Fairness

-----------------------------------------------------------------------------
Incoming == INSTANCE MessageChannel

(***************************************************************************)
(* However the bytes are cut and the receives interrupted, the client gets *)
(* the peer's messages whole, in order and each once: the transport        *)
(* implements the message channel its trait asks for (transport.rs:        *)
(* "a later call must resume from the same byte position without losing a  *)
(* partial frame").                                                        *)
(***************************************************************************)
ReceivesMessages == Incoming!Spec

(***************************************************************************)
(* As long as no send was cut short the peer decodes the messages handed   *)
(* to send_message, in order.  After one was, nothing is promised: the     *)
(* frame of the next message completes the frame that was cut.             *)
(***************************************************************************)
SendsMessages ==
  ~cut => /\ Len(taken) <= Len(given)
          /\ taken = SubSeq(given, 1, Len(taken))

(***************************************************************************)
(* A message whose bytes have all been sent is received in the end, also   *)
(* when it came in the same read as the one before, unless a message ahead *)
(* of it, or itself, is larger than the transport takes.                   *)
(***************************************************************************)
TooLargeUpTo(k) == \E i \in 1 .. k : i <= Len(sent) /\ Len(sent[i]) > MaxMessageSize

Delivered ==
  \A k \in 1 .. MaxMessages :
    Len(sent) >= k ~> Len(received) >= k \/ TooLargeUpTo(k)
=============================================================================
