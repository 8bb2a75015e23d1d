---------------------------- MODULE HtspFraming ----------------------------
(***************************************************************************)
(* HTSPConnection::ReadMessage (src/htsp/HTSPConnection.cpp): how messages *)
(* are cut out of the byte stream.  A frame is a length field of H bytes   *)
(* followed by that many bytes of message.  socket.Read returns as many    *)
(* bytes as it likes, but at least one if there is one, 0 at the end of    *)
(* the stream and a negative code on an error.                             *)
(*                                                                         *)
(* A byte is its position in the stream, so that a buffer shows which      *)
(* bytes it holds; total is the length of the stream so far, and got how   *)
(* much of it has been read.                                               *)
(***************************************************************************)
EXTENDS Integers, Sequences, FiniteSets

CONSTANTS H,          \* bytes of the length field: 4
          Lengths,    \* lengths of messages
          MaxFrames,  \* bound: frames the server sends
          MaxErrors   \* bound: failed reads in a row that are looked at

ASSUME HAssumption == H \in Nat \ {0}
ASSUME LengthsAssumption == Lengths \subseteq Nat \ {0}
ASSUME BoundsAssumption == MaxFrames \in Nat /\ MaxErrors \in Nat

VARIABLES frames, total, conn,             \* the server and the connection
          pc, got, msg_len, remaining, buffer,
          delivered

server == <<frames, total, conn>>
reader == <<pc, got, msg_len, remaining, buffer, delivered>>
vars == <<server, reader>>

Frame == [at : Nat, len : Lengths]
Uninitialized == 0

TypeOK ==
  /\ frames \in Seq(Frame) /\ total \in Nat
  /\ conn \in {"open", "closed", "error"}
  /\ pc \in {"header", "body", "dispatch", "stopped"}
  /\ got \in 0 .. total
  /\ msg_len \in Lengths \cup {0} /\ remaining \in Int
  /\ buffer \in [1 .. msg_len -> 0 .. total]
  /\ \A k \in 1 .. Len(delivered) : delivered[k] \in Seq(1 .. total)

Init ==
  /\ frames = <<>> /\ total = 0 /\ conn = "open"
  /\ pc = "header" /\ got = 0 /\ msg_len = 0 /\ remaining = 0
  /\ buffer = <<>> /\ delivered = <<>>
-----------------------------------------------------------------------------
SendFrame ==
  /\ conn = "open" /\ Len(frames) < MaxFrames
  /\ \E n \in Lengths :
       /\ frames' = Append(frames, [at |-> total, len |-> n])
       /\ total' = total + H + n
  /\ UNCHANGED <<conn, reader>>

\* Everything from some byte on is lost; what follows is the end of the
\* stream or an error, for good: a TCP connection that has failed stays down.
\* (An error after which bytes came again is not modelled.  In the loop over a
\* body "remaining" would have grown by then, HTSPConnection.cpp:353, and the next
\* read could write behind the buffer.)
GoDown ==
  /\ conn = "open"
  /\ conn' \in {"closed", "error"}
  /\ total' \in got .. total
  /\ UNCHANGED <<frames, reader>>

\* What socket.Read can return when it is asked for n bytes.
Statuses(n) ==
  CASE got < total -> 1 .. (IF n < total - got THEN n ELSE total - got)
    [] got = total /\ conn = "closed" -> {0}
    [] got = total /\ conn = "error" -> {-1}
    [] OTHER -> {}

\* The number in the bytes after position p: a length if they are the
\* length field of a frame, and anything otherwise.
LengthsAt(p) ==
  IF \E k \in 1 .. Len(frames) : frames[k].at = p
  THEN {frames[k].len : k \in {j \in 1 .. Len(frames) : frames[j].at = p}}
  ELSE Lengths

\* Mutant: an error code is taken for a number of bytes.
ReadAnyStatus(status) == got' = got + status

Read(status) == got' = IF status > 0 THEN got + status ELSE got

\* Mutant: a length field that arrives in pieces is used as it is.
HeaderUnchecked(status) == status > 0

\* The length field has to arrive in one piece.
HeaderComplete(status) == status = H

ReadHeader ==
  /\ pc = "header"
  /\ \E status \in Statuses(H) :
       /\ HeaderComplete(status)
       /\ Read(status)
       /\ msg_len' \in LengthsAt(got)
  /\ remaining' = msg_len'
  /\ buffer' = [i \in 1 .. msg_len' |-> Uninitialized]
  /\ pc' = "body"
  /\ UNCHANGED <<server, delivered>>

\* MessageReadLoop does not post itself again.
ReadHeaderFails ==
  /\ pc = "header"
  /\ \E status \in Statuses(H) : ~HeaderComplete(status) /\ Read(status)
  /\ pc' = "stopped"
  /\ UNCHANGED <<server, msg_len, remaining, buffer, delivered>>

\* Mutant: every piece is copied to the front of the buffer.
CopyToFront(status) ==
  [i \in 1 .. msg_len |-> IF i \in 1 .. status THEN got + i ELSE buffer[i]]

\* The bytes that were read follow those that came before: continue_at_block.
Copy(status) ==
  [i \in 1 .. msg_len |->
     IF i - (msg_len - remaining) \in 1 .. status
     THEN got + i - (msg_len - remaining) ELSE buffer[i]]

\* Mutants: a turn of the loop asks for one byte less than is missing, or for
\* a whole message.
AskOneLess == remaining - 1
AskWholeMessage == msg_len

\* What the code asks the socket for.
Wanted == remaining

\* Mutant: there is no loop, the first read is all there is.
CompleteAtOnce(status) == TRUE

Complete(status) == remaining - status <= 0

\* The first read and each turn of the loop do the same: a status of 0 leaves
\* everything as it is, and a negative one makes "remaining" grow.
ReadBody ==
  /\ pc = "body"
  /\ remaining < msg_len + MaxErrors
  /\ \E status \in Statuses(Wanted) :
       /\ Read(status)
       /\ buffer' = Copy(status)
       /\ remaining' = remaining - status
       /\ pc' = IF Complete(status) THEN "dispatch" ELSE "body"
  /\ UNCHANGED <<server, msg_len, delivered>>

Dispatch ==
  /\ pc = "dispatch"
  /\ delivered' = Append(delivered, [i \in 1 .. msg_len |-> buffer[i]])
  /\ pc' = "header"
  /\ UNCHANGED <<server, got, msg_len, remaining, buffer>>

\* The reader has stopped, or is in a loop that has no way out.
Stuck == \/ pc = "stopped"
         \/ pc = "body" /\ got = total /\ conn # "open"

Next == \/ SendFrame \/ GoDown
        \/ ReadHeader \/ ReadHeaderFails \/ ReadBody \/ Dispatch
        \/ (Stuck /\ UNCHANGED vars)

Fairness == WF_vars(ReadHeader \/ ReadHeaderFails \/ ReadBody \/ Dispatch)

Spec == Init /\ [][Next]_vars /\ Fairness
-----------------------------------------------------------------------------
(* Properties *)

Body(f) == [i \in 1 .. f.len |-> f.at + H + i]

\* Messages are delivered whole, in order, none twice and none left out: the
\* buffers handed to the deserializer are exactly the bodies of the frames.
DeliveredInOrder ==
  /\ Len(delivered) <= Len(frames)
  /\ \A k \in 1 .. Len(delivered) : delivered[k] = Body(frames[k])

\* A length is only ever read where a frame begins.
HeaderAligned ==
  pc = "header" => \/ got = total
                   \/ /\ Len(delivered) < Len(frames)
                      /\ got = frames[Len(delivered) + 1].at

\* Without read errors no read asks for more bytes than the buffer has room
\* for, and the bytes missing are those that have not been copied.
CopyInBounds ==
  pc = "body" /\ conn # "error" =>
    /\ remaining \in 1 .. msg_len
    /\ {i \in 1 .. msg_len : buffer[i] = Uninitialized}
         = msg_len - remaining + 1 .. msg_len

\* While the connection is up and the reader has not given up, every frame
\* that was sent gets delivered.
EveryFrameDelivered ==
  \A k \in 1 .. MaxFrames :
    Len(frames) >= k ~> \/ Len(delivered) >= k
                        \/ pc = "stopped" \/ conn # "open"

\* The bytes add up to the message stream HtspConnection relies on.
Arrived == {k \in 1 .. Len(frames) : frames[k].at + H + frames[k].len <= total}
Stream == INSTANCE MessageStream
            WITH Frames <- Frame,
                 queue <- SubSeq(frames, Len(delivered) + 1, Cardinality(Arrived)),
                 out <- SubSeq(frames, 1, Len(delivered)),
                 up <- conn = "open"
ImplementsStream == Stream!Spec
=============================================================================
