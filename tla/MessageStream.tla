--------------------------- MODULE MessageStream ---------------------------
(***************************************************************************)
(* What HTSPConnection::ReadMessage promises to the code above it: the     *)
(* messages of the server come out whole, each once and in the order they  *)
(* were sent, until the reader stops; a connection that goes down loses a  *)
(* suffix of what was in flight.  HtspConnection takes this for granted.   *)
(***************************************************************************)
EXTENDS Naturals, Sequences

CONSTANT Frames   \* the messages, as the server writes them

VARIABLES queue,  \* sent and not delivered
          out,    \* delivered
          up      \* the connection is up

vars == <<queue, out, up>>

Last(s) == s[Len(s)]

Init == queue = <<>> /\ out = <<>> /\ up = TRUE

Send == /\ up = TRUE
        /\ queue' # <<>> /\ Last(queue') \in Frames
        /\ queue' = Append(queue, Last(queue'))
        /\ UNCHANGED <<out, up>>

Deliver == /\ queue # <<>>
           /\ queue' = Tail(queue) /\ out' = Append(out, Head(queue))
           /\ UNCHANGED up

GoDown == /\ up = TRUE /\ up' = FALSE
          /\ \E n \in 0 .. Len(queue) : queue' = SubSeq(queue, 1, n)
          /\ UNCHANGED out

Next == Send \/ Deliver \/ GoDown

Spec == Init /\ [][Next]_vars
=============================================================================
