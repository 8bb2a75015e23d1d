----------------------------- MODULE UrlLoader -----------------------------
(***************************************************************************)
(* URLLoaderHandler (src/player/url_loader.cc): a download through         *)
(* pp::URLLoader by an object that reports the result and deletes itself.  *)
(*                                                                         *)
(* ReadBody asks with an optional callback: the loader answers at once, or *)
(* says that it will call back, and then OnRead gets the answer.  All of   *)
(* it runs on one thread: "frames" are the functions of the handler on its *)
(* stack, the last one running, and each is in the loop of ReadBody or has *)
(* only to return.  A byte is its position in the body.                    *)
(***************************************************************************)
EXTENDS Integers, Sequences

CONSTANTS READ_BUFFER_SIZE,  \* bytes asked for at a time
          MaxBody            \* bound: bytes of the body

ASSUME BufferAssumption == READ_BUFFER_SIZE \in Nat \ {0}
ASSUME BoundsAssumption == MaxBody \in Nat

VARIABLES
  callback,  \* what comes next from outside
  frames,
  alive,     \* the handler is not deleted
  total,     \* length of the body
  arrived,   \* bytes that have been read
  buffer_,   \* is it allocated
  instance_, \* is there an instance to report to
  url_response_body_, received, posted

vars == <<callback, frames, alive, total, arrived, buffer_, instance_,
          url_response_body_, received, posted>>
download == <<total, arrived, url_response_body_, received>>
object == <<alive, buffer_, instance_, posted>>

\* Where a function can be.
Places == {"ReadBody", "return"}

TypeOK ==
  /\ callback \in {"Start", "OnOpen", "OnRead", "none"}
  /\ frames \in Seq(Places)
  /\ alive \in BOOLEAN /\ buffer_ \in BOOLEAN /\ instance_ \in BOOLEAN
  /\ total \in 0 .. MaxBody /\ arrived \in 0 .. total
  /\ {url_response_body_, received} \subseteq Seq(1 .. total)
  /\ posted \in Seq([success : BOOLEAN, text : Seq(1 .. total)])

Init ==
  /\ callback = "Start" /\ frames = <<>> /\ alive = TRUE
  /\ total \in 0 .. MaxBody /\ arrived = 0
  /\ buffer_ = TRUE /\ instance_ \in BOOLEAN
  /\ url_response_body_ = <<>> /\ received = <<>> /\ posted = <<>>

\* The thread is in the loop of ReadBody.
Reading == frames # <<>> /\ frames[Len(frames)] = "ReadBody"

\* It is in no function of the handler, and this callback is due.
Called(function) == frames = <<>> /\ callback = function

\* The function that runs goes on at "at", after it has called "more".
Goes(at, more) == frames' = [frames EXCEPT ![Len(frames)] = at] \o more
-----------------------------------------------------------------------------
Start ==
  /\ Called("Start")
  /\ callback' = "OnOpen"
  /\ UNCHANGED <<frames, object, download>>

ReportResultAndDie(success, text) ==
  /\ posted' = IF instance_ THEN Append(posted, [success |-> success, text |-> text])
               ELSE posted
  /\ alive' = FALSE /\ buffer_' = FALSE
  /\ UNCHANGED instance_

OnOpenSucceeds ==
  /\ Called("OnOpen")
  /\ callback' = "none" /\ frames' = <<"return", "ReadBody">>
  /\ UNCHANGED <<object, download>>

\* Mutant: OnOpen goes on after an error.
OpenFailedGoesOn == <<"return", "ReadBody">>

OpenFailed == <<"return">>

OnOpenFails ==
  /\ Called("OnOpen")
  /\ ReportResultAndDie(FALSE, <<>>)
  /\ callback' = "none" /\ frames' = OpenFailed
  /\ UNCHANGED download

\* Mutants: bytes that come in the callback are not handed on; the buffer is,
\* whatever was read into it.
ForwardedSync(n) ==
  IF Reading THEN [k \in 1 .. n |-> arrived + k] ELSE <<>>
ForwardedBuffer(n) == [k \in 1 .. READ_BUFFER_SIZE |-> arrived + k]

\* min(READ_BUFFER_SIZE, num_bytes)
NumBytes(n) == IF n < READ_BUFFER_SIZE THEN n ELSE READ_BUFFER_SIZE

\* AppendDataBytes hands the bytes to the listener, and to nobody else.
Forwarded(n) == [k \in 1 .. NumBytes(n) |-> arrived + k]

AppendDataBytes(n) ==
  /\ arrived + n <= total
  /\ received' = received \o Forwarded(n)
  /\ arrived' = arrived + n
  /\ UNCHANGED <<total, url_response_body_>>

\* Mutant: ReadBody runs the callback for bytes, too.
RunsCallback == Goes("return", <<"return", "ReadBody">>)

Loops == Goes("ReadBody", <<>>)

ReadBodyGetsBytes ==
  /\ Reading
  /\ \E n \in 1 .. READ_BUFFER_SIZE : AppendDataBytes(n)
  /\ Loops
  /\ UNCHANGED <<callback, object>>

ReadPends ==
  /\ Reading
  /\ Goes("return", <<>>)
  /\ callback' = "OnRead"
  /\ UNCHANGED <<object, download>>

\* OnRead with bytes: it calls ReadBody.
OnReadGetsBytes ==
  /\ Called("OnRead")
  /\ \E n \in 1 .. READ_BUFFER_SIZE : AppendDataBytes(n)
  /\ callback' = "none" /\ frames' = <<"return", "ReadBody">>
  /\ UNCHANGED object

\* Mutant: an error is taken for the end.
ErrorIsEnd(result) == result <= 0

Succeeds(result) == result = 0

\* OnRead with the end of the body, or an error.
OnReadEnd ==
  /\ \E result \in {0, -2} :
       /\ result = 0 => arrived = total
       /\ ReportResultAndDie(Succeeds(result),
                             IF Succeeds(result) THEN url_response_body_
                             ELSE <<>>)
  /\ callback' = "none"
  /\ UNCHANGED download

\* Mutant: ReadBody goes round again when it has run the callback.
AfterRunReads == "ReadBody"

AfterRun == "return"

\* If the loader answers at once, ReadBody runs the callback itself.
ReadBodyEnds ==
  /\ Reading
  /\ OnReadEnd
  /\ Goes(AfterRun, <<"return">>)

OnReadEnds ==
  /\ Called("OnRead")
  /\ OnReadEnd
  /\ frames' = <<"return">>

Return ==
  /\ frames # <<>> /\ frames[Len(frames)] = "return"
  /\ frames' = SubSeq(frames, 1, Len(frames) - 1)
  /\ UNCHANGED <<callback, object, download>>

Next == \/ Start \/ OnOpenSucceeds \/ OnOpenFails
        \/ ReadBodyGetsBytes \/ ReadPends \/ ReadBodyEnds
        \/ OnReadGetsBytes \/ OnReadEnds \/ Return

Spec == Init /\ [][Next]_vars
-----------------------------------------------------------------------------
\* The listener is given every byte that was read once and in order, whether
\* the loader answered at once or called back (url_loader.cc:85, 109, 134).
ListenerGetsBody == received = [k \in 1 .. arrived |-> k]

\* Whoever is to hear of the result hears once, from a handler that deletes
\* itself (ReportResultAndDie).
ReportsOnce == Len(posted) = (IF alive \/ ~instance_ THEN 0 ELSE 1)

\* OnRead may delete the handler in the middle of ReadBody, which has run it, and
\* that in the middle of OnOpen or another OnRead (url_loader.cc:149): none of
\* them does anything but return then, no callback is due, and the buffer is there
\* for whoever reads into it.
NoUseAfterDelete ==
  /\ ~alive => callback = "none" /\ ~Reading
  /\ Reading => buffer_
  /\ \A k \in 1 .. Len(frames) - 1 : frames[k] = "return"

\* However many reads the loader answers at once, the functions do not pile up:
\* "If the network is very fast, we could end up with a deeply recursive stack"
\* (url_loader.cc:135).
StackStaysFlat == Len(frames) <= 3

\* A success is only reported when the listener has the whole body.
SuccessIsWhole ==
  \A k \in 1 .. Len(posted) : posted[k].success => Len(received) = total
=============================================================================
