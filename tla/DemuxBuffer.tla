---------------------------- MODULE DemuxBuffer ----------------------------
(***************************************************************************)
(* The bytes that wait to be demuxed: FFMpegDemuxer's buffer_, which Parse *)
(* fills, Read empties on the parser thread, and the destructor gives up,  *)
(* under buffer_mutex_ and with buffer_condition_ (ffmpeg_demuxer.cc).     *)
(* FFmpeg calls Read through AVIOReadOperation.                            *)
(*                                                                         *)
(* The mutex is held in short sections, each of them one action here; the  *)
(* calls of notify_one come after the mutex is free.  A byte is its        *)
(* position in what was written, so that written is how many there were,   *)
(* and buffer_ holds the positions that wait.                              *)
(***************************************************************************)
EXTENDS Integers, Sequences

CONSTANTS Size,      \* bytes the parser asks for at a time
          MaxParse   \* bound: calls of Parse

ASSUME SizeAssumption == Size \in Nat \ {0}
ASSUME BoundsAssumption == MaxParse \in Nat

VARIABLES buffer_, end_of_file_, exited_,
          parse,    \* the thread that calls Parse: "idle" or "notify"
          calls, written,
          read,     \* the parser thread in Read
          got,      \* bytes Read has returned
          result,   \* what Read has returned last: data, or how it ended
          eos,      \* ParsingThreadFn has posted kEndOfStream
          dtor,     \* the thread that destroys the demuxer
          eofAt     \* bytes written before the end was signalled

shared == <<buffer_, end_of_file_, exited_>>
producer == <<parse, calls, written, eofAt>>
reader == <<read, got, result, eos>>
vars == <<shared, producer, reader, dtor>>

NotYet == -1
Results == {"data", "AVERROR_EOF", "AVERROR(EIO)"}

TypeOK ==
  /\ buffer_ \in Seq(1 .. written)
  /\ end_of_file_ \in BOOLEAN /\ exited_ \in BOOLEAN
  /\ parse \in {"idle", "notify"}
  /\ calls \in 0 .. MaxParse /\ written \in Nat
  /\ read \in {"enters", "waits", "wakes", "ended", "done"}
  /\ got \in Seq(1 .. written)
  /\ result \in Results /\ eos \in BOOLEAN
  /\ dtor \in {"no", "notify", "join", "gone"}
  /\ eofAt \in Nat \cup {NotYet}

Init ==
  /\ buffer_ = <<>> /\ end_of_file_ = FALSE /\ exited_ = FALSE
  /\ parse = "idle" /\ calls = 0 /\ written = 0 /\ eofAt = NotYet
  /\ read = "enters" /\ got = <<>> /\ result = "data" /\ eos = FALSE
  /\ dtor = "no"
-----------------------------------------------------------------------------
(* Parse, on the HTSP reader thread.                                       *)

\* The demuxer is not used any more once it is being destroyed.
Parse ==
  /\ parse = "idle" /\ calls < MaxParse /\ dtor = "no"
  /\ calls' = calls + 1
  /\ parse' = "notify"

ParseData ==
  /\ Parse
  /\ \E n \in 1 .. Size + 1 :
       /\ buffer_' = buffer_ \o [k \in 1 .. n |-> written + k]
       /\ written' = written + n
  /\ UNCHANGED <<end_of_file_, exited_, eofAt, reader, dtor>>

\* An empty vector signals the end.
ParseEnd ==
  /\ Parse
  /\ end_of_file_' = TRUE
  /\ eofAt' = IF eofAt = NotYet THEN written ELSE eofAt
  /\ UNCHANGED <<buffer_, exited_, written, reader, dtor>>

\* Mutant: nobody is woken.
WakesNobody == read

\* notify_one: the parser thread is the only one that waits.
Notified == IF read = "waits" THEN "wakes" ELSE read

ParseNotifies ==
  /\ parse = "notify"
  /\ parse' = "idle"
  /\ read' = Notified
  /\ UNCHANGED <<shared, calls, written, eofAt, got, result, eos,
                 dtor>>
-----------------------------------------------------------------------------
(* Read, on the parser thread.                                             *)

\* Mutant: the destructor is not waited for.
ReadyWithoutExit == end_of_file_ \/ buffer_ # <<>>

\* The predicate of buffer_condition_.wait.
Ready == end_of_file_ \/ buffer_ # <<>> \/ exited_

Looks == read \in {"enters", "wakes"}

ReadWaits ==
  /\ Looks /\ ~Ready
  /\ read' = "waits"
  /\ UNCHANGED <<shared, producer, got, result, eos, dtor>>

SpuriousWakeup ==
  /\ read = "waits"
  /\ read' = "wakes"
  /\ UNCHANGED <<shared, producer, got, result, eos, dtor>>

\* What Read returns: min(size, buffer_.size()).
ReadBytes == IF Len(buffer_) < Size THEN Len(buffer_) ELSE Size

\* Mutant: as many bytes are returned as were asked for, with whatever is in
\* the memory behind the buffer.
CopiedSize(n) ==
  [k \in 1 .. Size |-> IF k <= Len(buffer_) THEN buffer_[k] ELSE 0]

Copied(n) == SubSeq(buffer_, 1, n)

\* Mutant: the last byte that was returned stays.
EraseOneLess(n) == SubSeq(buffer_, n, Len(buffer_))

Erase(n) == SubSeq(buffer_, n + 1, Len(buffer_))

\* Mutants: the end and the destructor come before the data, or the
\* destructor before the end.
DataLast == ~end_of_file_ /\ ~exited_
ExitFirst == exited_

\* What comes first: data, then the end, then the destructor.
DataFirst == buffer_ # <<>>
Fails == ~end_of_file_ /\ exited_

ReadData ==
  /\ Looks /\ Ready /\ DataFirst
  /\ got' = got \o Copied(ReadBytes)
  /\ buffer_' = Erase(ReadBytes)
  /\ read' = "enters" /\ result' = "data"
  /\ UNCHANGED <<end_of_file_, exited_, producer, eos, dtor>>

ReadEnds ==
  /\ Looks /\ Ready /\ ~DataFirst
  /\ result' = IF Fails THEN "AVERROR(EIO)" ELSE "AVERROR_EOF"
  /\ read' = "ended"
  /\ UNCHANGED <<shared, producer, got, eos, dtor>>

\* AVIOReadOperation turns every negative result into an I/O error, and the
\* MPEG-TS demuxer passes that on.
ReadFrameResult == IF result = "data" THEN "data" ELSE "AVERROR(EIO)"

\* ParsingThreadFn goes round again after an error, but for these.
StopsLoop(error) == error \in {"AVERROR_EOF", "AVERROR_EXIT"} \/ exited_

\* av_read_frame fails after Read has failed.  FFmpeg does not call Read again, and
\* fails every time.
ParsingEnds ==
  /\ read = "ended"
  /\ StopsLoop(ReadFrameResult)
  /\ eos' = (ReadFrameResult = "AVERROR_EOF")
  /\ read' = "done"
  /\ UNCHANGED <<shared, producer, got, result, dtor>>

\* av_read_frame fails by itself, with what it has read so far.
FrameErrors == {"AVERROR_INVALIDDATA", "AVERROR_EXIT"}

ParsingFails ==
  /\ read = "enters"
  /\ \E error \in FrameErrors : StopsLoop(error)
  /\ read' = "done"
  /\ UNCHANGED <<shared, producer, got, result, eos, dtor>>
-----------------------------------------------------------------------------
(* ~FFMpegDemuxer.                                                         *)

Exit ==
  /\ dtor = "no" /\ parse = "idle"
  /\ exited_' = TRUE
  /\ dtor' = "notify"
  /\ UNCHANGED <<buffer_, end_of_file_, producer, reader>>

ExitNotifies ==
  /\ dtor = "notify"
  /\ dtor' = "join"
  /\ read' = Notified
  /\ UNCHANGED <<shared, producer, got, result, eos>>

Join ==
  /\ dtor = "join"
  /\ read = "done"
  /\ dtor' = "gone"
  /\ UNCHANGED <<shared, producer, reader>>
-----------------------------------------------------------------------------
Read == ReadWaits \/ ReadData \/ ReadEnds \/ ParsingEnds
Next == \/ ParseData \/ ParseEnd \/ ParseNotifies
        \/ Read \/ ParsingFails \/ SpuriousWakeup
        \/ Exit \/ ExitNotifies \/ Join

\* Threads that can run do; nobody has to call Parse or to destroy anything, and
\* FFmpeg does not have to fail.
Fairness == /\ WF_vars(ParseNotifies)
            /\ WF_vars(Read)
            /\ WF_vars(ExitNotifies \/ Join)

Safety == Init /\ [][Next]_vars
Spec == Safety /\ Fairness
-----------------------------------------------------------------------------
\* Read returns the bytes Parse was given, each once and in order, however
\* the two calls cut them: what was returned and what waits is all there was
\* (Parse, Read).
FirstInFirstOut == got \o buffer_ = [k \in 1 .. written |-> k]

\* The comment in Read: the end is reported only after all that was written
\* before it, and an error only after everything, and only if no end was
\* signalled before the demuxer was destroyed, so that a change of content
\* leaves no gap (ffmpeg_demuxer.cc:385-394).
EndsAfterData ==
  /\ result = "AVERROR_EOF" => eofAt # NotYet /\ Len(got) >= eofAt
  /\ result = "AVERROR(EIO)" =>
       exited_ /\ eofAt = NotYet /\ Len(got) = written

\* The parser thread does not sleep while there is something for it to do and
\* no call of notify_one is still to come.
NoLostWakeup ==
  read = "waits" /\ Ready => parse = "notify" \/ dtor = "notify"

\* The destructor's join returns.
DestructorReturns == exited_ ~> dtor = "gone"

\* The comment in Read: the end of the data causes the end of the stream to
\* be signalled.
EndIsSignalled == result = "AVERROR_EOF" ~> eos
=============================================================================
