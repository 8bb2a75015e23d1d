------------------------------ MODULE Demuxer ------------------------------
(***************************************************************************)
(* The parser thread of FFMpegDemuxer with what it makes of the bytes that *)
(* Read gives it: DemuxBuffer, composed with InitStreamInfo, the audio     *)
(* configuration and the packets with their time stamps.                   *)
(*                                                                         *)
(* FFmpeg takes bytes through Read whenever it likes, and finds streams    *)
(* and packets in them.  Times are in units of half a second, which is     *)
(* kSegmentEps.  The demuxer is meant to be told, with SetTimestamp, where *)
(* in the content its data starts (stream_demuxer.h:253).  The times in    *)
(* the data are either those of the content already, or start anew there.  *)
(***************************************************************************)
EXTENDS DemuxBuffer

CONSTANTS Timestamps,  \* what SetTimestamp may be called with
          Extradata    \* what codecpar->extradata may be

ASSUME TimestampsAssumption == Timestamps \subseteq Nat
ASSUME ExtradataAssumption == \A e \in Extradata : e \in Seq(0 .. 255)

VARIABLES
  start,        \* where the data starts in the content
  anew,         \* whether the times in the data start there
  extradata,
  streams_initialized_, timestamp_, has_packets_,
  samples_per_second,  \* of audio_config_, as an index of FFmpeg's table
  packet,       \* the last packet with a time stamp that was posted
  untimed       \* the first packet had no time stamp

data == <<start, anew, extradata>>
parsing == <<streams_initialized_, timestamp_, has_packets_,
             samples_per_second, packet, untimed>>
demuxerVars == <<vars, data, parsing>>

kSegmentEps == 1
NoPacket == [time |-> 0, pts |-> 0]
FromCodecpar == -1

\* Time passed in the content since start.  The first packet is no further from
\* it than kSegmentEps allows for, and not later; those after it may come out of
\* order.
ElapsedFirst == {-1, 0}
Elapsed == {-1, 5}

DemuxerTypeOK ==
  /\ TypeOK
  /\ start \in Timestamps /\ anew \in BOOLEAN /\ extradata \in Extradata
  /\ streams_initialized_ \in BOOLEAN /\ has_packets_ \in BOOLEAN
  /\ timestamp_ \in {0, start}
  /\ samples_per_second \in {FromCodecpar} \cup 0 .. 14
  /\ packet.time \in Int /\ packet.pts \in Int
  /\ untimed \in BOOLEAN

\* SetTimestamp comes before Init; nothing would keep a later call apart from
\* the parser thread.
DemuxerInit ==
  /\ Init
  /\ start \in Timestamps /\ anew \in BOOLEAN /\ extradata \in Extradata
  /\ timestamp_ = start
  /\ streams_initialized_ = FALSE /\ has_packets_ = FALSE
  /\ samples_per_second = FromCodecpar
  /\ packet = NoPacket /\ untimed = FALSE
-----------------------------------------------------------------------------
(* InitStreamInfo.                                                         *)

HasHeader == Len(extradata) >= 2

\* Two bits of the first byte and one of the second.
SamplesRateIndex == 2 * (extradata[1] % 4) + extradata[2] \div 128

PrepareAACHeader ==
  IF HasHeader /\ SamplesRateIndex # 15 THEN SamplesRateIndex
  ELSE samples_per_second

\* FFmpeg has seen enough, or all there is.
Probed == read \in {"enters", "ended"} /\ ~streams_initialized_

\* With an audio stream there is an audio configuration.
InitStreamInfo ==
  /\ Probed
  /\ streams_initialized_' = TRUE
  /\ \/ samples_per_second' = PrepareAACHeader
     \/ UNCHANGED samples_per_second
  /\ UNCHANGED <<vars, data, timestamp_, has_packets_, packet, untimed>>

\* Neither an audio nor a video stream: ParsingThreadFn returns.
InitStreamInfoFails ==
  /\ Probed
  /\ read' = "done"
  /\ UNCHANGED <<shared, producer, got, result, eos, dtor, data, parsing>>
-----------------------------------------------------------------------------
(* The loop of ParsingThreadFn.                                            *)

\* Mutant: any packet can tell that times are those of the content.
ZeroesAlways(pts) == pts + kSegmentEps >= timestamp_

\* The first packet has times of the content: nothing has to be added.
Zeroes(pts) == ~has_packets_ /\ pts + kSegmentEps >= timestamp_

\* A packet of a stream that is neither the audio nor the video stream is made as
\* well, and dropped.
TimedPacket ==
  /\ \E elapsed \in (IF has_packets_ THEN Elapsed ELSE ElapsedFirst),
        recognized \in BOOLEAN :
       LET time == start + elapsed
           pts == IF anew THEN elapsed ELSE time
       IN /\ timestamp_' = IF Zeroes(pts) THEN 0 ELSE timestamp_
          /\ packet' = IF recognized THEN [time |-> time, pts |-> pts + timestamp_']
                       ELSE packet
  /\ UNCHANGED untimed

\* AV_NOPTS_VALUE, in seconds, is before every time.
UntimedPacket ==
  /\ untimed' = (untimed \/ ~has_packets_)
  /\ UNCHANGED <<timestamp_, packet>>

\* av_read_frame returns a packet, which FFmpeg may have held since before Read
\* failed.
ReadFrame ==
  /\ streams_initialized_ /\ read \in {"enters", "ended"} /\ got # <<>>
  /\ has_packets_' = TRUE
  /\ TimedPacket \/ UntimedPacket
  /\ UNCHANGED <<vars, data, streams_initialized_, samples_per_second>>

\* Read is called by InitStreamInfo as well, the end of the loop is not.
ReadStep == (ReadWaits \/ ReadData \/ ReadEnds) /\ UNCHANGED <<data, parsing>>
LoopEnds ==
  streams_initialized_ /\ ParsingEnds /\ UNCHANGED <<data, parsing>>
LoopFails ==
  streams_initialized_ /\ ParsingFails /\ UNCHANGED <<data, parsing>>

Outside ==
  /\ \/ ParseData \/ ParseEnd \/ ParseNotifies \/ SpuriousWakeup
     \/ Exit \/ ExitNotifies \/ Join
  /\ UNCHANGED <<data, parsing>>

DemuxerNext ==
  InitStreamInfo \/ InitStreamInfoFails \/ ReadFrame \/ ReadStep \/ LoopEnds
  \/ LoopFails \/ Outside

\* As in DemuxBuffer; and FFmpeg returns only so many packets and errors before it
\* reads on, and does not look for streams for ever.
DemuxerFairness ==
  /\ WF_demuxerVars(ReadStep \/ LoopEnds)
  /\ WF_demuxerVars(InitStreamInfo \/ InitStreamInfoFails)
  /\ WF_demuxerVars(ParseNotifies /\ UNCHANGED <<data, parsing>>)
  /\ WF_demuxerVars((ExitNotifies \/ Join) /\ UNCHANGED <<data, parsing>>)

DemuxerSafety == DemuxerInit /\ [][DemuxerNext]_demuxerVars
DemuxerSpec == DemuxerSafety /\ DemuxerFairness
-----------------------------------------------------------------------------
\* "Sets time stamp to demuxed packets. Can be use after performing seek"
\* (stream_demuxer.h:253): whether the data has the times of the content or
\* starts anew, a packet comes out with its time in the content, to within half
\* a second, whatever the stream of the first packet was, and whatever the times
\* of the packets after it (MakeESPacketFromAVPacket).
InTime == packet.pts - packet.time \in -kSegmentEps .. kSegmentEps

\* That holds unless the first packet, which decides, has no time stamp and the
\* data has the times of the content.
ProperTimestamps == InTime \/ (untimed /\ ~anew)

\* What is written before the end is read, although nothing more may ever be
\* written, and the demuxer may be destroyed; unless the thread gives up before
\* Read has come to an end, as there is no stream or FFmpeg has failed by itself.
EverythingDemuxed ==
  \A n \in 1 .. MaxParse * (Size + 1) :
    written >= n ~> \/ Len(got) >= n \/ eofAt \in 0 .. n - 1
                    \/ read = "done" /\ result = "data"

\* The comment in PrepareAACHeader: a header with index 15, which has the
\* frequency in so many bits, is not supported, and the frequency is left as
\* FFmpeg has found it (ffmpeg_demuxer.cc:614).
CustomFrequencyLeft ==
  HasHeader /\ extradata[1] % 8 = 7 /\ extradata[2] \div 128 = 1
    => samples_per_second = FromCodecpar
=============================================================================
