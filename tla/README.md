# TizenHTSP in TLA+

TizenHTSP is a Native Client application for Samsung TVs: it talks to a
Tvheadend server over HTSP, demuxes MPEG-TS with FFmpeg and gives the packets
to NaCl Player.  This directory holds TLA+ models of the parts of it where
threads, callbacks and an unreliable connection meet, the TLC runs that check
them, and proofs, checked by TLAPS, of their safety properties.

Line numbers are those of the files under `src/` of the repository.  What is
modelled where, definition by definition, is in `PROJECT.json` under `map`.

## Contents

1. [Inventory](#inventory)
2. [Modules](#modules)
3. [Runs, bounds and fairness](#runs-bounds-and-fairness)
4. [Where the code and what it says of itself differ](#where-the-code-and-what-it-says-of-itself-differ)
5. [Proofs](#proofs)
6. [What is not modelled](#what-is-not-modelled)
7. [Plan](#plan)

## Inventory

### Threads

| thread | runs |
|---|---|
| instance thread | `HelloWorld::Init`, callbacks of `pp::URLLoader`, player events |
| `HTSPConnection::handle_thread` | `Register()`, once: hello, then authenticate |
| `HTSPConnection::message_read_thread_` | `MessageReadLoop`, `ReadMessage`, and in it `HelloWorld::ProcessMessage` and `EsHtspPlayerController::AddData`, `MuxPacket`, `Play` |
| `HelloWorld::player_thread_` | `InitPlayer`, and every callback of the demuxer |
| `FFMpegDemuxer::parser_thread_` | `ParsingThreadFn`; FFmpeg calls `Read` on it |

### Components

**HTSP connection** (`src/htsp/HTSPConnection.{h,cpp}`).  State: the socket,
`m_mutex` (recursive), `m_seq`, `m_messages` (from sequence numbers to response
objects on the stack of a call), `m_challenge`, and per call the response
object with its flag, message and condition variable.  Operations: connect and
start both threads, `Register`, `SendHello`, `SendAuth`, `SendAndWait0`,
`SendMessage`, `ReadMessage`, `HTSPResponse::Get` and `Set`.  Hard: answers that
are late, missing, refused or unasked; a deadline that passes while the answer
is being set; a write that blocks under the mutex the reader needs; pointers to
stack objects in a shared table; who frees a message; reads that return pieces.
Correct if: a call gets the answer to itself or none; the table holds no dead
pointer; each message is freed once; no wakeup is missed; authenticate follows
an accepted hello and uses its challenge; every call ends; messages come out of
the byte stream whole and in order.

**Player controller** (`src/player/es_htsp_player_controller.{h,cc}`).  State:
`demuxer_`, `player_`, `data_source_`, `elementary_stream_video`, `videoInit`,
`audioInit`, `state_`.  Operations: `InitPlayer` (with `CleanPlayer`), the
listeners for configurations and packets, `AttachSource`, `AddData` and
`MuxPacket`, `Play`, `Pause`.  Hard: the reader thread uses `demuxer_` and
`player_` while the loop replaces them; state of the old content that stays;
packets and configurations have to keep their order; destruction of a demuxer
whose thread runs.  Correct if: packets go to the stream their own demuxer has
configured, and none is lost or overtaken.

**Demuxer** (`src/player/ffmpeg_demuxer.{h,cc}`).  State: `buffer_`,
`end_of_file_`, `exited_` under `buffer_mutex_`; the parser thread; stream
indices and configurations; the time stamp offset.  Operations: `Init`, `Parse`,
`Read`, `ParsingThreadFn`, `InitStreamInfo`, `PrepareAACHeader`,
`MakeESPacketFromAVPacket`, the destructor, and `Flush`, `Close`, `SetTimestamp`.
Hard: the order data, end, destruction in `Read`; wakeups; the join in the
destructor; a time stamp rule that the first packet decides for all.  Correct if:
bytes come out once and in order, the end after the data, the destructor
returns, the buffer is empty when the demuxer is gone, and packets come out with
their time in the content.

**URL loader** (`src/player/url_loader.{h,cc}`).  State: the read buffer, the
body, which callback is outstanding, and the functions of the handler on the
stack.  Operations: `Start`, `OnOpen`,
`ReadBody`, `OnRead`, `AppendDataBytes`, `ReportResultAndDie`.  Hard: answers at
once or by callback; self-destruction in a callback that its own loop may have
run.  Correct if: every byte is handed on once, one result is reported, nothing
uses the handler after that, and the stack does not grow with the reads.

**MPEG-TS muxer** (`src/player/Muxer/`).  State: continuity counters by stream
type, under `mMuxMtx`, and a counter for the PAT interval that is static and so
shared by all muxers.  Operations: `encode` (with `createPat`, `createPmt`,
`createPes`), `createPcr`, `createNull`, and functions that write and read the
headers.  Hard: stuffing at the boundary of a packet, counters modulo 16 that are
kept by type of stream while a receiver looks at PIDs, field widths.  Correct if:
a receiver that knows only the bytes gets every frame back, sees each counter go
on without a gap, and learns the streams from the tables.

**Application** (`src/hello_world.{h,cpp}`) wires the others: it posts one
`InitPlayer`, and is the listener of the connection.  **Listeners**, **packets**
(`ElementaryStreamPacket`), **tables** (`convert_codecs.h`) and the **logger** are
values, tables or output.

### Interactions

    Tvheadend --bytes--> ReadMessage --answer--> HTSPResponse --> Register()
                              |
                              +--muxpkt--> ProcessMessage, AddData, MuxPacket
                                              |            |
                                           Parse         Play
                                              v
                      buffer_ --Read--> parser thread --PostWork--> player_thread_
                                                                        |
                                       InitPlayer, stream listeners, AppendPacket

At this commit `Register` builds a subscribe message and does not send it, the
demuxer opens a URL of its own, and its AVIO context, through which FFmpeg
would call `Read`, is not connected (`ffmpeg_demuxer.cc:196`).  The models of
`Parse` and `Read`, of `MuxPacket` and of the URL loader are models of code that
is there and is built, but that this wiring does not, or not fully, use.

## Modules

| module | what it models |
|---|---|
| `HtspHandshake` | what `HTSPConnection` promises to `Register()`: two calls in order, success only if the server accepted, every call reported back |
| `HtspConnection` | both threads, mutex, condition variable, table of calls, ownership of messages, and a server and a connection that do what they like; implements `HtspHandshake` |
| `MessageStream` | a FIFO of whole messages: what `HtspConnection` takes for granted |
| `HtspFraming` | `ReadMessage` byte by byte, as far as lengths go; implements `MessageStream` |
| `PlayerPipeline` | parser threads, the loop of `player_thread_` with `InitPlayer` and the callbacks, and the reader thread in `MuxPacket` and `Play` |
| `DemuxBuffer` | the monitor of `Parse`, `Read` and the destructor |
| `Demuxer` | `DemuxBuffer` with the rest of the parser thread: the search for streams, the AAC header, packets with their time stamps |
| `TsPacket` | the headers of a transport stream as lists of fields, time stamps, CRC: how they are written and read |
| `TsMuxer` | the operations of `MpegTsMuxer`, and a receiver of its bytes |
| `UrlLoader` | `URLLoaderHandler` |
| `HtspConnection_proofs`, `HtspFraming_proofs`, `PlayerPipeline_proofs`, `Demuxer_proofs`, `UrlLoader_proofs`, `TsPacket_proofs`, `TsMuxer_proofs` | theorems about the module of that name, and their proofs |
| `SequenceLemmas` | what those proofs use about sequences: cuts, slices, positions in a stream, and functions defined by recursion on the positions |
| `MC...` | one for each of them, for TLC |

**HtspConnection.**  `hpc` and `rpc` say where `handle_thread` and the reader
are.  A critical section that does not block is one action; where the code
blocks or gives the mutex up (the `Write` in `SendMessage`, `wait_for` in `Get`,
the lookup in `ReadMessage`) a new action starts.  `RegisterLock` and `SendAuth`
run up to the write, `SendMessage` or `SendMessageFails` is the write,
`GetWaits`, `DeadlinePasses`, `SpuriousWakeup` and `GetReturns` are
`HTSPResponse::Get` and what follows it, `RegisterEnds` the end of `Register`.
`ReadMessage`, `SetResponse`, `LookupMisses` and `ProcessMessage` are the reader.
A response object is the pair `m_flag`, `m_msg`: there is one call at a time,
and `m_messages` maps a sequence number to the call whose object the entry
points to, so that a dangling entry is one of a call that is over.  `taken` and
`freed` record the life of each message.  Each message says which request it
answers (`re`), which the client does not look at.

**HtspFraming.**  A byte is its position in the stream, so that a copy in the
wrong place shows.  `ReadBody` is the first read and each turn of the loop: they
do the same.  `LengthsAt` gives the length the four bytes at a position hold, and
any length if it is not the position of a length field: a reader out of step
shows as such.  After an error the connection stays down, as a TCP connection
that has failed does.  (If it did not, an error within a message would leave
`remaining` greater than before, `HTSPConnection.cpp:353`, and the next read could
go behind the end of the buffer; `CopyInBounds` leaves the error apart.)

**PlayerPipeline.** `queue` is the message loop's; a task is what the posted
callback is.  `InitPlayer` is cut where other threads can see the difference:
after `CleanPlayer`, after the new demuxer is assigned, before and after the join,
after the player is made and in FFmpeg's open.  `InitStreamInfo` is two steps,
`FindAudio` and `FindVideo`, each of which posts a configuration if it finds a
stream.  `appended` are the packets handed to `AppendPacket`: that the call may
fail is only logged (`es_htsp_player_controller.cc:87`), and changes nothing.
Demuxers, players and data sources are numbered by the call that makes them.  A
use of a null pointer, of a destroyed object, or `free` of an array on the stack
ends the behaviour, with `crash` saying which; where the outcome is not certain (a
destroyed demuxer, the allocator's reaction) both outcomes are possible.
`Cancelled`, the work the destructor of a demuxer takes from the queue, is
described by positions, not by a selection of the sequence, so that it can be
proved about.

**DemuxBuffer.** A byte is its position in what was written.  `Parse` and the
destructor set a flag or append under the mutex and notify after it, as two
actions.  `ReadFrameResult` is what `AVIOReadOperation` makes of the result, and
`ParsingEnds` the reaction of `ParsingThreadFn`.  `av_read_frame` may also fail by
itself (`ParsingFails`), whatever waits: with `AVERROR_EXIT`, which ends the
thread at once, or with another error, such as invalid data, which ends it if the
demuxer is being destroyed (`StopsLoop`).

**Demuxer.** Extends `DemuxBuffer`: its steps are those of `DemuxBuffer` where the
parser thread is in `Read` (`ReadStep`) or other threads run (`Outside`), and
`InitStreamInfo`, `InitStreamInfoFails` and `ReadFrame` in between.  FFmpeg may
find the streams after any number of reads, or at the end, and makes packets
whenever it has had bytes, also after `Read` has failed.  A packet has a time
stamp (`TimedPacket`) or none (`UntimedPacket`), and `untimed` says that the first
had none.  Time is counted in units of `kSegmentEps`, half a second.  Data may
have the times of the content or start anew (`anew`), and
`MakeESPacketFromAVPacket` is to find out which; `packet` has the time a packet
has in the content beside the one it gets.

**TsMuxer.**  A header is the list of its fields with their widths, which is what
the shifts and masks of `ts_packet.cpp` amount to; where they do not
(`DecodeTsHeader` never finds the priority, `readPts` loses the highest bit) the
operator says so.  The stream type and the PID of a frame are independent, as
the fields of `EsFrame` are: `createPes` writes one into the header and counts by
the other.  A muxer has any of the types of `MuxType`, and those without code for
tables send none.  The static `lCurrentIndex` begins at zero, and `OtherMuxer`
moves it.  An operation holds `mMuxMtx` to its end, so that the steps are
the turns of the loop of `createPes`.  The receiver is `seen`, the last counter
of each PID, and the operators that take `lSb` apart.  Bytes of a payload are
numbers above 255, so that no byte of a header can stand in for one.

**UrlLoader.**  `frames` are the functions of the handler on the stack of its
thread, each in the loop of `ReadBody` or with nothing left to do but return;
`callback` says which callback comes next when there are none.  `ReadBodyEnds` is
`cc.Run(result)`: `OnRead` deletes the handler (`alive`) under the functions that
have led to it.  The result is posted only if there is an `instance_`.

## Runs, bounds and fairness

| run | shows | bounds |
|---|---|---|
| `htsp_connection` | no deadlock; `EntriesLive`, `LockDiscipline`, `OwnAnswer`, `MessageOwnership`, `NoMissedWakeup`, `AnswerNotLost`; the reader gets the mutex, `Register` ends; `HtspHandshake` is implemented | 2 challenges, 2 unasked messages, 3 sequence numbers |
| `htsp_framing` | messages in order and whole, the length field aligned, copies within the buffer, every frame delivered unless the reader stops or hangs; `MessageStream` is implemented | length field of 2 bytes, messages of 1 and 3, 3 frames, 2 failed reads in a row |
| `player_pipeline` | `OwnStream`, `NothingLost`, `NothingOutlivesDemuxer`, `RacesNeedNewContent`, `PacketReachesPlayer` | 2 calls of `InitPlayer`, 2 packets of a kind, 1 muxpkt |
| `demux_buffer` | `Demuxer`: `FirstInFirstOut`, `EndsAfterData`, `NoLostWakeup`, `ProperTimestamps`, `DestructorReturns`, `EverythingDemuxed` | reads of 2, writes of 1 to 3, 4 calls of `Parse`; data from 1 or 3 units after the start |
| `url_loader` | `ListenerGetsBody`, `ReportsOnce`, `NoUseAfterDelete`, `StackStaysFlat`, `SuccessIsWhole` | bodies up to 7, buffer of 3 |
| `ts_muxer` | `WholePackets`, `Continuity`, `FrameRecovered`, `TablesDescribe` | 2 streams, 11 frames, counters modulo 3, tables every 2nd frame, PES length up to 300 |

Why these are enough.  `Register` makes two calls, so that two sequence numbers
and a third to tell a wrong one from both are all there can be; two challenges
tell a stale one from a fresh one; a second unasked message can arrive while the
first is handled.  Frames of 1 and 3 bytes with a length field of 2 give every
split of a field and of a body, and a third frame comes after two that went
right.  With a second call of `InitPlayer` each pair of old and new content
meets; two packets can overtake each other.  Writes of 1 to 3 and reads of 2
give a read that cuts a write, one that joins two, and one that gets less than
it wants, and four calls allow data after the end.  Seven bytes with a buffer
of three take three reads at least.  Data that starts half a second after the
start of the content is the latest that `kSegmentEps` confuses with the start,
and data that starts later is told apart.  The packets of `ts_muxer` have their
188 bytes, as the boundaries are what matters: the frames are those that just
fill the first or second packet, and those that leave 1, 2 or 3 bytes to stuff,
with and without an adaptation field that is there already.  Counters, table
interval and PES limit are scaled down so that they are passed; what a packet
looks like does not depend on earlier ones except by the counters.  Modulo 3 a
counter that stays, one that skips a packet and one that is right differ.

Deadlock is checked for `HtspConnection`, where `Stopped` is the only state in
which nothing has to happen, and for `HtspFraming`, where `Stuck` is.  Elsewhere
the system may stop: input ends or stays away, an object is deleted, the program
has crashed.

Fairness.  `HtspConnection`: each thread runs if it can; a blocked `Write`
returns; the deadline of `wait_for` passes.  Nothing is assumed of the server,
which may never answer.  `HtspFraming`: the reader runs.  `PlayerPipeline`: the
loop and the threads run; nothing is assumed of the input, which need not have
another packet and need not end, nor of the HTSP reader's next message.
`Demuxer`: the threads run, FFmpeg does not look for streams for ever and makes
only so many packets before it reads on; nobody has to call `Parse` or to destroy
the demuxer.  `UrlLoader` and `TsMuxer` state no liveness: a download may hang,
and an operation of the muxer runs on the thread that calls it, with nothing to
wait for.

`EverythingDemuxed` allows for data that is left behind by a thread that has given
up with `Read` not at an end, because there is no stream or FFmpeg has failed by
itself.

`ProperTimestamps` is for data whose first packet lies not after the start that
`SetTimestamp` has named, and not more than `kSegmentEps` before it.  The rule
cannot hold further: data that starts anew one second into the content with a
first packet half a second later is taken for data with the times of the content.
It leaves apart data with the times of the content whose first packet has no time
stamp: the times are wrong then.

`Continuity` is about PIDs that have a type of stream for themselves
(`CountedAlone`), and about the tables if no frame has type 0, which is the key of
their counter; `pids_share_counter` shows the other case.

`EveryFrameDelivered` makes an exception, `Stuck`: after a length field that
came in pieces the reader stops, and at the end of the stream or after an error
within a message it turns for ever in `while(remaining > 0)`
(`HTSPConnection.cpp:342`), with `remaining` growing if the status is negative.
`RegisterFinishes` shows that `Register` ends even so.

## Where the code and what it says of itself differ

Each is a run that TLC ends with a counterexample, and a finding in
`PROJECT.json`.

- `end_of_stream` (`EndOfStreamHandled`): the demuxer announces the end with a
  null packet, and the controller's callback uses the packet before it looks at
  the message (`es_htsp_player_controller.cc:80`).
- `init_player_again` (`InitPlayerReturns`): `InitPlayer` may be called several
  times by its documentation; the second call waits for the parser thread of
  the first, which never ends if its content does not.
- `play_during_change` (`PlayKeepsPlayer`): a second `InitPlayer` resets `player_`
  between the test and the use of it in `Play`, which runs on the connection's
  reader thread (`es_htsp_player_controller.cc:339`).
- `end_is_signalled` (`EndIsSignalled`): the end of the data is to cause the end
  of the stream to be signalled (`ffmpeg_demuxer.cc:392`); `AVIOReadOperation`
  turns it into an I/O error, which is not signalled.
- `aac_frequency` (`CustomFrequencyLeft`): a header with the frequency in so many
  bits is not supported, and to be left alone (`ffmpeg_demuxer.cc:614`);
  `PrepareAACHeader` never sees one, as it takes three of the four bits of the
  index (`ffmpeg_demuxer.cc:608`): it reads 15 as 7, which is 22050 Hz, and 8 to
  14 as 0 to 6.
- `pids_share_counter` (`CountedByPid`): `getCc` takes a PID by its declaration
  (`mpegts_muxer.h:45`), and `createPes` gives it the type of the stream
  (`mpegts_muxer.cpp:126`): two streams of one type count with one counter.

The models contain more of the kind, which has no run of its own:

- `audioInit` is never set, as the body of the listener is commented out
  (`es_htsp_player_controller.cc:133`), so that `AttachSource` never attaches the
  data source (`OnAudioConfig`, `OnVideoConfig`).
- A second `InitPlayer` destroys a demuxer whose `Init` has failed, and the
  destructor joins a thread that was never made (`ffmpeg_demuxer.cc:136`;
  `DestroyDemuxer`).
- The buffer is to be empty before a demuxer is terminated (`ffmpeg_demuxer.cc:386`),
  but an error of `av_read_frame` that does not come from `Read` ends the thread
  with bytes in it (`ffmpeg_demuxer.cc:311`; `ParsingFails`).
- If the first packet has no time stamp and the data has the times of the
  content, the start is added to the times of all that follow
  (`ffmpeg_demuxer.cc:672`; `UntimedPacket`).
- The body that is posted with the result of a download is always empty, as the
  call that would fill it is commented out (`url_loader.cc:95`; `AppendDataBytes`).

## Proofs

A theorem holds for every value of the constants that its module's assumptions
allow.  Those bound nothing that the code bounds otherwise: that numbers are
numbers, that a buffer and a length field have a size, and that a message has a
length above zero (`HtspFraming`; the server sends none that is empty).

### HtspConnection

`HtspConnection_proofs` proves, for every number of sequence numbers above two,
every set of challenges and any number of unasked messages:

- `TypeCorrect`, and `PointersLive`, `MutexDiscipline`, `AnswersMatch`,
  `MessagesOwned`, `WakeupsArrive`: the safety invariants of `htsp_connection`;
- `LoginsFresh` (`DigestFresh`): a login is made with the challenge the server
  issued; it is proved and has no run of its own;
- `AnswersDecide`: the action property `AnswerNotLost`;
- `ConnectionIsHandshake`: the connection implements the safety part of
  `HtspHandshake`.

The assumptions are those the module names: `SeqLimitAssumption` (there are at
least three sequence numbers; the code has 2^32), `MaxPushAssumption`, and
`NoneAssumption` (the model value for "nothing" is none of the things it stands
in for).  Nothing else is assumed; in particular the deadline, spurious wakeups,
the server and the end of the connection are as free as in the runs.

The safety properties are not inductive.  That a call finds the answer to itself
(`OwnAnswer`) needs that the server only answers what it was asked, that no two
requests have the same sequence number, and that an answer to an earlier call
still on its way has a number no entry of the table has.  The inductive
invariant `Inv` says so in parts:

- `ControlInv`: which calls have begun and ended at each step of `Register`, and
  what `m_seq` is then;
- `LockDiscipline`, `EntriesLive`: as checked;
- `ResponseInv`: the response object is empty until its flag is set, and holds an
  answer to the current call then;
- `MessageInv`: every message on its way, in the reader's hand or in the response
  object is a good one (`GoodMessages`): it was not asked for, or it carries the
  sequence number of the call it answers, and if it says yes, the server has
  accepted that call;
- `RequestInv`: the requests the server has were sent by calls that have begun,
  with their numbers and the challenge the server issued;
- `AnswerInv`: an unanswered request and an answer to it do not exist at once,
  and there is at most one answer to each call;
- `IdInv`: the messages on their way, in use and freed are different ones.

`TypeCorrect` and each part have a lemma that a step keeps it, with a case for
each action; that a good message stays one (`GoodStable`) is a lemma of its own.
`Invariance` puts them together, the theorems follow from `Inv`, and the
refinement has one lemma for the beginning of a call and a case for each action.

### HtspFraming

Proved of `Spec`, for every size of the length field, every set of lengths and
any number of frames: `TypeCorrect`, `MessagesInOrder` (`DeliveredInOrder`),
`LengthsAligned` (`HeaderAligned`), `CopiesInBounds` (`CopyInBounds`), and
`FramingIsStream`: it implements `MessageStream`, which states no fairness.
`Invariance` is about

- `LayoutInv`: each frame begins where the one before it ends, no more arrives
  than was sent, and all of it while the connection is open;
- `DeliveredInv`: what has been delivered is a prefix of the messages sent;
- `ReaderInv`: the reader is at the end of the last delivered frame when it reads
  a length field, and past the field of the next one with a length that is right
  when it reads the body; `CopiedInv` says which bytes of the buffer are filled
  then.  After an error within a message `remaining` grows and `CopiedInv` is
  lost, but the reader stays where it is: `ReaderInv` says that nothing is to
  come then.

The refinement maps the messages in the stream to the frames that have arrived
whole; `WholeInv` follows from `Inv` and says that these are the first ones, and
that a message about to be delivered is among them.  There is a lemma for each
kind of step: an arrival, an end of the connection, a delivery, a stutter.

### PlayerPipeline

`Invariance`, about the specification without fairness (`Safety`), for any number
of calls of `InitPlayer`, packets and muxpkt messages: `TypeCorrect`,
`PacketsToOwnStream` (`OwnStream`), `NothingIsLeft` (`NothingOutlivesDemuxer`)
`OneContentIsSafe` (`RacesNeedNewContent`) and `NoPacketLost` (`NothingLost`).
The argument is that only one
demuxer is ever at work (`Cur`, in the queue or with a thread), as the
destructor of the one before joins its thread and takes its work from the queue:

- `LoopInv`: the demuxers there are and the calls of `InitPlayer` that are
  running or posted are together no more than were posted; the player and the
  data source are those of the last demuxer, except while they are exchanged;
- `DemuxInv`: the threads of the other demuxers have ended or not begun, and a
  destroyed demuxer was told to exit and its thread has ended;
- `QueueInv`: all waiting work is that of `Cur`;
- `ConfigInv`: if `Cur` has found a video stream, the stream that is set up is
  its own, or its configuration waits before every video packet that waits.
  Without it `OwnStream` is not inductive: a packet would go to what was there;
- `CrashInv`: what the reader has seen of `player_` can be gone only if a second
  call was posted; likewise for each way to crash that takes two contents.

`NothingLost` is inductive together with `Inv`.  Its two parts, which numbers
there are (`AllThere`) and their order (`InOrder`), change with a packet that is
posted (`FlowGrows`), one that is appended (`FlowGoesOn`), and the queue that
moves up (`FlowRuns`).  No packet can leave the queue but to be appended: by
`ConfigInv` the stream is set up when a packet comes to the head of the queue, and
`Cancelled` takes the packets of a demuxer that is then dead.

### Demuxer

Of `DemuxerSpec`, for every size of a read, any number of calls of `Parse` and
all sets of time stamps and AAC headers: `BytesInOrder` (`FirstInFirstOut`),
`WakeupsArrive` (`NoLostWakeup`), `EndComesLast` (`EndsAfterData`), `TypeCorrect`
and `TimestampsProper` (`ProperTimestamps`).  `EndInv` ties the flags to the
calls that set them and says that no data comes before the position of the end;
`OffsetInv` says which offset is in force once there was a packet: zero if the
data has the times of the content, unless the first packet had no time stamp; and
the start of the data in the content, or zero if that is within `kSegmentEps` of
zero, if the data starts anew.

### UrlLoader

Of `Spec`, for every size of the buffer and of the body: `TypeCorrect`,
`NothingUsedAfterDelete` (`NoUseAfterDelete`), `StackIsFlat` (`StackStaysFlat`),
`ListenerSeesBody` (`ListenerGetsBody`), `ResultReportedOnce` (`ReportsOnce`) and
`SuccessHasWholeBody` (`SuccessIsWhole`).  `NoUseAfterDelete` and `StackStaysFlat`
are not inductive: a frame that returns might uncover one that reads.  `FramesInv`
says that only the second of two functions reads (`Shape`), and that then no
callback is due and the handler is alive, with its buffer.  `SuccessIsWhole` needs
`ListenerGetsBody`, as a success says that as much has arrived as there is.

### The transport stream

`TsPacket_proofs` is about the operators of `TsPacket`, which are recursive
functions, and no state:

- `HeaderReadBack`: `Decode(fields, Encode(fields, header))` is the header, for
  every list of fields whose names differ and whose widths add up to bytes, and
  every header whose numbers fit;
- `CrcOfSection`: `crc32(s \o crc32(s))` is zero, for every sequence of bytes.
  Each byte of the CRC meets itself in the register, the entry of the table for
  zero is zero, and the register moves on by eight zero bits.

`TsMuxer_proofs` proves of `Spec`, for every packet size from 32 to 260, any
streams and PIDs, any frames of any size, and any moduli of the counters and of
the tables: `TypeCorrect`, `PacketsAreWhole` (`WholePackets`),
`CountersContinuous` (`Continuity`), `TablesAreRight` (`TablesDescribe`) and
`FrameComesBack` (`FrameRecovered`).  The assumptions are `StreamAssumption` (PIDs
have 13 bits), `FrameAssumption` (what the types of `EsFrame` allow, with any type
on any PID but those of the tables) and `SizeAssumption` (headers fit into the
first packet, the PMT is one packet, an adaptation field has a length of one
byte).

A packet is `IsPacket`: the four bytes of a header, an adaptation field, which
may be empty and whose first byte is the length of the rest, and a payload.  What
is proved of each operation is which three these are; that the packet has the
right size is then a sum of lengths (`PesParts`, `TableParts`, `PcrParts`).  The
elements of the PMT are counted along the recursion of `mInfos` (`InfosListed`).
What the receiver finds is read off the three parts, with `HeaderReadBack`
(`PacketShows`).

The inductive invariant `IInv` consists of the types and

- `PhaseInv`: which operation each `pc` belongs to, and what is idle is empty;
- `BufferInv`: the buffer of any operation but `createNull` is a number of whole
  packets one after the other (`Whole`), each sound by itself;
- `CountersInv`: of each key of `mPidCcMap` and each PID that has it for itself
  (`CountedAlone`), the
  packets in the buffer have counters in sequence, the first after what the
  receiver saw last and the last equal to the key's counter (`Counted`).
  `Continuity` alone says nothing of the map, from which the next counter comes.

A step appends packets (`Grown`), which leaves what the receiver reads in the
ones before as it was; `CountedNext` and `CountedOther` say what the packet does
for its own PID and for the others.

Two more invariants are inductive together with `IInv`:

- `TablesInv`: while a frame is encoded, its buffer begins with both tables or has
  none, and in a muxer of type `segmentType` it has them if the frame is a random
  access point.  `WithTables` says of each table what `TablesDescribe` asks for.
  That is shown once, when the tables are made: `HeaderReadBack` reads the headers
  of the sections back, the elements are those `InfosListed` finds, `CrcOfSection`
  says that the CRC is right, and the packets that follow leave the first two as
  they are (`Grown`);
- `FrameInv`: of the packets of the frame's PID so far (`FrameIn`), the first is
  marked as a start and no other is, only the first says when the data begins and
  what the clock is, and the payloads together are the PES header and the data up
  to `pos`.  `FrameRecovered` speaks of the end of the operation only, and is not
  inductive: each packet takes what fits and leaves `pos` for the next.

`Gathers` says what the receiver's recursion over the packets has collected; a
packet of another PID adds nothing to it and one of the frame's PID its payload
(`GatheredNone`, `GatheredNext`).  When the callback comes, `pos` is the size of
the frame, and `PesRead` reads the header at the front of what was collected: the
stream number, the length, which is zero if it does not fit, and the time stamps,
by `PtsReadBack`, each without its highest bit.  `FirstPacketRead` does the same
for the adaptation field: its marks and the PCR (`PcrReadBack`) survive the
stuffing of a frame that fits into one packet.

### What is only model-checked

- Liveness (`ReaderGetsMutex`, `RegisterFinishes`, `EveryFrameDelivered`,
  `PacketReachesPlayer`, `DestructorReturns`, `EverythingDemuxed`, and the
  fairness of `HtspHandshake`): the prover has no rules for
  fairness.

Every safety property of a passing run is stated by a theorem; of
`ImplementsHandshake` that is the part without fairness (`ConnectionIsHandshake`).

The library's induction theorems take an operator as a parameter, which the
installed provers cannot instantiate.  `SequenceLemmas` has induction in a form
they can use, about a set of numbers (`Induction`, by way of
`NatLessThanWellFounded`), and `Recursion`, which gives a recursive function its
equations.

## What is not modelled

- In the muxer: `print`, descriptors, the functions of `SimpleBuffer` that nothing
  calls, and a muxer without a callback.  `createNull` sends four bytes, which is
  no packet of a transport stream; `WholePackets` leaves it out, as nothing says
  what it should be.  When the tables of a muxer of type `h222Type` come is not
  stated: the code calls that type not implemented correctly.
- A callback that calls the muxer again, and more streams than a table has room
  for: nothing in the program does either.
- `SetTimestamp` after `Init`, which nothing would keep apart from the parser
  thread; `Flush`, `Close`, `Pause`, `Config`, `ChangeRepresentation`,
  `FinishStreamConfiguration` and `PerformWaitingOperations`, which nothing calls,
  and DRM initialisation data, which has no listener.
- Contents of messages, packets and configurations beyond what decides what
  happens to them; the SHA-1 digest is the challenge it was made with.
- Leaks that nothing observes: the copy of each muxpkt message, the subscribe
  message, the read buffers of a failed length field.
- FFmpeg, libhts, NaCl Player and `pp::`: external, with every result the code
  can tell apart.

## Plan

Done: `HtspHandshake`, `MessageStream`, and, with proofs,
`HtspConnection`, `HtspFraming`, `PlayerPipeline`, `DemuxBuffer` with `Demuxer`,
`UrlLoader`, `TsPacket` and `TsMuxer`.

Next, in this order:

1. A composition of `HtspConnection` and `PlayerPipeline`, through
   `ProcessMessage`: a packet before `InitPlayer`.
