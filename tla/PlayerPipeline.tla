--------------------------- MODULE PlayerPipeline ---------------------------
(***************************************************************************)
(* From the demuxer to NaCl Player: FFMpegDemuxer's parser thread, the     *)
(* message loop of HelloWorld::player_thread_ on which                     *)
(* EsHtspPlayerController runs, and the HTSP reader thread, which calls    *)
(* EsHtspPlayerController::AddData.                                        *)
(*                                                                         *)
(* The loop runs one task at a time, in the order they were posted:        *)
(* InitPlayer, and what a parser thread posts, stream configurations and   *)
(* packets.  InitPlayer takes several steps, as other threads run between  *)
(* them.  HelloWorld posts one InitPlayer; the documentation of the method *)
(* allows several.                                                         *)
(*                                                                         *)
(* Demuxers are numbered as InitPlayer makes them, and so are the player   *)
(* and the data source it makes for each of them; 0 is a null pointer.  A  *)
(* use of a null pointer ends the program: "crash" says which one it was.  *)
(***************************************************************************)
EXTENDS Integers, Sequences, FiniteSets

CONSTANTS MaxInits,    \* bound: calls of InitPlayer
          MaxPackets,  \* bound: packets of a kind in a demuxer's input
          MaxMux       \* bound: muxpkt messages the HTSP reader hands over

ASSUME BoundsAssumption == {MaxInits, MaxPackets, MaxMux} \subseteq Nat

VARIABLES
  queue,        \* tasks posted to the loop
  loop,         \* what the loop is at: "idle", or a step of InitPlayer
  posted,       \* calls of InitPlayer that were posted
  demuxer_, player_, data_source_, state_, videoInit, stream, attached,
  parser,       \* the parser thread of each demuxer
  found,        \* the streams each demuxer has found in its input
  exited_,      \* demuxers whose destructor has started
  dead,         \* demuxers that are destroyed
  demuxed,      \* packets of each kind each demuxer has posted
  appended,     \* packets handed to AppendPacket, in order
  reader,       \* the HTSP reader thread
  held,         \* the demuxer it calls Parse of
  mux,          \* messages it has handed over
  crash

controller == <<demuxer_, player_, data_source_, state_, videoInit, stream,
                attached, appended>>
demux == <<parser, found, exited_, dead, demuxed>>
readerVars == <<reader, held, mux>>
vars == <<queue, loop, posted, controller, demux, readerVars, crash>>

Demuxers == 1 .. MaxInits
Kinds == {"audio", "video"}
NoStream == [config |-> 0, source |-> 0]

InitTask == [what |-> "InitPlayer", demuxer |-> 0, kind |-> "none", n |-> 0]
ConfigTask(d, kind) == [what |-> "config", demuxer |-> d, kind |-> kind, n |-> 0]
PacketTask(d, kind, n) ==
  [what |-> "packet", demuxer |-> d, kind |-> kind, n |-> n]
\* kEndOfStream is posted with a null packet.
EndTask(d) == [what |-> "end", demuxer |-> d, kind |-> "none", n |-> 0]

TypeOK ==
  /\ \A k \in 1 .. Len(queue) :
       queue[k] \in [what : {"InitPlayer", "config", "packet", "end"},
                     demuxer : 0 .. MaxInits, kind : Kinds \cup {"none"},
                     n : 0 .. MaxPackets]
  /\ loop \in {"idle", "clean", "create", "destroy", "join", "make", "open"}
  /\ posted \in 0 .. MaxInits
  /\ {demuxer_, player_, data_source_, held} \subseteq 0 .. MaxInits
  /\ state_ \in {"uninitialized", "playing"}
  /\ videoInit \in BOOLEAN /\ attached \in BOOLEAN
  /\ stream \in [config : 0 .. MaxInits, source : 0 .. MaxInits]
  /\ parser \in [Demuxers -> {"none", "starting", "finding", "reading", "done"}]
  /\ found \in [Demuxers -> SUBSET Kinds]
  /\ exited_ \subseteq Demuxers /\ dead \subseteq exited_
  /\ demuxed \in [Demuxers -> [Kinds -> 0 .. MaxPackets]]
  /\ \A k \in 1 .. Len(appended) :
       appended[k] \in [demuxer : Demuxers, n : 1 .. MaxPackets,
                        to : [config : 0 .. MaxInits, source : 0 .. MaxInits]]
  /\ reader \in {"idle", "parse", "check", "play", "set"}
  /\ mux \in 0 .. MaxMux
  /\ crash \in {"none", "null demuxer", "dead demuxer", "null player",
                "null source", "null packet", "null thread", "free of stack"}

Init ==
  /\ queue = <<>> /\ loop = "idle" /\ posted = 0
  /\ demuxer_ = 0 /\ player_ = 0 /\ data_source_ = 0
  /\ state_ = "uninitialized"
  /\ videoInit = FALSE /\ stream = NoStream /\ attached = FALSE
  /\ parser = [d \in Demuxers |-> "none"]
  /\ found = [d \in Demuxers |-> {}]
  /\ exited_ = {} /\ dead = {}
  /\ demuxed = [d \in Demuxers |-> [kind \in Kinds |-> 0]]
  /\ appended = <<>>
  /\ reader = "idle" /\ held = 0 /\ mux = 0 /\ crash = "none"

\* A thread is at one of its steps, and the program still runs.
LoopAt(step) == crash = "none" /\ loop = step
ParserAt(d, step) == crash = "none" /\ parser[d] = step
ReaderAt(step) == crash = "none" /\ reader = step
-----------------------------------------------------------------------------
(* InitPlayer, on the loop.                                                *)

\* HelloWorld::Init, and whoever else changes the content.
PostInitPlayer ==
  /\ crash = "none" /\ posted < MaxInits
  /\ posted' = posted + 1
  /\ queue' = Append(queue, InitTask)
  /\ UNCHANGED <<loop, controller, demux, readerVars, crash>>

Runs(what) == LoopAt("idle") /\ queue # <<>> /\ Head(queue).what = what

\* SetViewRect frees an array on its stack if there is a player: the
\* allocator may notice.
StartInitPlayer ==
  /\ Runs("InitPlayer")
  /\ queue' = Tail(queue)
  /\ loop' = "clean"
  /\ crash' \in {crash} \cup IF player_ # 0 THEN {"free of stack"} ELSE {}
  /\ UNCHANGED <<posted, controller, demux, readerVars>>

\* videoInit and the stream of the old data source stay.
CleanPlayer ==
  /\ LoopAt("clean")
  /\ player_' = 0 /\ data_source_' = 0 /\ attached' = FALSE
  /\ state_' = IF player_ # 0 THEN "uninitialized" ELSE state_
  /\ loop' = "create"
  /\ UNCHANGED <<queue, posted, demuxer_, videoInit, stream, appended, demux,
                 readerVars, crash>>

\* The assignment of the new demuxer destroys the old one.
CreateDemuxer ==
  /\ LoopAt("create")
  /\ demuxer_' = demuxer_ + 1
  /\ loop' = IF demuxer_ = 0 THEN "make" ELSE "destroy"
  /\ UNCHANGED <<queue, posted, player_, data_source_, state_, videoInit,
                 stream, attached, appended, demux, readerVars, crash>>

\* There is no thread to join if Init of the old demuxer failed.
DestroyDemuxer ==
  /\ LoopAt("destroy")
  /\ exited_' = exited_ \cup {demuxer_ - 1}
  /\ crash' = IF parser[demuxer_ - 1] = "none" THEN "null thread" ELSE crash
  /\ loop' = "join"
  /\ UNCHANGED <<queue, posted, controller, parser, found, dead, demuxed,
                 readerVars>>

\* What parser_thread_->join() waits for.
Joinable(d) == parser[d] = "done"

\* Mutant: what the destroyed demuxer has posted is left to run.
CancelsNothing(tasks, d) == tasks

\* The destructor of callback_factory_: the tasks of the others stay, the i-th
\* of them being the one up to which there are i.
Cancelled(tasks, d) ==
  LET kept == {k \in 1 .. Len(tasks) : tasks[k].demuxer # d}
  IN  [i \in 1 .. Cardinality(kept) |->
         tasks[CHOOSE k \in kept : Cardinality({j \in kept : j <= k}) = i]]

JoinParser ==
  /\ LoopAt("join")
  /\ Joinable(demuxer_ - 1)
  /\ dead' = dead \cup {demuxer_ - 1}
  /\ queue' = Cancelled(queue, demuxer_ - 1)
  /\ loop' = "make"
  /\ UNCHANGED <<posted, controller, parser, found, exited_, demuxed,
                 readerVars, crash>>

\* If SetDisplayRect fails, an array on the stack is freed.
MakePlayer ==
  /\ LoopAt("make")
  /\ player_' = demuxer_ /\ data_source_' = demuxer_
  /\ loop' = "open"
  /\ crash' \in {crash, "free of stack"}
  /\ UNCHANGED <<queue, posted, demuxer_, state_, videoInit, stream, attached,
                 appended, demux, readerVars>>

\* FFMpegDemuxer::Init; InitPlayer does not look at what it returns.
OpenInput ==
  /\ LoopAt("open")
  /\ parser' \in {parser, [parser EXCEPT ![demuxer_] = "starting"]}
  /\ loop' = "idle"
  /\ UNCHANGED <<queue, posted, controller, found, exited_, dead, demuxed,
                 readerVars, crash>>
-----------------------------------------------------------------------------
(* The parser thread of demuxer d.                                         *)

\* Mutant: only the first configuration is reported.
ConfigsOnce(d, kinds) ==
  IF videoInit THEN <<>>
  ELSE SelectSeq(<<ConfigTask(d, "audio"), ConfigTask(d, "video")>>,
                 LAMBDA task : task.kind \in kinds)

\* What UpdateAudioConfig and UpdateVideoConfig post.
Configs(d, kinds) ==
  (IF "audio" \in kinds THEN <<ConfigTask(d, "audio")>> ELSE <<>>)
  \o (IF "video" \in kinds THEN <<ConfigTask(d, "video")>> ELSE <<>>)

Finds(d, kinds) ==
  /\ found' = [found EXCEPT ![d] = @ \cup kinds]
  /\ queue' = queue \o Configs(d, kinds)
  /\ UNCHANGED <<loop, posted, controller, exited_, dead, demuxed, readerVars,
                 crash>>

\* InitStreamInfo posts the configuration of the audio stream before it looks for
\* a video stream.
FindAudio(d) ==
  /\ ParserAt(d, "starting")
  /\ \E kinds \in SUBSET {"audio"} : Finds(d, kinds)
  /\ parser' = [parser EXCEPT ![d] = "finding"]

\* The thread ends if there is no stream, or the input cannot be opened.
FindVideo(d) ==
  /\ ParserAt(d, "finding")
  /\ \E kinds \in SUBSET {"video"} :
       /\ Finds(d, kinds)
       /\ parser' = [parser EXCEPT ![d] = IF found[d] \cup kinds = {} THEN "done"
                                          ELSE "reading"]

InitStreamInfo(d) == FindAudio(d) \/ FindVideo(d)

\* Mutants: a message arrives that the loop knows nothing of; a packet
\* overtakes those that wait.
PostBadWork(tasks, task) == Append(tasks, [task EXCEPT !.n = -1])
PostFirst(tasks, task) == <<task>> \o tasks

\* MessageLoop::PostWork.
PostWork(tasks, task) == Append(tasks, task)

\* Packets of other streams are dropped here.
ReadFrame(d) ==
  /\ ParserAt(d, "reading")
  /\ \E kind \in found[d] :
       /\ demuxed[d][kind] < MaxPackets
       /\ demuxed' = [demuxed EXCEPT ![d][kind] = @ + 1]
       /\ queue' = PostWork(queue, PacketTask(d, kind, demuxed[d][kind] + 1))
  /\ UNCHANGED <<loop, posted, controller, parser, found, exited_, dead,
                 readerVars, crash>>

ReadEndOfFile(d) ==
  /\ ParserAt(d, "reading")
  /\ queue' = Append(queue, EndTask(d))
  /\ parser' = [parser EXCEPT ![d] = "done"]
  /\ UNCHANGED <<loop, posted, controller, found, exited_, dead, demuxed,
                 readerVars, crash>>

\* AVERROR_EXIT ends the thread.  After any other error it reads again,
\* unless the destructor has started: that is the one place it is seen.
ReadFails(d) ==
  /\ ParserAt(d, "reading")
  /\ \E error \in {"exit", "other"} : error = "exit" \/ d \in exited_
  /\ parser' = [parser EXCEPT ![d] = "done"]
  /\ UNCHANGED <<queue, loop, posted, controller, found, exited_, dead,
                 demuxed, readerVars, crash>>
-----------------------------------------------------------------------------
(* The controller's callbacks, on the loop.                                *)

\* The listener for audio configurations, which would set audioInit, is
\* commented out.
audioInit == FALSE

\* AttachSource is called for every video configuration.
OnVideoConfig ==
  /\ Runs("config") /\ Head(queue).kind = "video"
  /\ queue' = Tail(queue)
  /\ crash' = IF data_source_ = 0 THEN "null source" ELSE crash
  /\ stream' = [config |-> Head(queue).demuxer, source |-> data_source_]
  /\ videoInit' = TRUE
  /\ attached' = (attached \/ audioInit)
  /\ UNCHANGED <<loop, posted, demuxer_, player_, data_source_, state_,
                 appended, demux, readerVars>>

OnAudioConfig ==
  /\ Runs("config") /\ Head(queue).kind = "audio"
  /\ queue' = Tail(queue)
  /\ UNCHANGED <<loop, posted, controller, demux, readerVars, crash>>

\* Mutant: packets wait for the source to be attached.
AttachedReady == videoInit /\ attached

VideoReady == videoInit

\* es_packet_: the packets of a stream that is not set up are dropped.  The
\* others are handed to AppendPacket, whose failure is only logged.
OnPacket ==
  /\ Runs("packet")
  /\ queue' = Tail(queue)
  /\ appended' = IF Head(queue).kind = "video" /\ VideoReady
                 THEN Append(appended, [demuxer |-> Head(queue).demuxer,
                                        n |-> Head(queue).n, to |-> stream])
                 ELSE appended
  /\ UNCHANGED <<loop, posted, demuxer_, player_, data_source_, state_,
                 videoInit, stream, attached, demux, readerVars, crash>>

\* es_packet_ asks the packet for its data before it looks at the message.
OnEndOfStream ==
  /\ Runs("end")
  /\ queue' = Tail(queue)
  /\ crash' = "null packet"
  /\ UNCHANGED <<loop, posted, controller, demux, readerVars>>
-----------------------------------------------------------------------------
(* MuxPacket, on the HTSP reader thread.                                   *)

\* Only stream 1 is parsed; a malformed message is dropped here.
MuxPacket ==
  /\ ReaderAt("idle") /\ mux < MaxMux
  /\ mux' = mux + 1
  /\ \E idx \in {1, 3} : reader' = IF idx = 1 THEN "parse" ELSE "check"
  /\ held' = demuxer_
  /\ UNCHANGED <<queue, loop, posted, controller, demux, crash>>

\* A demuxer that was destroyed may still look like one.
Parse ==
  /\ ReaderAt("parse")
  /\ crash' \in CASE held = 0 -> {"null demuxer"}
                  [] held \in dead -> {crash, "dead demuxer"}
                  [] OTHER -> {crash}
  /\ reader' = "check"
  /\ UNCHANGED <<queue, loop, posted, controller, demux, held, mux>>

\* Mutant: Play does not look whether there is a player.
AnyPlayer == TRUE

HasPlayer == player_ # 0

CheckPlayer ==
  /\ ReaderAt("check")
  /\ reader' = IF HasPlayer THEN "play" ELSE "idle"
  /\ UNCHANGED <<queue, loop, posted, controller, demux, held, mux, crash>>

CallPlay ==
  /\ ReaderAt("play")
  /\ crash' = IF player_ = 0 THEN "null player" ELSE crash
  /\ reader' \in {"set", "idle"}
  /\ UNCHANGED <<queue, loop, posted, controller, demux, held, mux>>

SetPlaying ==
  /\ ReaderAt("set")
  /\ state_' = "playing"
  /\ reader' = "idle"
  /\ UNCHANGED <<queue, loop, posted, demuxer_, player_, data_source_,
                 videoInit, stream, attached, appended, demux, held, mux,
                 crash>>
-----------------------------------------------------------------------------
InitPlayer == StartInitPlayer \/ CleanPlayer \/ CreateDemuxer
              \/ DestroyDemuxer \/ JoinParser \/ MakePlayer \/ OpenInput
Callback == OnVideoConfig \/ OnAudioConfig \/ OnPacket \/ OnEndOfStream
Loop == InitPlayer \/ Callback
Parser(d) == InitStreamInfo(d) \/ ReadFrame(d) \/ ReadEndOfFile(d)
             \/ ReadFails(d)
Reader == MuxPacket \/ Parse \/ CheckPlayer \/ CallPlay \/ SetPlaying

Next == \/ PostInitPlayer
        \/ Loop
        \/ \E d \in Demuxers : Parser(d)
        \/ Reader

\* The threads run.  Nothing is assumed of the input: it need not have
\* another packet, and it need not end.
Fairness == /\ WF_vars(Loop)
            /\ \A d \in Demuxers : WF_vars(InitStreamInfo(d))
            /\ WF_vars(Parse \/ CheckPlayer \/ CallPlay \/ SetPlaying)

Safety == Init /\ [][Next]_vars
Spec == Safety /\ Fairness
-----------------------------------------------------------------------------
\* Where the video packets of a demuxer are that wait, and that were appended.
Waiting(d) ==
  {k \in 1 .. Len(queue) : /\ queue[k].what = "packet" /\ queue[k].kind = "video"
                           /\ queue[k].demuxer = d}
Appended(d) == {k \in 1 .. Len(appended) : appended[k].demuxer = d}

NumbersAt(s, K) == {s[k].n : k \in K}

AllThere(d) ==
  NumbersAt(appended, Appended(d)) \cup NumbersAt(queue, Waiting(d))
    = 1 .. demuxed[d]["video"]

InOrder(d) ==
  /\ \A j, k \in Appended(d) : j < k => appended[j].n < appended[k].n
  /\ \A j, k \in Waiting(d) : j < k => queue[j].n < queue[k].n
  /\ \A j \in Appended(d), k \in Waiting(d) : appended[j].n < queue[k].n

\* A packet is only given to a stream that was configured by the demuxer the
\* packet comes from, and belongs to the data source made with it: although
\* CleanPlayer leaves videoInit and the stream of the previous content as they
\* are, no packet of new content is appended to it (ffmpeg_demuxer.cc:595,
\* es_htsp_player_controller.cc:83).
OwnStream ==
  \A k \in 1 .. Len(appended) :
    appended[k].to = [config |-> appended[k].demuxer,
                      source |-> appended[k].demuxer]

\* No video packet of a demuxer that lives is lost or overtaken on its way
\* from the parser thread to the player: those that were appended and then
\* those that wait are all there were, in order.  The controller drops what
\* arrives before the configuration (es_htsp_player_controller.cc:83), so
\* nothing may.
NothingLost == \A d \in Demuxers \ dead : AllThere(d) /\ InOrder(d)

\* When a demuxer is gone, its thread is, and nothing it has posted is left
\* to be run (FFMpegDemuxer::~FFMpegDemuxer).
NothingOutlivesDemuxer ==
  \A d \in dead : /\ parser[d] = "done"
                  /\ \A k \in 1 .. Len(queue) : queue[k].demuxer # d

\* A player, demuxer or thread that has gone while it was in use is the price of
\* a second InitPlayer (es_htsp_player_controller.cc:339, ffmpeg_demuxer.cc:136):
\* with the one call that HelloWorld posts, Play keeps the player it has found,
\* nothing is parsed by a destroyed demuxer, and no thread is joined that was
\* never started.  And whatever is called, a video configuration finds its data
\* source (es_htsp_player_controller.cc:110): InitPlayer makes it before the
\* demuxer is opened, and no configuration of the old one is left to be run.
RacesNeedNewContent ==
  /\ crash # "null source"
  /\ crash \in {"dead demuxer", "null player", "null thread"} => posted > 1

\* A video packet reaches the player, unless other content has been asked for
\* or the program has ended: a packet needs no second stream and no data
\* source that is attached.
PacketReachesPlayer ==
  \A d \in Demuxers, n \in 1 .. MaxPackets :
    demuxed[d]["video"] >= n
      ~> \/ \E k \in 1 .. Len(appended) :
              appended[k].demuxer = d /\ appended[k].n = n
         \/ demuxer_ # d \/ crash # "none"

\* InitPlayer may be called several times: each call comes to an end.
InitPlayerReturns == loop # "idle" ~> loop = "idle" \/ crash # "none"

\* InitPlayer may be called several times (es_htsp_player_controller.h:130), and
\* Play, on the other thread, tests the player before it uses it: the player it
\* has found is there when it plays.
PlayKeepsPlayer == crash # "null player"

\* The demuxer's callback may get any message: the end of a stream is no end
\* of the program.
EndOfStreamHandled == crash # "null packet"
=============================================================================
