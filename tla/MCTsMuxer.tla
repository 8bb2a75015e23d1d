----------------------------- MODULE MCTsMuxer -----------------------------
(***************************************************************************)
(* TsMuxer with packets of 188 bytes, a video stream, whose PID carries    *)
(* the PCR, and an audio stream, or two audio streams of the same type, on *)
(* two PIDs, the second of which the map of streams cannot hold.  The      *)
(* sizes of the frames are those around which the stuffing of the first or *)
(* the second packet changes: a first packet has room for 170 bytes (165   *)
(* with DTS), less 8 with the PCR and 2 with the random access flag only;  *)
(* a later one has room for 184.  Continuity counters are modulo 3 and the *)
(* limit of the PES length is 300, so that both are passed.                *)
(***************************************************************************)
EXTENDS TsMuxer

Stamp(n) == [k \in 1 .. 33 |-> IF (k * k + n * k) % 7 < 3 THEN 1 ELSE 0]

MCStreamPidMap == (27 :> 256) @@ (15 :> 4660)

Frame(type, pid, id, ra, dts, size) ==
  [mStreamType |-> type, mPid |-> pid, mStreamId |-> id, mRandomAccess |-> ra,
   mPts |-> Stamp(1), mDts |-> IF dts THEN Stamp(2) ELSE Stamp(1),
   mPcr |-> Stamp(3), size |-> size]

\* A frame of either of the audio streams.
AudioTracks == {Frame(15, pid, 192, 0, FALSE, 20) : pid \in {4660, 4661}}

MCFrames ==
  {Frame(27, 256, 224, 0, FALSE, size) : size \in {0, 161, 163}} \cup
  {Frame(27, 256, 224, 1, TRUE, size) : size \in {157, 158}} \cup
  {Frame(15, 4660, 192, 0, FALSE, size) :
     size \in {168, 169, 170 + 182, 170 + 183, 170 + 184}} \cup
  {Frame(15, 4660, 192, 1, FALSE, 167)}

MCPcrs == {Stamp(4)}
=============================================================================
