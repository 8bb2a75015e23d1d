----------------------------- MODULE MCDemuxer -----------------------------
(***************************************************************************)
(* Demuxer with reads of two bytes, writes of one to three, and four calls *)
(* of Parse, so that a write is cut by reads, a read joins writes, and     *)
(* data can follow the end; with data from half a second, which is        *)
(* kSegmentEps, and from three times that after the start of the content.  *)
(* A header of the audio stream is that of AAC-LC with two channels: five  *)
(* bits for the object type, four for the frequency, four for the          *)
(* channels.                                                               *)
(***************************************************************************)
EXTENDS Demuxer

AacHeader(index) == <<2 * 8 + index \div 2, (index % 2) * 128 + 2 * 8>>

NoHeader == {<<>>}
AnyHeader == {<<>>} \cup {AacHeader(index) : index \in 0 .. 15}
=============================================================================
