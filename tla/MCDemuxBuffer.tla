---------------------------- MODULE MCDemuxBuffer ----------------------------
(***************************************************************************)
(* DemuxBuffer with reads of two bytes and writes of one to three.        *)
(***************************************************************************)
EXTENDS DemuxBuffer
=============================================================================
