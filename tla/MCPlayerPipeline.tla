-------------------------- MODULE MCPlayerPipeline --------------------------
(***************************************************************************)
(* PlayerPipeline with content that is changed once and two packets of a   *)
(* kind in each: a packet can wait while another one is demuxed, and those *)
(* of the old content can wait while the new one is set up.                *)
(***************************************************************************)
EXTENDS PlayerPipeline
=============================================================================
