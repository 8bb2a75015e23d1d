-------------------------- MODULE MCHtspConnection --------------------------
(***************************************************************************)
(* HtspConnection with two challenges, which tell the issued one from any  *)
(* other, and a bounded number of pushed messages.                         *)
(* The handshake needs two sequence numbers; the third value of the type   *)
(* shows that nothing depends on the range.                                *)
(***************************************************************************)
EXTENDS HtspConnection
=============================================================================
