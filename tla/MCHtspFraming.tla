--------------------------- MODULE MCHtspFraming ---------------------------
(***************************************************************************)
(* HtspFraming with a length field of two bytes: it may come in one piece  *)
(* or in two, as one of four bytes may.  A message of three bytes can take *)
(* one, two or three reads.                                                *)
(***************************************************************************)
EXTENDS HtspFraming
=============================================================================
