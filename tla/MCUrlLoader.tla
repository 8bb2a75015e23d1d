---------------------------- MODULE MCUrlLoader ----------------------------
(***************************************************************************)
(* UrlLoader with bodies of up to seven bytes and a buffer of three: empty *)
(* bodies, and several reads, each of which fills the buffer or does not.  *)
(***************************************************************************)
EXTENDS UrlLoader
=============================================================================
