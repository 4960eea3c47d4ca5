---------------------------- MODULE MCBgpPeering ----------------------------
(***************************************************************************)
(* BgpPeering with its constants given in the configuration.               *)
(***************************************************************************)
EXTENDS BgpPeering
=============================================================================
