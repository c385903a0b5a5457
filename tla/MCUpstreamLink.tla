---------------------------- MODULE MCUpstreamLink ----------------------------
(******************************************************************************)
(* The link with its five delays: 1, 2.7, 7.4, 20.1 and 30 seconds.           *)
(******************************************************************************)
EXTENDS UpstreamLink

mcRequests == {"STATE_REQ", "CONFIG_REQ", "BRIDGE_REQ"}
===============================================================================
