---------------------------- MODULE MCRtspProxy ----------------------------
(* Instances of RtspProxy for TLC. *)
EXTENDS RtspProxy
=============================================================================
