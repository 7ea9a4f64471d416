--------------------------- MODULE MCVideoDecoder ---------------------------
(* Instance of VideoDecoder for TLC. *)
EXTENDS VideoDecoder
=============================================================================
