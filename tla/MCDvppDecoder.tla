--------------------------- MODULE MCDvppDecoder ----------------------------
(* DvppDecoder for TLC; every constant is given by the configuration. *)
EXTENDS DvppDecoder
=============================================================================
