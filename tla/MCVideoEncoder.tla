--------------------------- MODULE MCVideoEncoder ---------------------------
(* Instances of VideoEncoder for TLC. *)
EXTENDS VideoEncoder

Picture(w, h) == [w |-> w, h |-> h]

(* The picture grows, shrinks back, and then changes its height alone. *)
ChangingSizes == <<Picture(2, 2), Picture(4, 4), Picture(2, 2), Picture(2, 3)>>
=============================================================================
