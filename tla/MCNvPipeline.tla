---------------------------- MODULE MCNvPipeline -----------------------------
(* Instances of NvPipeline for TLC. *)
EXTENDS NvPipeline

H(coded, display) == [coded |-> coded, display |-> display]

(* One size; a smaller one and back; a smaller one with more lines to      *)
(* display; a display size that changes alone and back; a size above the   *)
(* first.                                                                  *)
Videos == {<<H(2, 2), H(2, 2), H(2, 2), H(2, 2), H(2, 2), H(2, 2)>>,
           <<H(3, 3), H(2, 2), H(2, 2), H(3, 3), H(3, 3)>>,
           <<H(4, 2), H(3, 3), H(3, 3)>>,
           <<H(3, 2), H(3, 3), H(3, 2), H(3, 2)>>,
           <<H(2, 2), H(2, 2), H(3, 3)>>}
=============================================================================
