--------------------------- MODULE MCDvppEncoder ----------------------------
(* Instances of DvppEncoder for TLC. *)
EXTENDS DvppEncoder

Picture(w, h) == [w |-> w, h |-> h]

(* A size the header of the encoder asks for, and one it does not. *)
EitherSize == {Picture(32, 4), Picture(17, 3)}

(* The number after the last is refused; numbers start again at 0, and the *)
(* channel 0 is still in use or not.                                       *)
AnyStart == {[id |-> MaxChn - 1, used |-> {}], [id |-> MaxChn, used |-> {0}],
             [id |-> MaxChn, used |-> {}]}
=============================================================================
