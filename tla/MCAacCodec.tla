----------------------------- MODULE MCAacCodec ------------------------------
(* Instances of AacCodec for TLC. *)
EXTENDS AacCodec

Stream(lens, num, den) == [lens |-> lens, num |-> num, den |-> den]

(* AAC LC; HE-AAC; lengths that grow and shrink; another rate. *)
AllStreams == {Stream(<<2, 2, 2>>, 1, 1), Stream(<<4, 4, 4>>, 1, 1),
               Stream(<<4, 4, 4, 2, 2>>, 1, 1), Stream(<<5, 5, 5>>, 3, 4)}
=============================================================================
