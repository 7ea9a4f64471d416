---------------------------- MODULE MCOutputFile ----------------------------
(* Instances of OutputFile for TLC. *)
EXTENDS OutputFile

Sps == Nal("sps", 1)
Pps == Nal("pps", 1)
Idr == Nal("idr", 0)
Slice == Nal("slice", 0)
Sei == Nal("sei", 0)

(* A group of pictures, the next picture in two slices. *)
TwoPackets == <<<<Sps, Pps, Sei, Idr>>, <<Slice, Slice>>>>
OnePacket == <<<<Sps, Pps, Idr>>>>

(* All stamps three packets can get: the same time, the next millisecond,  *)
(* or one beyond the correction that the stamps before had.  Video counts  *)
(* 90000 ticks in a second; audio is given a time base so coarse that a    *)
(* corrected stamp meets that of the next millisecond.                     *)
SomeGaps == {0, 1, 3}
Ticks == [s \in Streams |-> IF s = "video" THEN 90000 ELSE 1000]
Times == {At(s, n) : s \in Streams, n \in 0..6}
=============================================================================
