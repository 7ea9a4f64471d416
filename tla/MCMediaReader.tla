---------------------------- MODULE MCMediaReader ----------------------------
(* Instances of MediaReader for TLC. *)
EXTENDS MediaReader

(* Both streams start, continue and end; one packet is of a third stream. *)
AVFile == <<"video", "audio", "video", "other", "audio", "video">>

(* Enough for a Reset or a destructor to meet packets in every place. *)
TinyFile == <<"video", "audio">>
=============================================================================
