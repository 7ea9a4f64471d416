---------------------------- MODULE MCRtspClient ----------------------------
(* Instance of RtspClient for TLC. *)
EXTENDS RtspClient

Packet(channel, kind, nal) == [text |-> FALSE, channel |-> channel, body |-> <<kind, nal>>]
Text == [text |-> TRUE, channel |-> 0, body |-> <<>>]

(* A slice, an SPS, a unit in three fragments with audio, an RTCP packet   *)
(* and the answer to a heartbeat in between, and two slices.  The first    *)
(* two packets end with a '$': a cut before it is not clean.               *)
MixedStream ==
  <<Packet(VideoChannel, Slice, Dollar), Packet(VideoChannel, Sps, Dollar),
    Packet(VideoChannel, Start, 3), Packet(AudioChannel, 0, 4),
    Packet(VideoChannel, Middle, 3), Packet(VideoChannel + 1, 0, 5),
    Text, Packet(VideoChannel, End, 3), Packet(VideoChannel, Slice, 6),
    Packet(VideoChannel, Slice, 7)>>

(* It is what StreamIsWhole takes a stream to be. *)
ASSUME StreamAssumption == FragmentsTogether
=============================================================================
