-------------------------------- MODULE Muxer --------------------------------
(***************************************************************************)
(* The MP4 muxer, Media/MediaMuxer/MediaMuxer.cpp: two streams, the list   *)
(* of parameter sets, and the time stamps it gives to packets.             *)
(*                                                                         *)
(* A NAL unit is its kind and, for a parameter set, which one it is.  The  *)
(* bytes, the extradata layout and libavformat are not represented; what   *)
(* libavformat is called for is: streams, header, packets, trailer.        *)
(* SendPacket holds mtx_ from beginning to end and is one step.            *)
(***************************************************************************)
EXTENDS Integers, Sequences, FiniteSets

CONSTANTS
  VideoType,  \* video_type_, "H264" or "H265"
  SetIds,     \* the distinct parameter sets of each kind
  Stamps      \* the time stamps packets come with

ASSUME MuxerAssumption ==
  /\ VideoType \in {"H264", "H265"}
  /\ Stamps \subseteq [{"pts", "dts"} -> Int]

Streams == {"video", "audio"}
Clocks == {"pts", "dts"}
SetKinds == {"vps", "sps", "pps"}

VARIABLES
  index,      \* video_index_ and audio_index_, -1 while there is no such stream
  opened,     \* the output file is open
  header,     \* SendHeader has been called
  trailer,    \* SendTrailer has been called
  sets,       \* the parameter sets stored in vps_buf_, sps_buf_ and pps_buf_
  foundIdr,   \* found_idr_
  frames,     \* frames_video_ and frames_audio_
  start,      \* start_pts_video_, start_dts_video_ and the same for audio
  last,       \* last_pts_video_, last_dts_video_ and the same for audio
  startMedia, \* start_media_pts_
  findFirst,  \* find_first_frame_
  written     \* history: packets handed to libavformat, and whether it wrote them

fileVars == <<index, opened, header, trailer>>
clockVars == <<frames, start, last, startMedia, findFirst, written>>
muxerVars == <<fileVars, sets, foundIdr, clockVars>>

ZeroStamp == [c \in Clocks |-> 0]

Init ==
  /\ index = [s \in Streams |-> -1]
  /\ opened = FALSE /\ header = FALSE /\ trailer = FALSE
  /\ sets = [k \in SetKinds |-> {}]
  /\ foundIdr = FALSE
  /\ frames = [s \in Streams |-> 0]
  /\ start = [s \in Streams |-> ZeroStamp]
  /\ last = [s \in Streams |-> ZeroStamp]
  /\ startMedia = 0 /\ findFirst = FALSE
  /\ written = [s \in Streams |-> <<>>]

-----------------------------------------------------------------------------
(* What the caller does before it sends packets.                           *)

(* The index avformat_new_stream gives.  Variant: counted from one.        *)
IndexFromOne == 1 + Cardinality({s \in Streams : index[s] # -1})
NextIndex == Cardinality({s \in Streams : index[s] # -1})

(* AddVideo with the parameter sets the caller has collected. *)
AddVideo(vps, sps, pps) ==
  /\ index' = [index EXCEPT !["video"] = NextIndex]
  /\ sets' = [sets EXCEPT !["sps"] = {sps}, !["pps"] = {pps},
                          !["vps"] = IF VideoType = "H265" THEN {vps} ELSE @]
  /\ UNCHANGED <<opened, header, trailer, foundIdr, clockVars>>

AddAudio ==
  /\ index' = [index EXCEPT !["audio"] = NextIndex]
  /\ UNCHANGED <<opened, header, trailer, sets, foundIdr, clockVars>>

Open ==
  /\ opened' = TRUE
  /\ UNCHANGED <<index, header, trailer, sets, foundIdr, clockVars>>

SendHeader ==
  /\ header' = TRUE
  /\ UNCHANGED <<index, opened, trailer, sets, foundIdr, clockVars>>

SendTrailer ==
  /\ trailer' = TRUE
  /\ UNCHANGED <<index, opened, header, sets, foundIdr, clockVars>>

-----------------------------------------------------------------------------
(* SendPacket.                                                             *)

Nal(kind, id) == [kind |-> kind, id |-> id]

(* NAL units that let the stream begin, and those that are not written     *)
(* because their contents are in the header.                               *)
Begins(kind) == IF VideoType = "H264" THEN kind \in {"sps", "idr"}
                                      ELSE kind \in {"vps", "idr"}
InHeader(kind) == IF VideoType = "H264" THEN kind \in {"sps", "pps", "sei"}
                                        ELSE kind \in SetKinds

(* The stamp of a packet on one clock: the time since the stream's first   *)
(* packet, moved behind the stream's last stamp, plus the offset of the    *)
(* packet that was first of all.  Variants: the stamp is moved only when   *)
(* it is less than the last; it is moved twice as far; the offset is       *)
(* forgotten for the dts.                                                  *)
Due(s, t, c) == IF frames[s] = 0 THEN 0 ELSE t[c] - start[s][c]
BehindOnly(s, t, c) == IF last[s][c] > Due(s, t, c) THEN last[s][c] + 1 ELSE Due(s, t, c)
BehindTwice(s, t, c) == IF last[s][c] >= Due(s, t, c) THEN last[s][c] + 2 ELSE Due(s, t, c)
Behind(s, t, c) == IF last[s][c] >= Due(s, t, c) THEN last[s][c] + 1 ELSE Due(s, t, c)
Stamp(s, t, c) == Behind(s, t, c) + (IF findFirst THEN startMedia ELSE 0)

(* The packet is stamped and written; a failed write leaves it out of the  *)
(* file but keeps its effect on the stamps.                                *)
Write(s, t) ==
  LET stamp == [c \in Clocks |-> Stamp(s, t, c)]
      due == [c \in Clocks |-> Due(s, t, c)]
  IN  /\ start' = IF frames[s] = 0 THEN [start EXCEPT ![s] = t] ELSE start
      /\ frames' = [frames EXCEPT ![s] = @ + 1]
      /\ last' = [last EXCEPT ![s] = stamp]
      /\ startMedia' = IF findFirst THEN startMedia ELSE stamp["pts"]
      /\ findFirst' = TRUE
      /\ \E ok \in BOOLEAN :
           written' = [written EXCEPT ![s] = Append(@, [stamp |-> stamp, due |-> due, ok |-> ok])]

(* A video NAL unit.  A new parameter set is stored and the header's       *)
(* extradata made anew.                                                    *)
SendVideo(nal, t) ==
  /\ foundIdr' = (foundIdr \/ Begins(nal.kind))
  /\ IF InHeader(nal.kind)
     THEN /\ sets' = IF nal.kind = "sei" THEN sets
                     ELSE [sets EXCEPT ![nal.kind] = @ \cup {nal.id}]
          /\ UNCHANGED clockVars
     ELSE /\ sets' = sets
          /\ IF foundIdr' THEN Write("video", t) ELSE UNCHANGED clockVars
  /\ UNCHANGED fileVars

SendAudio(t) ==
  /\ Write("audio", t)
  /\ UNCHANGED <<fileVars, sets, foundIdr>>

-----------------------------------------------------------------------------
(* A caller that keeps to the order in the comment of MediaMuxer.h.        *)

Kinds == {"sps", "pps", "idr", "slice"} \cup (IF VideoType = "H265" THEN {"vps"} ELSE {"sei"})
Nals == {Nal(k, i) : k \in Kinds \cap SetKinds, i \in SetIds}
        \cup {Nal(k, 0) : k \in Kinds \ SetKinds}

UseAddVideo ==
  /\ index["video"] = -1 /\ ~opened
  /\ \E v, s, p \in SetIds : AddVideo(v, s, p)

UseAddAudio == index["audio"] = -1 /\ ~opened /\ AddAudio
UseOpen == index["video"] # -1 /\ ~opened /\ Open
UseSendHeader == opened /\ ~header /\ SendHeader

UseSendVideo ==
  /\ header /\ ~trailer
  /\ \E nal \in Nals, t \in Stamps : SendVideo(nal, t)

UseSendAudio ==
  /\ header /\ ~trailer /\ index["audio"] # -1
  /\ \E t \in Stamps : SendAudio(t)

UseSendTrailer == header /\ ~trailer /\ SendTrailer

Next == UseAddVideo \/ UseAddAudio \/ UseOpen \/ UseSendHeader
        \/ UseSendVideo \/ UseSendAudio \/ UseSendTrailer

Spec == Init /\ [][Next]_muxerVars

-----------------------------------------------------------------------------
(* Properties.                                                             *)

Packet == [stamp : [Clocks -> Int], due : [Clocks -> Int], ok : BOOLEAN]

(* The type of every variable of the muxer. *)
TypeOK ==
  /\ index \in [Streams -> {-1, 0, 1}]
  /\ opened \in BOOLEAN /\ header \in BOOLEAN /\ trailer \in BOOLEAN
  /\ sets \in [SetKinds -> SUBSET SetIds]
  /\ foundIdr \in BOOLEAN /\ findFirst \in BOOLEAN
  /\ frames \in [Streams -> Nat]
  /\ start \in [Streams -> [Clocks -> Int]]
  /\ last \in [Streams -> [Clocks -> Int]]
  /\ startMedia \in Int
  /\ written \in [Streams -> Seq(Packet)]

(* Each stream's stamps increase strictly on both clocks, as MP4 requires, *)
(* whatever stamps the packets came with: equal ones (the NAL units of one *)
(* picture), decreasing ones, and packets whose write failed in between.   *)
StampsIncrease ==
  \A s \in Streams : \A i, j \in DOMAIN written[s] : i < j =>
    \A c \in Clocks : written[s][i].stamp[c] < written[s][j].stamp[c]

(* Correcting stamps does not run away from the clock: a packet is never   *)
(* stamped before its time, and ahead of the latest time seen by at most   *)
(* two units for every packet sent, one for the correction and one for the *)
(* offset.                                                                 *)
Lead(s, n, c) ==
  LET p == written[s][n]
  IN  \E m \in 1..n : p.stamp[c] <= written[s][m].due[c] + 2 * n

StampsFollowClock ==
  \A s \in Streams : \A n \in DOMAIN written[s] : \A c \in Clocks :
    written[s][n].due[c] <= written[s][n].stamp[c] /\ Lead(s, n, c)

(* The offset that is added to every later stamp is one unit: the start of *)
(* the second stream is moved next to that of the first, not kept at the   *)
(* time it really began.                                                   *)
OffsetIsOne == findFirst => startMedia = 1
=============================================================================
