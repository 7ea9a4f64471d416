----------------------------- MODULE OutputFile -----------------------------
(***************************************************************************)
(* The MP4 file as Warpper/MediaWrapper.cpp writes it when it is built     *)
(* with MP4MUXER: four threads around one Muxer.                           *)
(*                                                                         *)
(* The encode thread of the video encoder calls OnVideoEncData, which      *)
(* splits each packet into NAL units, collects parameter sets, and, once   *)
(* it has them, sets the muxer up and sends it every unit.  The scale      *)
(* thread of the AAC decoder makes the AAC encoder, whose encode thread    *)
(* calls OnAudioEncData.  The owner destroys the components one by one and *)
(* ends the file.  The pointers and stream numbers they share are plain    *)
(* members, without a lock.                                                *)
(*                                                                         *)
(* A dereference of a null or deleted pointer is the fault it would be:    *)
(* the process ends there.  The encoder always makes H264.                 *)
(***************************************************************************)
EXTENDS Muxer

CONSTANTS
  VideoPackets, \* what the video encoder makes: sequences of NAL units
  AudioPackets, \* how many packets the AAC encoder may make
  Gaps,         \* the times that may pass between two packets, in milliseconds
  TimeBase,     \* the ticks of each stream in a second
  Rtsp,         \* rtsp_flag_: the input is a stream, not a file
  HaveAudio     \* the input has an audio stream

(* NAL units as the encoder makes them, always H264. *)
H264Nals == {Nal(k, i) : k \in {"sps", "pps"}, i \in SetIds}
            \cup {Nal(k, 0) : k \in {"idr", "slice", "sei"}}

ASSUME OutputAssumption ==
  /\ VideoPackets \in Seq(Seq(H264Nals) \ {<<>>})
  /\ 1 \in SetIds /\ 0 \notin SetIds
  /\ AudioPackets \in Nat /\ Gaps \subseteq Nat
  /\ TimeBase \in [Streams -> Nat \ {0}]
  /\ Rtsp \in BOOLEAN /\ HaveAudio \in BOOLEAN

VARIABLES
  vnext,       \* the packet OnVideoEncData is called with next
  vnal,        \* the NAL unit of it that is being handled
  vpc,         \* where the video encode thread is
  clock,       \* time_ts_accum_ and time_ts_accum_1_
  got,         \* sps_, pps_ and vps_ as collected, 0 when not yet
  videoStream, \* video_stream_ # -1
  audioStream, \* audio_stream_ # -1
  source,      \* reader_ or rtsp_client_proxy_ still exists
  aac,         \* aac_encoder_: "none", "made", "ready", "deleted"
  asent,       \* audio packets made so far
  untimely,    \* history: a picture was handled before the AAC encoder was ready
               \* or while or after the input was deleted
  opc,         \* where the owner is
  fault        \* the null pointer a thread went through, "none" if none

wrapperVars == <<vnext, vnal, vpc, clock, got, videoStream, audioStream, source, aac,
                 asent, untimely, opc, fault>>
vars == <<muxerVars, wrapperVars>>

OutputInit ==
  /\ Init
  /\ vnext = 1 /\ vnal = 0 /\ vpc = "idle" /\ clock = [s \in Streams |-> 0]
  /\ got = [k \in SetKinds |-> 0]
  /\ videoStream = FALSE /\ audioStream = FALSE
  /\ source = TRUE /\ aac = "none" /\ asent = 0 /\ untimely = FALSE
  /\ opc = "run" /\ fault = "none"

(* The wrapper looks at NAL units with the type of its input.  Seen as     *)
(* H265, a slice of the H264 encoder may pass for a VPS, the other units   *)
(* are none that it knows.                                                 *)
Seen(nal) ==
  IF VideoType = "H264" THEN nal
  ELSE IF nal.kind = "slice" THEN Nal("vps", 1) ELSE Nal("other", 0)

This == Seen(VideoPackets[vnext][vnal])

(* extra_ready_: sticky, since nothing is collected once it holds.         *)
(* Variant: an SPS alone is enough.                                        *)
SpsOnly(g) == g["sps"] # 0
ExtraReady(g) == g["sps"] # 0 /\ g["pps"] # 0

-----------------------------------------------------------------------------
(* WriteVideo2File, on the video encode thread.                            *)

(* The stamp of a packet: the time since the first one of its stream, on   *)
(* a clock that counts whole milliseconds, rescaled and rounded to ticks   *)
(* of the stream.  NAL units of a packet share it.                         *)
At(s, n) == [c \in Clocks |-> (n * TimeBase[s] + 500) \div 1000]
Tick(s, first) == \E d \in Gaps : clock' = [clock EXCEPT ![s] = IF first THEN 0 ELSE @ + d]

VideoPacket ==
  /\ vpc = "idle" /\ vnext <= Len(VideoPackets)
  /\ opc \in {"run", "videoEnd"}
  /\ vnal' = 1
  /\ Tick("video", vnext = 1)
  /\ vpc' = "collect"
  /\ untimely' = (untimely \/ ~source \/ (HaveAudio /\ aac # "ready"))
  /\ UNCHANGED <<muxerVars, vnext, got, videoStream, audioStream, source, aac,
                 asent, opc, fault>>

(* On to the next NAL unit of the packet, or back to the encoder.          *)
(* Variant: only the first unit of a packet is handled.                    *)
NextPacket == vnal' = 0 /\ vpc' = "idle" /\ vnext' = vnext + 1
NextNal ==
  IF vnal < Len(VideoPackets[vnext])
  THEN vnal' = vnal + 1 /\ vpc' = "collect" /\ vnext' = vnext
  ELSE NextPacket

(* Keep parameter sets until there are an SPS and a PPS. *)
Collect ==
  /\ vpc = "collect"
  /\ got' = IF ~ExtraReady(got) /\ This.kind \in SetKinds
            THEN [got EXCEPT ![This.kind] = This.id] ELSE got
  /\ IF ExtraReady(got') THEN vpc' = "addVideo" /\ UNCHANGED <<vnal, vnext>>
                         ELSE NextNal
  /\ UNCHANGED <<clock, muxerVars, videoStream, audioStream, source, aac, asent,
                 untimely, opc, fault>>

AddVideoStream ==
  /\ vpc = "addVideo"
  /\ IF videoStream THEN UNCHANGED muxerVars
                    ELSE AddVideo(got["vps"], got["sps"], got["pps"])
  /\ vpc' = "askAudio"
  /\ UNCHANGED <<clock, vnext, vnal, got, videoStream, audioStream, source, aac, asent,
                 untimely, opc, fault>>

(* Ask the input whether there is audio: with RTSP input and no audio the  *)
(* question goes on to reader_, which is null.                             *)
AskedNull == ~source \/ (Rtsp /\ ~HaveAudio)

(* The audio stream is still to be added.  Variant: the test is inverted.  *)
AudioAdded == HaveAudio /\ audioStream
AudioMissing == HaveAudio /\ ~audioStream

AskAudio ==
  /\ vpc = "askAudio"
  /\ IF AskedNull
     THEN fault' = "input" /\ vpc' = "fault"
     ELSE fault' = fault /\ vpc' = IF AudioMissing THEN "addAudio" ELSE "open"
  /\ UNCHANGED <<clock, muxerVars, vnext, vnal, got, videoStream, audioStream, source,
                 aac, asent, untimely, opc>>

(* Ask the AAC encoder for its parameters: it must have been initialised. *)
AddAudioStream ==
  /\ vpc = "addAudio"
  /\ IF aac = "ready"
     THEN AddAudio /\ vpc' = "open" /\ fault' = fault
     ELSE fault' = "aacEncoder" /\ vpc' = "fault" /\ UNCHANGED muxerVars
  /\ UNCHANGED <<clock, vnext, vnal, got, videoStream, audioStream, source, aac, asent,
                 untimely, opc>>

(* The first time, open the file. *)
OpenFile ==
  /\ vpc = "open"
  /\ IF videoStream THEN vpc' = "send" /\ UNCHANGED muxerVars
                    ELSE vpc' = "header" /\ Open
  /\ UNCHANGED <<clock, vnext, vnal, got, videoStream, audioStream, source, aac, asent,
                 untimely, opc, fault>>

(* Write the header; only then tell the audio thread of its stream.        *)
WriteHeader ==
  /\ vpc = "header"
  /\ SendHeader
  /\ vpc' = "streams"
  /\ UNCHANGED <<clock, vnext, vnal, got, videoStream, audioStream, source, aac, asent,
                 untimely, opc, fault>>

SetStreams ==
  /\ vpc = "streams"
  /\ audioStream' = (index["audio"] # -1)
  /\ videoStream' = (index["video"] # -1)
  /\ vpc' = "send"
  /\ UNCHANGED <<clock, muxerVars, vnext, vnal, got, source, aac, asent, untimely, opc, fault>>

SendNal ==
  /\ vpc = "send"
  /\ SendVideo(This, At("video", clock["video"]))
  /\ NextNal
  /\ UNCHANGED <<clock, got, videoStream, audioStream, source, aac, asent, untimely, opc, fault>>

Video == VideoPacket \/ Collect \/ AddVideoStream \/ AskAudio \/ AddAudioStream
         \/ OpenFile \/ WriteHeader \/ SetStreams \/ SendNal

-----------------------------------------------------------------------------
(* The audio threads.                                                      *)

(* OnPCMData stores the pointer, then initialises what it points to. *)
MakeAac ==
  /\ HaveAudio /\ aac = "none" /\ opc \in {"run", "videoEnd", "aacDecoderEnd"}
  /\ aac' = "made"
  /\ UNCHANGED <<clock, muxerVars, vnext, vnal, vpc, got, videoStream, audioStream, source,
                 asent, untimely, opc, fault>>

InitAac ==
  /\ aac = "made"
  /\ aac' = "ready"
  /\ UNCHANGED <<clock, muxerVars, vnext, vnal, vpc, got, videoStream, audioStream, source,
                 asent, untimely, opc, fault>>

(* OnAudioEncData: nothing is written until the audio stream is set. *)
AudioPacket ==
  /\ aac = "ready" /\ asent < AudioPackets
  /\ asent' = asent + 1
  /\ IF audioStream
     THEN Tick("audio", frames["audio"] = 0) /\ SendAudio(At("audio", clock'["audio"]))
     ELSE UNCHANGED <<muxerVars, clock>>
  /\ UNCHANGED <<vnext, vnal, vpc, got, videoStream, audioStream, source, aac,
                 untimely, opc, fault>>

Audio == MakeAac \/ InitAac \/ AudioPacket

-----------------------------------------------------------------------------
(* The owner: the destructor of the wrapper.  Deleting a component waits   *)
(* for its threads, which may still make packets until then.               *)

Goto(from, to) == opc = from /\ opc' = to

(* The reader calls back only for a file. *)
DeleteSource ==
  /\ ~Rtsp
  /\ Goto("run", "videoEnd")
  /\ source' = FALSE
  /\ untimely' = (untimely \/ vpc # "idle")
  /\ UNCHANGED <<clock, muxerVars, vnext, vnal, vpc, got, videoStream, audioStream,
                 aac, asent, fault>>

DeleteVideo ==
  /\ vpc = "idle"
  /\ Goto("videoEnd", "aacDecoderEnd")
  /\ UNCHANGED <<clock, muxerVars, vnext, vnal, vpc, got, videoStream, audioStream, source,
                 aac, asent, untimely, fault>>

DeleteAacDecoder ==
  /\ aac # "made"
  /\ Goto("aacDecoderEnd", "aacEncoderEnd")
  /\ UNCHANGED <<clock, muxerVars, vnext, vnal, vpc, got, videoStream, audioStream, source,
                 aac, asent, untimely, fault>>

(* Variant: the AAC encoder is deleted after the muxer. *)
KeepAacEncoder ==
  /\ Goto("aacEncoderEnd", "muxerEnd")
  /\ UNCHANGED <<clock, muxerVars, vnext, vnal, vpc, got, videoStream, audioStream, source,
                 aac, asent, untimely, fault>>

DeleteAacEncoder ==
  /\ Goto("aacEncoderEnd", "muxerEnd")
  /\ aac' = "deleted"
  /\ UNCHANGED <<clock, muxerVars, vnext, vnal, vpc, got, videoStream, audioStream, source,
                 asent, untimely, fault>>

(* Variant: the trailer is left out. *)
EndUntrailed ==
  /\ Goto("muxerEnd", "dead")
  /\ UNCHANGED <<clock, muxerVars, vnext, vnal, vpc, got, videoStream, audioStream, source,
                 aac, asent, untimely, fault>>

EndFile ==
  /\ Goto("muxerEnd", "dead")
  /\ SendTrailer
  /\ UNCHANGED <<clock, vnext, vnal, vpc, got, videoStream, audioStream, source, aac,
                 asent, untimely, fault>>

Teardown == DeleteVideo \/ DeleteAacDecoder \/ DeleteAacEncoder \/ EndFile

-----------------------------------------------------------------------------
(* A fault ends the process. *)
OutputNext == fault = "none" /\ (Video \/ Audio \/ DeleteSource \/ Teardown)

(* Every thread runs; the reader comes to the end of its file. *)
SafeSpec == OutputInit /\ [][OutputNext]_vars
OutputSpec ==
  /\ SafeSpec
  /\ WF_vars(OutputNext /\ Video) /\ WF_vars(OutputNext /\ (MakeAac \/ InitAac))
  /\ WF_vars(OutputNext /\ (DeleteSource \/ Teardown))

-----------------------------------------------------------------------------
(* Properties.                                                             *)

(* The type of every variable of the wrapper and its muxer. *)
OutputTypeOK ==
  /\ TypeOK
  /\ vnext \in 1..(Len(VideoPackets) + 1) /\ vnal \in Nat /\ clock \in [Streams -> Nat]
  /\ vpc \in {"idle", "collect", "addVideo", "askAudio", "addAudio", "open", "header",
              "streams", "send", "fault"}
  /\ got \in [SetKinds -> SetIds \cup {0}]
  /\ videoStream \in BOOLEAN /\ audioStream \in BOOLEAN /\ source \in BOOLEAN
  /\ aac \in {"none", "made", "ready", "deleted"}
  /\ asent \in 0..AudioPackets /\ untimely \in BOOLEAN
  /\ opc \in {"run", "videoEnd", "aacDecoderEnd", "aacEncoderEnd", "muxerEnd", "dead"}
  /\ fault \in {"none", "input", "aacEncoder"}

Sent(s) == Len(written[s])

(* The wrapper is a caller as Muxer's specification assumes: two threads   *)
(* that send packets without telling each other, and the owner, keep to    *)
(* the order the comment of MediaMuxer.h asks for.  Each stream is added   *)
(* once and before the file is opened, and packets are sent after the      *)
(* header and before the trailer, which comes once.  Only the trailer may  *)
(* come without a header.                                                  *)
MuxerUsedInOrder == Init /\ [][Next \/ (~header /\ SendTrailer)]_muxerVars

(* The last step of the same order: a trailer ends a file that was begun,  *)
(* when there was a picture for it.                                        *)
TrailerAfterHeader == trailer /\ vnext > 1 => header

(* When the input has audio, the header says so: the audio stream is never *)
(* left out because video was faster.                                      *)
HeaderComplete == header => (HaveAudio <=> index["audio"] # -1)

(* Every picture that came after the first parameter sets is in the file   *)
(* when it ends: one sent packet for every unit that is not in the header. *)
(* When the input has audio the header says so.                            *)
Units == UNION {{n} \X DOMAIN VideoPackets[n] : n \in DOMAIN VideoPackets}
KindOf(u) == VideoPackets[u[1]][u[2]].kind
Earlier(u, v) == u[1] < v[1] \/ (u[1] = v[1] /\ u[2] < v[2])
PicturesBefore(v) == {u \in Units : ~InHeader(KindOf(u)) /\ Earlier(u, v)}
EveryPictureSent ==
  opc = "dead" => Sent("video") = Cardinality(PicturesBefore(<<vnext, 1>>))
FileComplete == OutputTypeOK /\ HeaderComplete /\ EveryPictureSent

(* The file is ended, unless a thread goes through a null pointer; and     *)
(* that takes a picture handled before the AAC encoder was ready or while  *)
(* or after the input was deleted.                                         *)
FileEnds == <>(trailer \/ (untimely /\ fault # "none"))
=============================================================================
