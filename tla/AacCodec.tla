------------------------------ MODULE AacCodec -------------------------------
(***************************************************************************)
(* The audio path: HardCodec/Decoder/AACDecoder.cpp, the callback          *)
(* OnPCMData of Warpper/MediaWrapper.cpp, and                              *)
(* HardCodec/Encoder/AACEncoder.cpp, each with two threads of its own.     *)
(*                                                                         *)
(* The decode thread decodes packets to frames, the scale thread resamples *)
(* each frame to 44100 Hz and calls OnPCMData, which makes the encoder the *)
(* first time and gives it the block of samples.  The encoder's scale      *)
(* thread makes a frame of a block, its encode thread a packet of a frame. *)
(* No list has a limit.                                                    *)
(*                                                                         *)
(* A packet and all that is made of it is one number; of the samples only  *)
(* the counts are kept.  The codecs and the resampler are external: the    *)
(* codecs keep packets back and may refuse what is damaged or of the wrong *)
(* length, the resampler keeps what does not fit into the output.  That a  *)
(* codec fails where it is asked for what it has made is left out: the     *)
(* code takes it for "no more" (AACDecoder.cpp:103, AACEncoder.cpp:217 and *)
(* 245), and the samples would stay in the codec or be lost with it.       *)
(***************************************************************************)
EXTENDS Integers, Sequences, FiniteSets, SequencesExt

CONSTANTS
  Streams,   \* the audio streams: lengths of their frames, and the two rates
  Damaged,   \* packets avcodec_send_packet may fail for
  DecDelay, EncDelay, \* what the codecs keep back until they are flushed
  LcLen, HeLen        \* samples of an AAC LC and an HE-AAC frame (1024, 2048)

(* A frame of any length gives at least one sample at the output's rate.   *)
ASSUME AacAssumption ==
  /\ Streams \subseteq [lens : Seq(Nat \ {0}), num : Nat \ {0}, den : Nat \ {0}]
  /\ \A s \in Streams : \A i \in DOMAIN s.lens : s.lens[i] * s.num >= s.den
  /\ DecDelay \in Nat /\ EncDelay \in Nat /\ LcLen \in Nat /\ HeLen \in Nat

VARIABLES
  stream,   \* the stream that is played
  added,    \* packets put into the decoder
  es,       \* es_packets_ of the decoder
  decoding, \* the packet its decode thread has popped (0: none)
  decCodec, \* packets in the decoder's codec
  draining, \* it has been sent the empty packet
  received, \* the frame received and not yet queued (0: none)
  srcNb,    \* src_nb_samples_ of the decoder
  yuv,      \* yuv_frames_
  scaling,  \* the frame its scale thread has popped (0: none)
  dstNb,    \* dst_nb_samples_; 0 until there is a resampler
  kept,     \* samples in the resampler, in units of 1/num
  decAbort, \* aborted_
  made,     \* aac_encoder_ exists
  encSrcNb, \* src_nb_samples_ of the encoder
  pcm,      \* pcm_frames_, blocks with their lengths
  packing,  \* the block its scale thread has popped (0: none)
  frames,   \* dec_frames_
  encoding, \* the frame the encode thread has popped (0: none)
  encCodec, \* frames in the encoder's codec
  packets,  \* history: packets given to the listener
  accepted, \* history: how many frames the encoder's codec has taken
  spoilt,   \* history: blocks not read as long as they are
  encAbort, \* abort_
  decPc, scalePc, packPc, encPc, opc \* where the threads and the owner are

decVars == <<es, decoding, decCodec, draining, received, srcNb, decPc>>
scaleVars == <<scaling, dstNb, kept, scalePc>>
packVars == <<packing, spoilt, packPc>>
encVars == <<encoding, encCodec, packets, accepted, encPc>>
ownVars == <<stream, added, decAbort, encAbort, opc>>
vars == <<decVars, yuv, scaleVars, made, encSrcNb, pcm, packVars, frames, encVars, ownVars>>

NumPackets == Len(stream.lens)

Init ==
  /\ stream \in Streams
  /\ added = 0 /\ es = <<>> /\ decoding = 0 /\ decCodec = <<>> /\ draining = FALSE
  /\ received = 0 /\ srcNb = 0 /\ yuv = <<>>
  /\ scaling = 0 /\ dstNb = 0 /\ kept = 0
  /\ made = FALSE /\ encSrcNb = 0 /\ pcm = <<>> /\ packing = 0 /\ frames = <<>> /\ spoilt = {}
  /\ encoding = 0 /\ encCodec = <<>> /\ packets = <<>> /\ accepted = 0
  /\ decAbort = FALSE /\ encAbort = FALSE
  /\ decPc = "top" /\ scalePc = "top" /\ packPc = "none" /\ encPc = "none" /\ opc = "open"

(* push_back.  Variants: at the front; dropped when the list is long. *)
PushFirst(q, x) == <<x>> \o q
PushUnlessLong(q, x) == IF Len(q) > 0 THEN q ELSE Append(q, x)
Push(q, x) == Append(q, x)

-----------------------------------------------------------------------------
(* The decode thread of the decoder.                                       *)

DecStep(from, to) ==
  /\ decPc = from /\ decPc' = to
  /\ UNCHANGED <<scaleVars, made, encSrcNb, pcm, packVars, frames, encVars, ownVars>>

(* The loop ends on aborted_; what the codec has kept is flushed. *)
DecTop ==
  /\ DecStep("top", IF decAbort THEN "receive" ELSE "enter")
  /\ draining' = decAbort
  /\ UNCHANGED <<es, decoding, decCodec, received, srcNb, yuv>>

DecIdle ==
  /\ es = <<>> /\ DecStep("enter", "top")
  /\ UNCHANGED <<es, decoding, decCodec, draining, received, srcNb, yuv>>

DecPop ==
  /\ es # <<>> /\ DecStep("enter", "send")
  /\ decoding' = Head(es) /\ es' = Tail(es)
  /\ UNCHANGED <<decCodec, draining, received, srcNb, yuv>>

DecSend ==
  /\ DecStep("send", "receive")
  /\ decCodec' = Append(decCodec, decoding) /\ decoding' = 0
  /\ UNCHANGED <<es, draining, received, srcNb, yuv>>

DecRefused ==
  /\ decoding \in Damaged /\ DecStep("send", "top")
  /\ decoding' = 0
  /\ UNCHANGED <<es, decCodec, draining, received, srcNb, yuv>>

(* A frame: its length is written to a member that the scale thread reads. *)
DecGives == Len(decCodec) > (IF draining THEN 0 ELSE DecDelay)

DecReceive ==
  /\ DecGives /\ DecStep("receive", "push")
  /\ received' = Head(decCodec) /\ decCodec' = Tail(decCodec)
  /\ srcNb' = stream.lens[Head(decCodec)]
  /\ UNCHANGED <<es, decoding, draining, yuv>>

DecPush ==
  /\ DecStep("push", "receive")
  /\ yuv' = Push(yuv, received) /\ received' = 0
  /\ UNCHANGED <<es, decoding, decCodec, draining, srcNb>>

DecAgain ==
  /\ ~DecGives /\ DecStep("receive", IF draining THEN "done" ELSE "top")
  /\ UNCHANGED <<es, decoding, decCodec, draining, received, srcNb, yuv>>

Dec == DecTop \/ DecIdle \/ DecPop \/ DecSend \/ DecRefused \/ DecReceive \/ DecPush
       \/ DecAgain

-----------------------------------------------------------------------------
(* The scale thread of the decoder.                                        *)

ScaleStep(from, to) ==
  /\ scalePc = from /\ scalePc' = to
  /\ UNCHANGED <<decVars, packing, spoilt, frames, encoding, encCodec, packets, accepted, ownVars>>

ScaleTop ==
  /\ ScaleStep("top", IF decAbort THEN "done" ELSE "enter")
  /\ UNCHANGED <<yuv, scaling, dstNb, kept, made, encSrcNb, pcm, packPc, encPc>>

ScaleIdle ==
  /\ yuv = <<>> /\ ScaleStep("enter", "top")
  /\ UNCHANGED <<yuv, scaling, dstNb, kept, made, encSrcNb, pcm, packPc, encPc>>

ScalePop ==
  /\ yuv # <<>> /\ ScaleStep("enter", IF dstNb = 0 THEN "make" ELSE "grow")
  /\ scaling' = Head(yuv) /\ yuv' = Tail(yuv)
  /\ UNCHANGED <<dstNb, kept, made, encSrcNb, pcm, packPc, encPc>>

(* av_rescale_rnd, AV_ROUND_UP: samples at the output rate. *)
Rescale(n) == (n * stream.num + stream.den - 1) \div stream.den

(* The resampler is made with the members of the frame received last. *)
ScaleMake ==
  /\ ScaleStep("make", "grow")
  /\ dstNb' = Rescale(srcNb)
  /\ UNCHANGED <<yuv, scaling, kept, made, encSrcNb, pcm, packPc, encPc>>

(* The room for the output grows when what the resampler keeps and another *)
(* frame may need more.  Variant: what it keeps is not counted.            *)
DelayNotCounted == srcNb
Expected == (kept \div stream.num) + srcNb

ScaleGrow ==
  /\ ScaleStep("grow", "convert")
  /\ dstNb' = IF Rescale(Expected) > dstNb THEN Rescale(Expected) ELSE dstNb
  /\ UNCHANGED <<yuv, scaling, kept, made, encSrcNb, pcm, packPc, encPc>>

(* swr_convert: the samples it has, as many as fit.                        *)
Available == (kept + stream.lens[scaling] * stream.num) \div stream.den
Converted == IF Available > dstNb THEN dstNb ELSE Available

(* Convert and call OnPCMData, which makes the encoder for the length of   *)
(* the first block; AddPCMFrame copies the block.                          *)
MakeEncoder ==
  /\ made' = TRUE
  /\ encSrcNb' = IF made THEN encSrcNb ELSE Converted
  /\ packPc' = IF made THEN packPc ELSE "top"
  /\ encPc' = IF made THEN encPc ELSE "top"

ScaleConvert ==
  /\ scalePc = "convert" /\ scalePc' = "top"
  /\ kept' = kept + stream.lens[scaling] * stream.num - Converted * stream.den
  /\ scaling' = 0
  /\ MakeEncoder
  /\ pcm' = Push(pcm, [pic |-> scaling, len |-> Converted])
  /\ UNCHANGED <<decVars, yuv, dstNb, packing, spoilt, frames, encoding, encCodec, packets,
                 accepted, ownVars>>

Scale == ScaleTop \/ ScaleIdle \/ ScalePop \/ ScaleMake \/ ScaleGrow \/ ScaleConvert

-----------------------------------------------------------------------------
(* The scale thread of the encoder.                                        *)

PackStep(from, to) ==
  /\ packPc = from /\ packPc' = to
  /\ UNCHANGED <<decVars, yuv, scaleVars, made, encSrcNb, encVars, ownVars>>

PackTop ==
  /\ PackStep("top", IF encAbort THEN "done" ELSE "enter")
  /\ UNCHANGED <<pcm, packing, frames, spoilt>>

PackIdle ==
  /\ pcm = <<>> /\ PackStep("enter", "top")
  /\ UNCHANGED <<pcm, packing, frames, spoilt>>

(* However long a block is, as many samples are read from it, and as many  *)
(* make a frame, as the first block had; past its end, or not to its end.  *)
(* The rates are the same here, and the samples are only copied.           *)
ReadLength == encSrcNb

PackPop ==
  /\ pcm # <<>> /\ PackStep("enter", "push")
  /\ packing' = Head(pcm).pic /\ pcm' = Tail(pcm)
  /\ spoilt' = IF ReadLength = Head(pcm).len THEN spoilt ELSE spoilt \cup {packing'}
  /\ UNCHANGED frames

PackPush ==
  /\ PackStep("push", "top")
  /\ frames' = Push(frames, packing) /\ packing' = 0
  /\ UNCHANGED <<pcm, spoilt>>

Pack == PackTop \/ PackIdle \/ PackPop \/ PackPush

-----------------------------------------------------------------------------
(* The encode thread of the encoder.                                       *)

EncStep(from, to) ==
  /\ encPc = from /\ encPc' = to
  /\ UNCHANGED <<decVars, yuv, scaleVars, made, encSrcNb, pcm, packVars, ownVars>>

EncTop ==
  /\ EncStep("top", IF encAbort THEN "flush" ELSE "enter")
  /\ UNCHANGED <<frames, encoding, encCodec, packets, accepted>>

EncIdle ==
  /\ frames = <<>> /\ EncStep("enter", "top")
  /\ UNCHANGED <<frames, encoding, encCodec, packets, accepted>>

EncPop ==
  /\ frames # <<>> /\ EncStep("enter", "send")
  /\ encoding' = Head(frames) /\ frames' = Tail(frames)
  /\ UNCHANGED <<encCodec, packets, accepted>>

(* The codec is opened for one of two profiles, by the length of the first *)
(* block, and wants frames as long as the profile's.  Variant: always LC.  *)
LowProfile == LcLen
ProfileLength == IF encSrcNb = HeLen THEN HeLen ELSE LcLen

EncSend ==
  /\ EncStep("send", "receive")
  /\ encCodec' = Append(encCodec, encoding) /\ accepted' = accepted + 1
  /\ encoding' = 0
  /\ UNCHANGED <<frames, packets>>

EncRefused ==
  /\ encSrcNb # ProfileLength /\ EncStep("send", "top")
  /\ encoding' = 0
  /\ UNCHANGED <<frames, encCodec, packets, accepted>>

Deliver ==
  /\ packets' = Append(packets, Head(encCodec)) /\ encCodec' = Tail(encCodec)
  /\ UNCHANGED <<frames, encoding, accepted>>

EncReceive == Len(encCodec) > EncDelay /\ EncStep("receive", "receive") /\ Deliver

EncAgain ==
  /\ Len(encCodec) <= EncDelay /\ EncStep("receive", "top")
  /\ UNCHANGED <<frames, encoding, encCodec, packets, accepted>>

(* After the loop the codec is flushed.  Variant: it is not.               *)
EndAtOnce == TRUE
Flushed == encCodec = <<>>

EncFlush == encCodec # <<>> /\ EncStep("flush", "flush") /\ Deliver

EncEnd ==
  /\ Flushed /\ EncStep("flush", "done")
  /\ UNCHANGED <<frames, encoding, encCodec, packets, accepted>>

Enc == EncTop \/ EncIdle \/ EncPop \/ EncSend \/ EncRefused \/ EncReceive
       \/ EncAgain \/ EncFlush \/ EncEnd

-----------------------------------------------------------------------------
(* The owner, MiedaWrapper.                                                *)

OwnerStep(from, to) ==
  /\ opc = from /\ opc' = to
  /\ UNCHANGED <<stream, decoding, decCodec, draining, received, srcNb, decPc, scaleVars,
                 made, encSrcNb, packVars, encVars>>

(* OnAudioData: InputAACData.                                              *)
OnAudioData ==
  /\ added < NumPackets /\ OwnerStep("open", "open")
  /\ added' = added + 1 /\ es' = Push(es, added + 1)
  /\ UNCHANGED <<decAbort, encAbort, yuv, pcm, frames>>

(* The destructor deletes the decoder, then the encoder.                   *)
Destroy ==
  /\ OwnerStep("open", "joinDec")
  /\ decAbort' = TRUE
  /\ UNCHANGED <<added, encAbort, es, yuv, pcm, frames>>

JoinDec ==
  /\ decPc = "done" /\ OwnerStep("joinDec", "joinScale")
  /\ UNCHANGED <<added, decAbort, encAbort, es, yuv, pcm, frames>>

(* What is left on the lists is freed; ~AACEncoder if there is an encoder. *)
JoinScale ==
  /\ scalePc = "done" /\ OwnerStep("joinScale", IF made THEN "joinEnc" ELSE "dead")
  /\ es' = <<>> /\ yuv' = <<>> /\ encAbort' = made
  /\ UNCHANGED <<added, decAbort, pcm, frames>>

JoinEnc ==
  /\ encPc = "done" /\ OwnerStep("joinEnc", "joinPack")
  /\ UNCHANGED <<added, decAbort, encAbort, es, yuv, pcm, frames>>

JoinPack ==
  /\ packPc = "done" /\ OwnerStep("joinPack", "dead")
  /\ pcm' = <<>> /\ frames' = <<>>
  /\ UNCHANGED <<added, decAbort, encAbort, es, yuv>>

Teardown == JoinDec \/ JoinScale \/ JoinEnc \/ JoinPack
Owner == OnAudioData \/ Destroy \/ Teardown
Next == Dec \/ Scale \/ Pack \/ Enc \/ Owner

(* Every thread runs, and a destructor that has started waits for them.    *)
SafeSpec == Init /\ [][Next]_vars
Spec == SafeSpec /\ WF_vars(Dec) /\ WF_vars(Scale) /\ WF_vars(Pack) /\ WF_vars(Enc)
                 /\ WF_vars(Teardown)

-----------------------------------------------------------------------------
(* Properties.                                                             *)

No == 0..NumPackets
Lengths == ToSet(stream.lens)

(* The type of every variable. *)
TypeOK ==
  /\ added \in No /\ decoding \in No /\ received \in No /\ scaling \in No
  /\ packing \in No /\ encoding \in No /\ accepted \in No
  /\ es \in Seq(No) /\ decCodec \in Seq(No) /\ yuv \in Seq(No) /\ frames \in Seq(No)
  /\ encCodec \in Seq(No) /\ packets \in Seq(No) /\ pcm \in Seq([pic : No, len : Nat])
  /\ srcNb \in Nat /\ dstNb \in Nat /\ kept \in Nat /\ encSrcNb \in Nat
  /\ draining \in BOOLEAN /\ made \in BOOLEAN /\ decAbort \in BOOLEAN /\ encAbort \in BOOLEAN
  /\ spoilt \subseteq No

(* The resampler's room for output, computed from a length that belongs to *)
(* another frame when the decode thread is ahead, is never so small that   *)
(* the samples pile up: it never keeps more than one frame's.  Nothing is  *)
(* called before the encoder is there, and it is given no empty block.     *)
NoPileUp ==
  /\ kept = 0 \/ \E n \in Lengths : kept <= n * stream.num
  /\ \A i \in DOMAIN pcm : pcm[i].len > 0
  /\ (pcm # <<>> \/ packing # 0) => made /\ encSrcNb > 0

(* A stream of frames of one length that is a profile's, at the rate of    *)
(* the output, is encoded sample by sample: every block is read exactly,   *)
(* its frames are as long as the codec wants them, and when the encoder is *)
(* gone all frames its codec took have come out.                           *)
Uniform == /\ stream.num = stream.den
           /\ \E n \in {LcLen, HeLen} : Lengths = {n}
UniformStreamWhole ==
  /\ Uniform => /\ spoilt = {}
                /\ kept = 0
                /\ made => encSrcNb = ProfileLength
  /\ opc = "dead" => Len(packets) = accepted

(* Both together. *)
SamplesKept == TypeOK /\ NoPileUp /\ UniformStreamWhole

(* Every packet that is not damaged comes out again or waits in a codec,   *)
(* unless the wrapper is destroyed, which ends.                            *)
Progress ==
  /\ <>[](decAbort \/ /\ es = <<>> /\ yuv = <<>> /\ pcm = <<>> /\ frames = <<>>
                       /\ (Uniform => (1..added) \ Damaged
                             \subseteq ToSet(packets) \cup ToSet(encCodec) \cup ToSet(decCodec))
                       /\ Len(encCodec) <= EncDelay /\ Len(decCodec) <= DecDelay)
  /\ (opc = "joinDec") ~> (opc = "dead")

(* The audio path as a channel that may lose packets but not reorder them: *)
(* what is inside, from the encoder's codec back to the decoder's list.    *)
One(x) == IF x = 0 THEN <<>> ELSE <<x>>
InPcm == [i \in DOMAIN pcm |-> pcm[i].pic]
InDecoder == yuv \o (One(received) \o (decCodec \o (One(decoding) \o es)))
LF == INSTANCE LossyFifo WITH
        inside <- encCodec \o (One(encoding) \o (frames \o (One(packing)
                    \o (InPcm \o (One(scaling) \o InDecoder))))),
        out <- packets,
        sent <- added

AudioIsFifo == LF!Spec
=============================================================================
