---------------------------- MODULE VideoDecoder ----------------------------
(***************************************************************************)
(* The FFmpeg video decoder: HardCodec/Decoder/FFHardDecoder.cpp, and      *)
(* FFSoftDecoder.cpp, which lacks only the copy out of the GPU.            *)
(*                                                                         *)
(* The reader's video thread puts packets on es_packets_; the decode       *)
(* thread sends each to the codec and puts the frames that come out on     *)
(* yuv_frames_; the scale thread converts them and calls the listener.     *)
(* Neither list has a limit.  Both loops end on abort_; the decode thread  *)
(* then drains the codec, and the destructor frees what was left over.     *)
(*                                                                         *)
(* A packet and its frame are one number, in the order the codec gives     *)
(* them back.  The codec is external: it keeps Delay packets back until it *)
(* is drained, and may refuse a packet.                                    *)
(***************************************************************************)
EXTENDS Integers, FiniteSets, Sequences, SequencesExt

CONSTANTS
  MaxPackets, \* bound: how many packets the owner puts in
  Delay,      \* packets the codec keeps back
  Fails       \* whether the codec may refuse a packet, or a frame fail to be copied

ASSUME DecoderAssumption ==
  MaxPackets \in Nat /\ Delay \in Nat /\ Fails \in BOOLEAN

VARIABLES
  added,    \* packets put in so far
  es,       \* es_packets_
  nodes,    \* the packet nodes allocated and not deleted
  decoding, \* the packet the decode thread has popped (0: none)
  draining, \* whether the codec has been sent the empty packet
  codec,    \* packets the codec has accepted and not given back as frames
  failed,   \* history: packets refused and frames that could not be copied
  copying,  \* the frame avcodec_receive_frame gave, not yet queued (0: none)
  yuv,      \* yuv_frames_
  heap,     \* the frames allocated and not freed
  scaling,  \* the frame the scale thread has popped (0: none)
  pictures, \* history: pictures given to the listener
  abort,    \* abort_
  decPc,    \* where the decode thread is
  scalePc,  \* where the scale thread is
  opc       \* where the owner is

input == <<added, es, nodes>>
scaleVars == <<scaling, pictures, scalePc>>
vars == <<input, decoding, draining, codec, failed, copying, yuv, heap, scaleVars,
          abort, decPc, opc>>

Init ==
  /\ added = 0 /\ es = <<>> /\ nodes = {}
  /\ decoding = 0 /\ draining = FALSE /\ codec = <<>> /\ failed = {} /\ copying = 0
  /\ yuv = <<>> /\ heap = {}
  /\ scaling = 0 /\ pictures = <<>>
  /\ abort = FALSE
  /\ decPc = "top" /\ scalePc = "top" /\ opc = "made"

(* push_back.  Variants: at the wrong end; onto a list that is emptied     *)
(* first when it is long, as the encoder does.                             *)
PushFirst(q, n) == <<n>> \o q
DropPush(q, n) == IF Len(q) > 1 THEN <<n>> ELSE Append(q, n)
Push(q, n) == Append(q, n)

-----------------------------------------------------------------------------
(* The decode thread, DecodeThread and DecodeVideo.                        *)

(* The loop ends on abort_; the empty packet that drains the codec is next. *)
DecTop ==
  /\ decPc = "top"
  /\ decPc' = IF abort THEN "drain" ELSE "enter"
  /\ UNCHANGED <<input, decoding, draining, codec, failed, copying, yuv, heap,
                 scaleVars, abort, opc>>

DecPop ==
  /\ decPc = "enter" /\ es # <<>>
  /\ decoding' = Head(es)
  /\ es' = Tail(es)
  /\ decPc' = "send"
  /\ UNCHANGED <<added, nodes, draining, codec, failed, copying, yuv, heap,
                 scaleVars, abort, opc>>

(* Nothing to decode: wait for a notification, at most 100 ms. *)
DecWait ==
  /\ decPc = "enter" /\ es = <<>>
  /\ decPc' = "wait"
  /\ UNCHANGED <<input, decoding, draining, codec, failed, copying, yuv, heap,
                 scaleVars, abort, opc>>

(* Variant: only a new packet ends the wait. *)
DecNotified ==
  /\ decPc = "wait" /\ es # <<>>
  /\ decPc' = "top"
  /\ UNCHANGED <<input, decoding, draining, codec, failed, copying, yuv, heap,
                 scaleVars, abort, opc>>

DecWake ==
  /\ decPc = "wait"
  /\ decPc' = "top"
  /\ UNCHANGED <<input, decoding, draining, codec, failed, copying, yuv, heap,
                 scaleVars, abort, opc>>

DecSend ==
  /\ decPc = "send"
  /\ codec' = Append(codec, decoding)
  /\ decPc' = "receive"
  /\ UNCHANGED <<input, decoding, draining, failed, copying, yuv, heap, scaleVars,
                 abort, opc>>

(* avcodec_send_packet fails: DecodeVideo returns and the packet is gone. *)
DecRefused ==
  /\ decPc = "send" /\ Fails
  /\ failed' = failed \cup {decoding}
  /\ decPc' = "delete"
  /\ UNCHANGED <<input, decoding, draining, codec, copying, yuv, heap, scaleVars,
                 abort, opc>>

(* The codec gives a frame; once it is being drained it gives all it has. *)
CodecGives == Len(codec) > (IF draining THEN 0 ELSE Delay)

DecReceive ==
  /\ decPc = "receive" /\ CodecGives
  /\ copying' = Head(codec)
  /\ codec' = Tail(codec)
  /\ heap' = heap \cup {Head(codec)}
  /\ decPc' = "copy"
  /\ UNCHANGED <<input, decoding, draining, failed, yuv, scaleVars, abort, opc>>

(* The copy from the GPU, or into the new frame's buffer, fails: the frame *)
(* is freed and DecodeVideo returns.  Variant: the frame is not freed.     *)
CopyLeaks ==
  /\ decPc = "copy" /\ Fails
  /\ failed' = failed \cup {copying}
  /\ copying' = 0
  /\ decPc' = "delete"
  /\ UNCHANGED <<input, decoding, draining, codec, yuv, heap, scaleVars, abort, opc>>

CopyFails ==
  /\ decPc = "copy" /\ Fails
  /\ failed' = failed \cup {copying}
  /\ heap' = heap \ {copying}
  /\ copying' = 0
  /\ decPc' = "delete"
  /\ UNCHANGED <<input, decoding, draining, codec, yuv, scaleVars, abort, opc>>

(* Queue the frame.  Variant: frame_ is set to NULL before, not after.     *)
PushNull ==
  /\ decPc = "copy"
  /\ yuv' = Push(yuv, 0)
  /\ copying' = 0
  /\ decPc' = "receive"
  /\ UNCHANGED <<input, decoding, draining, codec, failed, heap, scaleVars, abort, opc>>

DecPush ==
  /\ decPc = "copy"
  /\ yuv' = Push(yuv, copying)
  /\ copying' = 0
  /\ decPc' = "receive"
  /\ UNCHANGED <<input, decoding, draining, codec, failed, heap, scaleVars, abort, opc>>

(* The codec gives no more: DecodeVideo returns. *)
DecAgain ==
  /\ decPc = "receive" /\ ~CodecGives
  /\ decPc' = "delete"
  /\ UNCHANGED <<input, decoding, draining, codec, failed, copying, yuv, heap,
                 scaleVars, abort, opc>>

(* Delete the node; the node of the empty packet is the thread's last. *)
DecDelete ==
  /\ decPc = "delete"
  /\ nodes' = nodes \ {decoding}
  /\ decoding' = 0
  /\ decPc' = IF draining THEN "done" ELSE "top"
  /\ UNCHANGED <<added, es, draining, codec, failed, copying, yuv, heap, scaleVars,
                 abort, opc>>

DecDrain ==
  /\ decPc = "drain"
  /\ draining' = TRUE
  /\ decPc' = "receive"
  /\ UNCHANGED <<input, decoding, codec, failed, copying, yuv, heap, scaleVars,
                 abort, opc>>

Dec == DecTop \/ DecPop \/ DecWait \/ DecWake \/ DecSend \/ DecRefused \/ DecReceive
       \/ CopyFails \/ DecPush \/ DecAgain \/ DecDelete \/ DecDrain

-----------------------------------------------------------------------------
(* The scale thread, ScaleThread and ScaleVideo.                           *)

ScaleTop ==
  /\ scalePc = "top"
  /\ scalePc' = IF abort THEN "done" ELSE "enter"
  /\ UNCHANGED <<input, decoding, draining, codec, failed, copying, yuv, heap,
                 scaling, pictures, abort, decPc, opc>>

ScalePop ==
  /\ scalePc = "enter" /\ yuv # <<>>
  /\ scaling' = Head(yuv)
  /\ yuv' = Tail(yuv)
  /\ scalePc' = "scale"
  /\ UNCHANGED <<input, decoding, draining, codec, failed, copying, heap, pictures,
                 abort, decPc, opc>>

ScaleWait ==
  /\ scalePc = "enter" /\ yuv = <<>>
  /\ scalePc' = "wait"
  /\ UNCHANGED <<input, decoding, draining, codec, failed, copying, yuv, heap,
                 scaling, pictures, abort, decPc, opc>>

ScaleWake ==
  /\ scalePc = "wait"
  /\ scalePc' = "top"
  /\ UNCHANGED <<input, decoding, draining, codec, failed, copying, yuv, heap,
                 scaling, pictures, abort, decPc, opc>>

(* OnRGBData with a copy of the picture. *)
ScaleEmit ==
  /\ scalePc = "scale"
  /\ pictures' = Append(pictures, scaling)
  /\ scalePc' = "free"
  /\ UNCHANGED <<input, decoding, draining, codec, failed, copying, yuv, heap,
                 scaling, abort, decPc, opc>>

ScaleFree ==
  /\ scalePc = "free"
  /\ heap' = heap \ {scaling}
  /\ scaling' = 0
  /\ scalePc' = "top"
  /\ UNCHANGED <<input, decoding, draining, codec, failed, copying, yuv, pictures,
                 abort, decPc, opc>>

Scale == ScaleTop \/ ScalePop \/ ScaleWait \/ ScaleWake \/ ScaleEmit \/ ScaleFree

-----------------------------------------------------------------------------
(* The owner.  The wrapper makes the decoder on the first packet and sets  *)
(* the callback before it puts that packet in.                             *)

InputVideoData ==
  /\ opc = "made" /\ added < MaxPackets
  /\ added' = added + 1
  /\ es' = Push(es, added + 1)
  /\ nodes' = nodes \cup {added + 1}
  /\ UNCHANGED <<decoding, draining, codec, failed, copying, yuv, heap, scaleVars,
                 abort, decPc, opc>>

Destroy ==
  /\ opc = "made"
  /\ abort' = TRUE
  /\ opc' = "joinDecode"
  /\ UNCHANGED <<input, decoding, draining, codec, failed, copying, yuv, heap,
                 scaleVars, decPc>>

JoinDecode ==
  /\ opc = "joinDecode" /\ decPc = "done"
  /\ opc' = "joinScale"
  /\ UNCHANGED <<input, decoding, draining, codec, failed, copying, yuv, heap,
                 scaleVars, abort, decPc>>

(* Both threads are gone; free the frames and the packets that are left,   *)
(* and the codec with what is in it.                                       *)
JoinScale ==
  /\ opc = "joinScale" /\ scalePc = "done"
  /\ heap' = heap \ ToSet(yuv) /\ yuv' = <<>>
  /\ nodes' = nodes \ ToSet(es) /\ es' = <<>>
  /\ codec' = <<>>
  /\ opc' = "dead"
  /\ UNCHANGED <<added, decoding, draining, failed, copying, scaleVars, abort, decPc>>

Teardown == JoinDecode \/ JoinScale
Owner == InputVideoData \/ Destroy \/ Teardown
Next == Dec \/ Scale \/ Owner

(* Every thread that can run is run, and a destructor that has started     *)
(* waits for its threads; the owner need neither put packets in nor        *)
(* destroy the decoder.                                                    *)
SafeSpec == Init /\ [][Next]_vars
Spec == SafeSpec /\ WF_vars(Dec) /\ WF_vars(Scale) /\ WF_vars(Teardown)

-----------------------------------------------------------------------------
(* Properties.                                                             *)

PacketNo == 1..MaxPackets
One(n) == IF n = 0 THEN <<>> ELSE <<n>>

(* The type of every variable of the decoder and its threads. *)
TypeOK ==
  /\ added \in 0..MaxPackets
  /\ es \in Seq(PacketNo) /\ codec \in Seq(PacketNo) /\ yuv \in Seq(PacketNo)
  /\ pictures \in Seq(PacketNo)
  /\ nodes \in SUBSET PacketNo /\ heap \in SUBSET PacketNo /\ failed \in SUBSET PacketNo
  /\ decoding \in 0..MaxPackets /\ copying \in 0..MaxPackets /\ scaling \in 0..MaxPackets
  /\ draining \in BOOLEAN /\ abort \in BOOLEAN
  /\ decPc \in {"top", "enter", "wait", "send", "receive", "copy", "delete", "drain", "done"}
  /\ scalePc \in {"top", "enter", "wait", "scale", "free", "done"}
  /\ opc \in {"made", "joinDecode", "joinScale", "dead"}

(* Every node and every frame allocated is held by exactly one list or     *)
(* thread and everything held is allocated, although the decode thread     *)
(* still queues frames when the scale thread has already gone: nothing is  *)
(* leaked, freed twice or used after it was freed.                         *)
HeldFrames == One(scaling) \o yuv \o One(copying)
HeldNodes == One(decoding) \o es
MemoryOwned ==
  /\ TypeOK
  /\ heap = ToSet(HeldFrames) /\ IsInjective(HeldFrames)
  /\ nodes = ToSet(HeldNodes) /\ IsInjective(HeldNodes)

(* The decoder skips nothing: at any time the pictures it has given are    *)
(* exactly the first of the packets put in, in order, without those the    *)
(* codec refused or whose copy failed.  What is lost is lost at the end,   *)
(* by the destructor, and from no other place.                             *)
PictureNo(n) == Cardinality({p \in 1..n : p \notin failed})
NothingSkipped ==
  \A i \in DOMAIN pictures :
    /\ pictures[i] \notin failed
    /\ PictureNo(pictures[i]) = i

(* Once no more packets are put in, every one of them comes out as a       *)
(* picture, except those that failed and the last Delay that the codec     *)
(* keeps back, unless the decoder is destroyed first: none is forgotten on *)
(* a list or in a codec that was left in the middle of its receive loop.   *)
EveryPacketDecoded ==
  <>[](abort \/ /\ 1..added \subseteq failed \cup ToSet(pictures) \cup ToSet(codec)
                /\ Len(codec) <= Delay)

(* The destructor returns. *)
DestructorReturns == (opc = "joinDecode") ~> (opc = "dead")

(* Both together: the decoder gets on with what it has. *)
Progress == EveryPacketDecoded /\ DestructorReturns

(* The decoder as a channel that may lose packets but not reorder them.    *)
Scaled == IF scalePc = "free" THEN <<>> ELSE One(scaling)
Sending == IF decPc = "send" THEN One(decoding) ELSE <<>>
Inside == Scaled \o (yuv \o (One(copying) \o (codec \o (Sending \o es))))

LF == INSTANCE LossyFifo WITH inside <- Inside, out <- pictures, sent <- added

DecoderIsFifo == LF!Spec
=============================================================================
