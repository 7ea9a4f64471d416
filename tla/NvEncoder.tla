------------------------------ MODULE NvEncoder ------------------------------
(***************************************************************************)
(* The encoder of the NVIDIA SDK: NVHardVideoEncoder of                    *)
(* HardCodec/Encoder/H264NVIDIAEncoder.cpp on NvEncoder and NvEncoderCuda  *)
(* of HardCodec/Nvcodec_utils/NvEnc.                                       *)
(*                                                                         *)
(* Pictures wait on bgr_frames_.  The worker thread copies each into the   *)
(* next input surface of a ring, sends the surface to the hardware and     *)
(* fetches the packets of earlier pictures, m_nOutputDelay behind.  At the *)
(* end it tells the hardware and fetches the rest.                         *)
(*                                                                         *)
(* A picture and its packet are one number.  The hardware is external: it  *)
(* encodes in order and at its own pace, reading the surface when it does, *)
(* and keeps back what it needs for B frames and lookahead until the end   *)
(* of the stream.  Locking a bitstream waits for it.  A failing NVENC or   *)
(* CUDA call throws, nothing catches it, and the process ends.             *)
(***************************************************************************)
EXTENDS Integers, Sequences, FiniteSets, SequencesExt

CONSTANTS
  MaxQueue,         \* pictures that may wait (5 in the code)
  FrameIntervalP,   \* frameIntervalP (1 with -bf 0)
  LookaheadDepth,   \* rcParams.lookaheadDepth
  ExtraOutputDelay, \* m_nExtraOutputDelay (3 in the code)
  Failing           \* pictures nvEncEncodePicture fails for

ASSUME NvEncoderAssumption ==
  /\ MaxQueue \in Nat /\ FrameIntervalP \in Nat \ {0}
  /\ LookaheadDepth \in Nat /\ ExtraOutputDelay \in Nat

VARIABLES
  made,      \* the encoder exists, Init has been called
  bgr,       \* bgr_frames_
  encoding,  \* the picture the worker has popped (0: none)
  iToSend,   \* m_iToSend
  iGot,      \* m_iGot
  input,     \* the picture in each input surface
  registered, \* the surfaces in m_vRegisteredResources
  mapped,    \* the surfaces in m_vMappedInputBuffers
  work,      \* the slots the hardware has been sent and not encoded
  bitstream, \* the packet in each output buffer (0: none)
  eos,       \* the hardware has been told that the stream has ended
  fetched,   \* vPacket
  packets,   \* history: packets given to the listener
  encAbort,  \* abort_
  encPc,     \* where the worker is
  encFault   \* an exception has ended the process

ringVars == <<iToSend, iGot, input, registered, mapped, work, bitstream, eos>>
workerVars == <<encoding, fetched, packets, encPc, encFault>>
encVars == <<made, bgr, ringVars, workerVars, encAbort>>

(* The size of the ring, and how far behind the packets are fetched.       *)
(* Variants: as far as the ring is long; only the extra delay.             *)
EncoderBuffer == FrameIntervalP + LookaheadDepth + ExtraOutputDelay
WholeRing == EncoderBuffer
ExtraOnly == ExtraOutputDelay
OutputDelay == EncoderBuffer - 1

Slots == 0..(EncoderBuffer - 1)
Slot(i) == i % EncoderBuffer
Empty == [s \in Slots |-> 0]

EncInit ==
  /\ made = FALSE /\ bgr = <<>> /\ encoding = 0
  /\ iToSend = 0 /\ iGot = 0 /\ input = Empty /\ registered = {} /\ mapped = {}
  /\ work = <<>> /\ bitstream = Empty /\ eos = FALSE
  /\ fetched = <<>> /\ packets = <<>>
  /\ encAbort = FALSE /\ encPc = "none" /\ encFault = FALSE

(* AddVideoFrame: the pictures that wait are dropped when they are too     *)
(* many.  Variant: the picture goes to the front.                          *)
PushFront(q, p) == <<p>> \o q
DropPush(q, p) == IF Len(q) > MaxQueue THEN <<p>> ELSE Append(q, p)

(* CreateEncoder makes the ring. *)
RegisterInputResources == registered' = Slots
AllocateInputBuffers == RegisterInputResources /\ input' = Empty
InitializeBitstreamBuffer == bitstream' = Empty
CreateEncoder == InitializeBitstreamBuffer /\ AllocateInputBuffers

(* Init, and the first picture, *)
AddFirstFrame(p) ==
  /\ ~made /\ made' = TRUE
  /\ CreateEncoder
  /\ encPc' = "top"
  /\ bgr' = DropPush(bgr, p)
  /\ UNCHANGED <<iToSend, iGot, mapped, work, eos, encoding, fetched, packets, encFault,
                 encAbort>>

(* and every other. *)
AddNextFrame(p) ==
  /\ made /\ bgr' = DropPush(bgr, p)
  /\ UNCHANGED <<made, ringVars, workerVars, encAbort>>

AddVideoFrame(p) == AddFirstFrame(p) \/ AddNextFrame(p)

-----------------------------------------------------------------------------
(* The worker, VideoEncThread.                                             *)

EncStep(from, to) == encPc = from /\ encPc' = to /\ UNCHANGED <<made, encAbort>>

EncTop ==
  /\ EncStep("top", IF encAbort THEN "flush" ELSE "enter")
  /\ UNCHANGED <<bgr, ringVars, encoding, fetched, packets, encFault>>

EncIdle ==
  /\ bgr = <<>> /\ EncStep("enter", "top")
  /\ UNCHANGED <<bgr, ringVars, encoding, fetched, packets, encFault>>

EncPop ==
  /\ bgr # <<>> /\ EncStep("enter", "copy")
  /\ encoding' = Head(bgr) /\ bgr' = Tail(bgr)
  /\ UNCHANGED <<ringVars, fetched, packets, encFault>>

(* The picture is copied into the next input frame. *)
NextInputFrame == Slot(iToSend)
CopyToDeviceFrame(s) == input' = [input EXCEPT ![s] = encoding]

EncCopy ==
  /\ EncStep("copy", "encode")
  /\ CopyToDeviceFrame(NextInputFrame)
  /\ UNCHANGED <<bgr, iToSend, iGot, registered, mapped, work, bitstream, eos, encoding,
                 fetched, packets, encFault>>

(* EncodeFrame; the hardware has encoded, or needs more input. *)
MapResources(s) == mapped' = mapped \cup {s}
DoEncode(s) == work' = Append(work, s)

EncEncode ==
  /\ EncStep("encode", "fetch")
  /\ MapResources(NextInputFrame) /\ DoEncode(NextInputFrame)
  /\ iToSend' = iToSend + 1
  /\ encoding' = 0
  /\ UNCHANGED <<bgr, iGot, input, registered, bitstream, eos, fetched, packets, encFault>>

EncFails ==
  /\ encoding \in Failing /\ EncStep("encode", "encode")
  /\ encFault' = TRUE
  /\ UNCHANGED <<bgr, ringVars, encoding, fetched, packets>>

(* GetEncodedPacket: lock the output buffer, which waits for the hardware, *)
(* take the packet and unmap the surface.  Variant: it stays mapped.       *)
StillMapped(s) == mapped
Unmapped(s) == mapped \ {s}
Due == IF eos THEN iToSend ELSE iToSend - OutputDelay

EncFetch ==
  /\ iGot < Due /\ bitstream[Slot(iGot)] # 0 /\ EncStep("fetch", "fetch")
  /\ fetched' = Append(fetched, bitstream[Slot(iGot)])
  /\ bitstream' = [bitstream EXCEPT ![Slot(iGot)] = 0]
  /\ mapped' = Unmapped(Slot(iGot))
  /\ iGot' = iGot + 1
  /\ UNCHANGED <<bgr, iToSend, input, registered, work, eos, encoding, packets, encFault>>

EncFetched ==
  /\ iGot >= Due /\ EncStep("fetch", "deliver")
  /\ UNCHANGED <<bgr, ringVars, encoding, fetched, packets, encFault>>

(* OnVideoEncData for each packet. *)
EncDeliver ==
  /\ fetched # <<>> /\ EncStep("deliver", "deliver")
  /\ packets' = Append(packets, Head(fetched)) /\ fetched' = Tail(fetched)
  /\ UNCHANGED <<bgr, ringVars, encoding, encFault>>

EncDelivered ==
  /\ fetched = <<>> /\ EncStep("deliver", IF eos THEN "done" ELSE "top")
  /\ UNCHANGED <<bgr, ringVars, encoding, fetched, packets, encFault>>

(* EndEncode: SendEOS, and every packet is due. *)
EncFlush ==
  /\ EncStep("flush", "fetch")
  /\ eos' = TRUE
  /\ UNCHANGED <<bgr, iToSend, iGot, input, registered, mapped, work, bitstream, encoding,
                 fetched, packets, encFault>>

Worker == EncTop \/ EncIdle \/ EncPop \/ EncCopy \/ EncEncode \/ EncFails \/ EncFetch
          \/ EncFetched \/ EncDeliver \/ EncDelivered \/ EncFlush

(* The hardware encodes what is in the surface now. *)
KeptBack == IF eos THEN 0 ELSE FrameIntervalP - 1 + LookaheadDepth

Hardware ==
  /\ Len(work) > KeptBack
  /\ bitstream' = [bitstream EXCEPT ![Head(work)] = input[Head(work)]]
  /\ work' = Tail(work)
  /\ UNCHANGED <<made, bgr, iToSend, iGot, input, registered, mapped, eos, workerVars, encAbort>>

-----------------------------------------------------------------------------
(* The destructor.                                                         *)

EncDestroy ==
  /\ encAbort' = TRUE
  /\ UNCHANGED <<made, bgr, ringVars, workerVars>>

(* The worker has ended: the pictures that wait are dropped, *)
UnregisterInputResources == mapped' = {} /\ registered' = {}
ReleaseCudaResources == UnregisterInputResources /\ input' = Empty
DestroyBitstreamBuffer == bitstream' = Empty
DestroyEncoder == ReleaseCudaResources /\ DestroyBitstreamBuffer

(* and DestroyEncoder flushes once more, which finds no packet, unmaps     *)
(* what is still mapped and frees the ring.                                *)
EncJoin ==
  /\ encPc = "done"
  /\ made' = FALSE /\ bgr' = <<>>
  /\ DestroyEncoder
  /\ UNCHANGED <<iToSend, iGot, work, eos, workerVars, encAbort>>

EncSteps == Worker \/ Hardware

-----------------------------------------------------------------------------
(* Properties.                                                             *)

(* The type of every variable. *)
EncTypeOK ==
  /\ made \in BOOLEAN /\ eos \in BOOLEAN /\ encAbort \in BOOLEAN /\ encFault \in BOOLEAN
  /\ bgr \in Seq(Nat \ {0}) /\ fetched \in Seq(Nat) /\ packets \in Seq(Nat)
  /\ encoding \in Nat /\ iToSend \in Nat /\ iGot \in Nat
  /\ input \in [Slots -> Nat] /\ bitstream \in [Slots -> Nat]
  /\ registered \subseteq Slots /\ mapped \subseteq Slots /\ work \in Seq(Slots)
  /\ encPc \in {"none", "top", "enter", "copy", "encode", "fetch", "deliver", "flush", "done"}

(* The ring is never written over: when a picture is copied into a surface *)
(* the hardware has encoded what was there and its packet has been         *)
(* fetched.  Exactly the surfaces between m_iGot and m_iToSend are mapped, *)
(* and what the hardware works on is among them: nothing is mapped twice   *)
(* or unmapped too early, and when the worker is done nothing is left.     *)
Sent == {Slot(i) : i \in iGot..(iToSend - 1)}
RingKept ==
  /\ EncTypeOK
  /\ encPc = "copy" => Slot(iToSend) \notin mapped /\ bitstream[Slot(iToSend)] = 0
  /\ made => mapped = Sent
  /\ mapped \subseteq registered /\ Range(work) \subseteq mapped
  /\ iGot <= iToSend /\ iToSend - iGot <= EncoderBuffer
  /\ encPc = "done" => iGot = iToSend /\ work = <<>>
  /\ Len(bgr) <= MaxQueue + 1
=============================================================================
