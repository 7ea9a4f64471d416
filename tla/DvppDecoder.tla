----------------------------- MODULE DvppDecoder -----------------------------
(***************************************************************************)
(* The Ascend video decoder, HardCodec/Decoder/DVPPDecoder.cpp.            *)
(*                                                                         *)
(* The reader puts packets on es_packets_.  The send thread takes an       *)
(* output buffer from a pool for each and sends both to the hardware.  The *)
(* get thread fetches the pictures, converts them, calls the listener and  *)
(* puts the buffers back.  Both threads end on abort_; the send thread     *)
(* then tells the hardware that the stream has ended.                      *)
(*                                                                         *)
(* A packet and its picture are one number.  The hardware is external: it  *)
(* decodes in order, keeps Delay pictures back until the stream ends, and  *)
(* may refuse a packet or mark a picture as bad.  It writes a buffer as    *)
(* soon as it gets it, the earliest it can.  It always has room: the pool  *)
(* bounds what is in it.  Init, which ends the process when it fails, and  *)
(* the deletion of the packets' nodes are left out.                        *)
(***************************************************************************)
EXTENDS Integers, Sequences, FiniteSets, SequencesExt

CONSTANTS
  MaxPackets, \* bound: how many packets the owner puts in
  OutNum,     \* pool_num_ (10 in the code)
  Delay,      \* pictures the hardware keeps back
  Unaccepted, \* packets hi_mpi_vdec_send_stream may fail for
  Bad,        \* packets whose picture has a frame_flag
  Huge        \* packets longer than in_es_buffer_size_

ASSUME DvppDecoderAssumption ==
  MaxPackets \in Nat /\ OutNum \in Nat \ {0} /\ Delay \in Nat

VARIABLES
  arrived,  \* packets put in so far
  es,       \* es_packets_
  sending,  \* the packet the send thread has popped (0: none)
  address,  \* the buffer it has for it (0: none or NULL)
  outPool,  \* out_buffer_pool_
  outMem,   \* the picture in each buffer
  hw,       \* packets in the hardware, each with its buffer
  ended,    \* the hardware has been told that the stream has ended
  got,      \* the frame the get thread has fetched
  pictures, \* history: pictures given to the listener
  gone,     \* history: packets refused, and pictures not given to the listener
  astray,   \* history: buffers no one refers to any more
  stopping, \* abort_
  sendPc, getPc, closePc, \* where the threads and the owner are
  failed    \* a check has ended the process

sendVars == <<es, sending, address, ended, sendPc>>
getVars == <<got, pictures, getPc>>
outVars == <<outPool, outMem, hw, gone, astray>>
ownVars == <<arrived, stopping, closePc>>
decVars == <<sendVars, getVars, outVars, ownVars, failed>>

OutBuffers == 1..OutNum
PacketNo == 1..MaxPackets
Nothing == [pic |-> 0, buf |-> 0]
Frames == [pic : PacketNo, buf : {0} \cup OutBuffers] \cup {Nothing}

DecInit ==
  /\ arrived = 0 /\ es = <<>> /\ sending = 0 /\ address = 0
  /\ outPool = [b \in OutBuffers |-> b] /\ outMem = [b \in OutBuffers |-> 0]
  /\ hw = <<>> /\ ended = FALSE /\ got = Nothing
  /\ pictures = <<>> /\ gone = {} /\ astray = {}
  /\ stopping = FALSE /\ failed = FALSE
  /\ sendPc = "top" /\ getPc = "top" /\ closePc = "open"

-----------------------------------------------------------------------------
(* The send thread, SendStream and DecodeVideo.                            *)

SendStep(from, to) == sendPc = from /\ sendPc' = to /\ UNCHANGED <<getVars, ownVars>>

SendTop ==
  /\ SendStep("top", IF stopping THEN "end" ELSE "enter")
  /\ UNCHANGED <<es, sending, address, ended, outVars, failed>>

(* Waiting for a packet, at most 100 ms, is going back to the top. *)
SendIdle ==
  /\ es = <<>> /\ SendStep("enter", "top")
  /\ UNCHANGED <<es, sending, address, ended, outVars, failed>>

SendPop ==
  /\ es # <<>> /\ SendStep("enter", "copy")
  /\ sending' = Head(es) /\ es' = Tail(es)
  /\ UNCHANGED <<address, ended, outVars, failed>>

(* The packet is copied to the device; CHECK_ACL ends the process when the *)
(* buffer there is too small.                                              *)
SendCopy ==
  /\ SendStep("copy", "addr")
  /\ failed' = (sending \in Huge)
  /\ UNCHANGED <<es, sending, address, ended, outVars>>

(* GetOutAddr gives NULL once abort_ is set.  Variant: it looks at the     *)
(* pool only.                                                              *)
WaitsOn == FALSE
StopsWaiting == stopping

SendAddr ==
  /\ SendStep("addr", IF StopsWaiting THEN "send" ELSE "try")
  /\ UNCHANGED <<es, sending, address, ended, outVars, failed>>

SendStarved ==
  /\ outPool = <<>> /\ SendStep("try", "addr")
  /\ UNCHANGED <<es, sending, address, ended, outVars, failed>>

SendTake ==
  /\ outPool # <<>> /\ SendStep("try", "send")
  /\ address' = Head(outPool) /\ outPool' = Tail(outPool)
  /\ UNCHANGED <<es, sending, ended, outMem, hw, gone, astray, failed>>

(* hi_mpi_vdec_send_stream. *)
SendAccepted ==
  /\ SendStep("send", "top")
  /\ hw' = Append(hw, [pic |-> sending, buf |-> address])
  /\ outMem' = IF address = 0 THEN outMem ELSE [outMem EXCEPT ![address] = sending]
  /\ sending' = 0 /\ address' = 0
  /\ UNCHANGED <<es, ended, outPool, gone, astray, failed>>

(* It fails: the error is logged, and the buffer is in no list any more. *)
SendRefused ==
  /\ SendStep("send", "top") /\ sending \in Unaccepted
  /\ gone' = gone \cup {sending}
  /\ astray' = astray \cup ({address} \ {0})
  /\ sending' = 0 /\ address' = 0
  /\ UNCHANGED <<es, ended, outPool, outMem, hw, failed>>

(* The node without data: end_of_stream. *)
SendEnd ==
  /\ SendStep("end", "done")
  /\ ended' = TRUE
  /\ UNCHANGED <<es, sending, address, outVars, failed>>

Send == SendTop \/ SendIdle \/ SendPop \/ SendCopy \/ SendAddr \/ SendStarved
        \/ SendTake \/ SendAccepted \/ SendRefused \/ SendEnd

-----------------------------------------------------------------------------
(* The get thread, GetPic.                                                 *)

GetStep(from, to) ==
  getPc = from /\ getPc' = to /\ UNCHANGED <<sendVars, ownVars, outMem, astray, failed>>

GetTop ==
  /\ GetStep("top", IF stopping THEN "done" ELSE "get")
  /\ UNCHANGED <<got, pictures, outPool, hw, gone>>

(* hi_mpi_vdec_get_frame has nothing to give for 1000 ms.                  *)
HardwareGives == Len(hw) > (IF ended THEN 0 ELSE Delay)

GetTimeout ==
  /\ ~HardwareGives /\ GetStep("get", "top")
  /\ UNCHANGED <<got, pictures, outPool, hw, gone>>

(* A frame that is bad, or has no buffer, is not given to the listener.    *)
Good(f) == f.pic \notin Bad /\ f.buf # 0

GetFrame ==
  /\ HardwareGives /\ GetStep("get", IF Good(Head(hw)) THEN "emit" ELSE "put")
  /\ got' = Head(hw) /\ hw' = Tail(hw)
  /\ gone' = IF Good(Head(hw)) THEN gone ELSE gone \cup {Head(hw).pic}
  /\ UNCHANGED <<pictures, outPool>>

(* Convert the picture that is in the buffer; OnRGBData. *)
GetEmit ==
  /\ GetStep("emit", "put")
  /\ pictures' = Append(pictures, outMem[got.buf])
  /\ UNCHANGED <<got, outPool, hw, gone>>

(* PutOutAddr, and hi_mpi_vdec_release_frame after it.  Variants: only     *)
(* good frames give their buffer back; every frame gives it back twice.    *)
PutGoodOnly(f) == IF Good(f) THEN <<f.buf>> ELSE <<>>
PutTwice(f) == IF f.buf # 0 THEN <<f.buf, f.buf>> ELSE <<>>
PutOutAddr(f) == IF f.buf # 0 THEN <<f.buf>> ELSE <<>>

GetPut ==
  /\ GetStep("put", "top")
  /\ outPool' = outPool \o PutOutAddr(got)
  /\ got' = Nothing
  /\ UNCHANGED <<pictures, hw, gone>>

Get == GetTop \/ GetTimeout \/ GetFrame \/ GetEmit \/ GetPut

-----------------------------------------------------------------------------
(* The owner.                                                              *)

CallerStep(from, to) ==
  /\ closePc = from /\ closePc' = to
  /\ UNCHANGED <<sending, address, ended, sendPc, getVars, outMem, gone, failed>>

(* Variant: the packet is put at the front. *)
PutFirst(q, n) == <<n>> \o q
Push(q, n) == Append(q, n)

InputVideoData ==
  /\ arrived < MaxPackets /\ CallerStep("open", "open")
  /\ arrived' = arrived + 1
  /\ es' = Push(es, arrived + 1)
  /\ UNCHANGED <<stopping, outPool, hw, astray>>

(* Stop.                                                                   *)
Stop ==
  /\ CallerStep("open", "joinSend")
  /\ stopping' = TRUE
  /\ UNCHANGED <<arrived, es, outPool, hw, astray>>

JoinSend ==
  /\ sendPc = "done" /\ CallerStep("joinSend", "joinGet")
  /\ UNCHANGED <<arrived, stopping, es, outPool, hw, astray>>

(* The channel is destroyed with what is in it; the buffers of the pool    *)
(* are freed, those in the hardware are not.                               *)
JoinGet ==
  /\ getPc = "done" /\ CallerStep("joinGet", "dead")
  /\ es' = <<>> /\ outPool' = <<>> /\ hw' = <<>>
  /\ astray' = astray \cup ({hw[i].buf : i \in DOMAIN hw} \ {0})
  /\ UNCHANGED <<arrived, stopping>>

Join == JoinSend \/ JoinGet
Caller == InputVideoData \/ Stop \/ Join

DecNext == ~failed /\ (Send \/ Get \/ Caller)

(* Every thread runs; the hardware decodes. *)
DecSafeSpec == DecInit /\ [][DecNext]_decVars
DecSpec == DecSafeSpec /\ WF_decVars(~failed /\ Send) /\ WF_decVars(~failed /\ Get)
                 /\ WF_decVars(~failed /\ Join)

-----------------------------------------------------------------------------
(* Properties.                                                             *)

(* The type of every variable. *)
DecTypeOK ==
  /\ arrived \in 0..MaxPackets /\ es \in Seq(PacketNo) /\ pictures \in Seq(0..MaxPackets)
  /\ sending \in 0..MaxPackets /\ address \in {0} \cup OutBuffers
  /\ outPool \in Seq(OutBuffers) /\ outMem \in [OutBuffers -> 0..MaxPackets]
  /\ hw \in Seq(Frames) /\ got \in Frames
  /\ gone \subseteq PacketNo /\ astray \subseteq OutBuffers
  /\ ended \in BOOLEAN /\ stopping \in BOOLEAN /\ failed \in BOOLEAN
  /\ sendPc \in {"top", "enter", "copy", "addr", "try", "send", "end", "done"}
  /\ getPc \in {"top", "get", "emit", "put", "done"}
  /\ closePc \in {"open", "joinSend", "joinGet", "dead"}

Single(x) == IF x = 0 THEN <<>> ELSE <<x>>

(* Until the decoder is destroyed every buffer is in the pool, with the    *)
(* send thread, in the hardware, with the get thread, or lost, and in one  *)
(* of these only: the hardware never writes a picture over one that is     *)
(* still to be fetched or read.  It holds as many packets as it has        *)
(* buffers, and at most one more, sent without a buffer (0) after abort_.  *)
HwBufs == [i \in DOMAIN hw |-> hw[i].buf]
OutHeld == outPool \o Single(address) \o HwBufs \o Single(got.buf)
OutBuffersOwned ==
  /\ DecTypeOK
  /\ IsInjective(OutHeld) /\ ToSet(OutHeld) \cap astray = {}
  /\ closePc # "dead" => (ToSet(OutHeld) \cup astray) \ {0} = OutBuffers
  /\ 0 \in ToSet(HwBufs) => stopping

(* Every packet put in is given to the listener, refused, bad, or one of   *)
(* the last Delay that the hardware keeps, unless the decoder is destroyed *)
(* or so many buffers are lost to refused packets that the hardware keeps  *)
(* the rest; and a destructor that has started returns, with no buffer     *)
(* free as well as with all of them.                                       *)
Decoded == gone \cup ToSet(pictures) \cup {hw[i].pic : i \in DOMAIN hw}
Progress ==
  /\ <>[](failed \/ stopping \/ Cardinality(astray) + Delay >= OutNum
           \/ (1..arrived \subseteq Decoded /\ Len(hw) <= Delay))
  /\ (closePc = "joinSend") ~> (failed \/ closePc = "dead")

(* The decoder as a channel that may lose packets but not reorder them,    *)
(* through buffers that are used again.                                    *)
DLF == INSTANCE LossyFifo WITH
        inside <- (IF getPc = "emit" THEN <<outMem[got.buf]>> ELSE <<>>)
                  \o [i \in DOMAIN hw |-> hw[i].pic] \o Single(sending) \o es,
        out <- pictures,
        sent <- arrived

DecoderIsFifo == DLF!Spec
=============================================================================
