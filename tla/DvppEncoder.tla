----------------------------- MODULE DvppEncoder -----------------------------
(***************************************************************************)
(* The Ascend video encoder: HardCodec/Encoder/H264DVPPEncoder.cpp on top  *)
(* of the encoder, looper and manager of HardCodec/Encoder/dvpp_enc.       *)
(*                                                                         *)
(* The scale thread converts each picture into a device buffer it takes    *)
(* from a pool and puts the buffer on yuv_frames_.  The encode thread      *)
(* copies it into an input frame of the HmevEncoder, which hands it to the *)
(* hardware, and puts the buffer back.  The looper thread is told when a   *)
(* stream is ready, gives the input frame back and calls the listener.     *)
(*                                                                         *)
(* A picture, and all that is made of it, is one number.  The hardware is  *)
(* external: it encodes in order and may refuse a frame.  Steps made under *)
(* the encoder's m_lock are atomic.  Time stamps are left out.             *)
(***************************************************************************)
EXTENDS Integers, Sequences, FiniteSets, SequencesExt

CONSTANTS
  NumFrames, \* bound: how many pictures the owner adds
  Sizes,     \* the picture sizes, [w, h]
  Limit,     \* a longer list is emptied before a push (5 in the code)
  PoolNum,   \* device buffers in out_buffer_pool_ (10 in the code)
  InputNum,  \* input frames of the HmevEncoder, inputFrameLen (1 in the code)
  QueueLen,  \* FREE_FRAME_QUEUE_LEN (10 in the code)
  Refusable, \* pictures hi_mpi_venc_send_frame may fail for
  Uncopied,  \* pictures whose packet may not be copied to the host
  MaxChn,    \* MAX_ENC_CHANNEL_NUM (256 in the code)
  Starts,    \* what channel_id and the channels in use may be before Init
  Align      \* DEFAULT_ALIGN, of the SDK

ASSUME DvppEncoderAssumption ==
  /\ NumFrames \in Nat /\ Limit \in Nat /\ PoolNum \in Nat /\ InputNum \in Nat \ {0}
  /\ QueueLen \in Nat \ {0} /\ MaxChn \in Nat \ {0} /\ Align \in Nat \ {0}
  /\ Sizes \subseteq [w : Nat, h : Nat]
  /\ Starts \subseteq [id : -1..MaxChn, used : SUBSET (0..(MaxChn - 1))]

VARIABLES
  size,     \* width_ and height_
  channelId,\* channel_id, the last channel number given out in this process
  used,     \* channels that exist in the hardware
  added,    \* pictures the owner has added
  bgr,      \* bgr_frames_
  scaling,  \* the picture the scale thread has popped (0: none)
  target,   \* the device buffer it converts into (0: none or NULL)
  pool,     \* out_buffer_pool_
  mem,      \* the picture in each device buffer
  yuv,      \* yuv_frames_
  source,   \* the device buffer the encode thread has popped (0: none)
  lost,     \* history: device buffers no one refers to any more
  freeIn,   \* m_freeInputBufQueue
  input,    \* the input frame the encode thread has dequeued (0: none)
  allocated,\* the input frames with memory, m_inBufferSizeMap # 0
  filled,   \* the picture in each input frame
  pts,      \* m_ptsMap: the input frames sent and not yet given back
  chn,      \* frames in the hardware, each with its input frame
  cache,    \* m_freeStreamBuffer: packet counts of the cached streams
  watching, \* the looper has the handler of the channel
  polling,  \* m_polling
  packets,  \* history: pictures given to the listener
  abort,    \* abort_
  scalePc, encPc, loopPc, \* where the threads are
  opc,      \* where the owner is
  fault     \* how the process ended, "none" while it runs

scaleVars == <<bgr, scaling, target, scalePc>>
bufVars == <<pool, mem, yuv, lost>>
hmevVars == <<freeIn, allocated, filled, pts, chn, cache, watching, polling>>
startVars == <<size, channelId, used, added, abort, opc, fault>>
vars == <<startVars, scaleVars, bufVars, source, input, encPc, hmevVars, loopPc, packets>>

Buffers == 1..PoolNum
Inputs == 1..InputNum
Pictures == 0..NumFrames

Init ==
  /\ size \in Sizes
  /\ \E s \in Starts : channelId = s.id /\ used = s.used
  /\ added = 0 /\ bgr = <<>> /\ scaling = 0 /\ target = 0
  /\ pool = <<>> /\ mem = [b \in Buffers |-> 0] /\ yuv = <<>> /\ lost = {}
  /\ source = 0 /\ input = 0
  /\ freeIn = <<>> /\ allocated = {} /\ filled = [i \in Inputs |-> 0]
  /\ pts = {} /\ chn = <<>> /\ cache = <<>>
  /\ watching = FALSE /\ polling = FALSE
  /\ packets = <<>> /\ abort = FALSE
  /\ scalePc = "none" /\ encPc = "none" /\ loopPc = "none"
  /\ opc = "new" /\ fault = "none"

-----------------------------------------------------------------------------
(* get_pic_buffer_config for 8 bit YUV 420: bytes of a line, of the first  *)
(* plane and of the frame.  Variant: sizes are rounded down.               *)

AlignDown(x, a) == (x \div a) * a
AlignUp(x, a) == ((x + a - 1) \div a) * a
MainStride(z) == AlignUp(z.w, Align)
MainYSize(z) == MainStride(z) * AlignUp(z.h, 2)
VbSize(z) == (MainYSize(z) * 3) \div 2

(* What the scale thread converts a picture into and the encode thread     *)
(* copies: lines without padding.                                          *)
OutBufferSize(z) == (z.w * z.h * 3) \div 2

-----------------------------------------------------------------------------
(* Starting: Init of HardVideoEncoder.                                     *)

(* GetChannedId: the number that follows the last, and 0 after MaxChn.     *)
GetChannedId == (IF channelId >= MaxChn THEN -1 ELSE channelId) + 1

ChannelFree(c) == c < MaxChn /\ c \notin used

(* The input frames codec_init makes, without memory yet; the looper's      *)
(* thread; the handler of the channel.                                     *)
InputFrames == [i \in Inputs |-> i]
CreateEpoll == polling' = TRUE /\ loopPc' = "top"
AddFd == watching' = TRUE

(* venc_mng_create succeeds: do_creat_channel, codec_init, and             *)
(* start_receive_frame.  The threads start.                                *)
Start ==
  /\ opc = "new" /\ ChannelFree(GetChannedId)
  /\ channelId' = GetChannedId
  /\ used' = used \cup {GetChannedId}
  /\ pool' = [b \in Buffers |-> b]
  /\ freeIn' = InputFrames /\ CreateEpoll /\ AddFd
  /\ scalePc' = "top" /\ encPc' = "top"
  /\ opc' = "open"
  /\ UNCHANGED <<size, added, abort, fault, bgr, scaling, target, mem, yuv, lost,
                 source, input, allocated, filled, pts, chn, cache, packets>>

(* It fails: the number is out of range, the channel exists, or a call of  *)
(* do_creat_channel or codec_init fails.  After hi_mpi_venc_create_chn the *)
(* channel stays behind: stop_receive_frame, called by the destructor,     *)
(* leaves an encoder alone that does not work yet.  Init returns 1, as     *)
(* when it succeeds, but starts no thread.                                 *)
StartFails ==
  /\ opc = "new"
  /\ channelId' = GetChannedId
  /\ \/ used' = used
     \/ ChannelFree(GetChannedId) /\ used' = used \cup {GetChannedId}
  /\ pool' = [b \in Buffers |-> b]
  /\ opc' = "threadless"
  /\ UNCHANGED <<size, added, abort, fault, scaleVars, mem, yuv, lost, source, input,
                 encPc, hmevVars, loopPc, packets>>

(* AddVideoFrame of the owner.  Variants of a push: the list is never      *)
(* emptied; the push is at the front.                                      *)
NeverDrop(q, f) == Append(q, f)
PushFirst(q, f) == IF Len(q) > Limit THEN <<f>> ELSE <<f>> \o q
DropPush(q, f) == IF Len(q) > Limit THEN <<f>> ELSE Append(q, f)

AddVideoFrame ==
  /\ opc \in {"open", "threadless"} /\ added < NumFrames
  /\ added' = added + 1
  /\ bgr' = DropPush(bgr, added + 1)
  /\ UNCHANGED <<size, channelId, used, abort, opc, fault, scaling, target, scalePc,
                 bufVars, source, input, encPc, hmevVars, loopPc, packets>>

-----------------------------------------------------------------------------
(* The scale thread, VideoScaleThread.                                     *)

ScaleStep(from, to) ==
  /\ scalePc = from /\ scalePc' = to
  /\ UNCHANGED <<size, channelId, used, added, abort, opc, source, input, encPc,
                 hmevVars, loopPc, packets>>

ScaleTop ==
  /\ ScaleStep("top", IF abort THEN "done" ELSE "enter")
  /\ UNCHANGED <<bgr, scaling, target, bufVars, fault>>

(* Waiting for a picture, at most 100 ms, is going back to the top. *)
ScaleIdle ==
  /\ bgr = <<>> /\ ScaleStep("enter", "top")
  /\ UNCHANGED <<bgr, scaling, target, bufVars, fault>>

ScalePop ==
  /\ bgr # <<>> /\ ScaleStep("enter", "addr")
  /\ scaling' = Head(bgr) /\ bgr' = Tail(bgr)
  /\ UNCHANGED <<target, bufVars, fault>>

(* GetColorAddr looks at abort_ before it looks at the pool.  Variant: it  *)
(* looks at the pool only.                                                 *)
KeepsWaiting == FALSE
GivesUp == abort

ScaleAddr ==
  /\ ScaleStep("addr", IF GivesUp THEN "null" ELSE "try")
  /\ UNCHANGED <<bgr, scaling, target, bufVars, fault>>

ScaleStarved ==
  /\ pool = <<>> /\ ScaleStep("try", "addr")
  /\ UNCHANGED <<bgr, scaling, target, bufVars, fault>>

ScaleTake ==
  /\ pool # <<>> /\ ScaleStep("try", "convert")
  /\ target' = Head(pool) /\ pool' = Tail(pool)
  /\ UNCHANGED <<bgr, scaling, mem, yuv, lost, fault>>

(* The conversion into NULL is refused and CHECK_DVPP_MPI ends the process. *)
ScaleNull ==
  /\ ScaleStep("null", "done")
  /\ fault' = "check"
  /\ UNCHANGED <<bgr, scaling, target, bufVars>>

ScaleConvert ==
  /\ ScaleStep("convert", "push")
  /\ mem' = [mem EXCEPT ![target] = scaling]
  /\ scaling' = 0
  /\ UNCHANGED <<bgr, target, pool, yuv, lost, fault>>

(* A list that is too long gives its buffers back to the pool.  Variant:   *)
(* they are forgotten.                                                     *)
ReturnNone(q) == <<>>
Returned(q) == IF Len(q) > Limit THEN q ELSE <<>>

ScalePush ==
  /\ ScaleStep("push", "top")
  /\ yuv' = DropPush(yuv, target)
  /\ pool' = pool \o Returned(yuv)
  /\ target' = 0
  /\ UNCHANGED <<bgr, scaling, mem, lost, fault>>

Scale == ScaleTop \/ ScaleIdle \/ ScalePop \/ ScaleAddr \/ ScaleStarved
         \/ ScaleTake \/ ScaleNull \/ ScaleConvert \/ ScalePush

-----------------------------------------------------------------------------
(* The encode thread, VideoEncThread.                                      *)

EncStep(from, to) ==
  /\ encPc = from /\ encPc' = to
  /\ UNCHANGED <<startVars, scaleVars, mem, loopPc, packets, cache, watching, polling>>

EncTop ==
  /\ EncStep("top", IF abort THEN "done" ELSE "enter")
  /\ UNCHANGED <<pool, yuv, lost, source, input, freeIn, allocated, filled, pts, chn>>

EncIdle ==
  /\ yuv = <<>> /\ EncStep("enter", "top")
  /\ UNCHANGED <<pool, yuv, lost, source, input, freeIn, allocated, filled, pts, chn>>

EncPop ==
  /\ yuv # <<>> /\ EncStep("enter", "dequeue")
  /\ source' = Head(yuv) /\ yuv' = Tail(yuv)
  /\ UNCHANGED <<pool, lost, input, freeIn, allocated, filled, pts, chn>>

(* Where a search from the front of q finds an item of T, if it does. *)
Found(q, T) == {k \in DOMAIN q : q[k] \in T /\ \A j \in 1..(k - 1) : q[j] \notin T}

(* dequeue_input_buffer takes the first free frame that has memory of the  *)
(* right geometry, or else gives memory to the first free frame; the       *)
(* picture is copied into it.                                              *)
Fitting == Found(freeIn, allocated)
Slot == IF Fitting # {} THEN CHOOSE k \in Fitting : TRUE ELSE 1
Dequeued == freeIn[Slot]

(* alloc_input_buffer. *)
WithMemory == allocated \cup {Dequeued}

(* Variant: the frame is left in the queue.                                *)
StillFree == freeIn
FreeAfterDequeue == RemoveAt(freeIn, Slot)

EncDequeue ==
  /\ freeIn # <<>> /\ EncStep("dequeue", "send")
  /\ input' = Dequeued
  /\ freeIn' = FreeAfterDequeue
  /\ allocated' = WithMemory
  /\ filled' = [filled EXCEPT ![Dequeued] = mem[source]]
  /\ UNCHANGED <<pool, yuv, lost, source, pts, chn>>

(* No input frame is free: the loop goes on with the next picture, and     *)
(* this one's device buffer is in no list any more.                        *)
EncNoInput ==
  /\ freeIn = <<>> /\ EncStep("dequeue", "top")
  /\ lost' = lost \cup {source} /\ source' = 0
  /\ UNCHANGED <<pool, yuv, input, freeIn, allocated, filled, pts, chn>>

(* process_frame: the hardware takes the frame. *)
Processed == Append(chn, [pic |-> filled[input], in |-> input])

PutColorAddr(addr) == Append(pool, addr)

EncSend ==
  /\ EncStep("send", "top")
  /\ chn' = Processed
  /\ pts' = pts \cup {input}
  /\ pool' = PutColorAddr(source)
  /\ source' = 0 /\ input' = 0
  /\ UNCHANGED <<yuv, lost, freeIn, allocated, filled>>

(* It refuses: cancel_frame, and the device buffer is lost as above.       *)
(* Variant: the input frame is not cancelled.                              *)
NotCancelled(i) == freeIn
Cancelled(i) == IF i \in ToSet(freeIn) THEN freeIn ELSE Append(freeIn, i)

EncRefused ==
  /\ EncStep("send", "top") /\ filled[input] \in Refusable
  /\ freeIn' = Cancelled(input)
  /\ lost' = lost \cup {source}
  /\ source' = 0 /\ input' = 0
  /\ UNCHANGED <<pool, yuv, allocated, filled, pts, chn>>

Enc == EncTop \/ EncIdle \/ EncPop \/ EncDequeue \/ EncNoInput \/ EncSend \/ EncRefused

-----------------------------------------------------------------------------
(* The looper thread, HmevLooper::loop.                                    *)

LoopStep(from, to) ==
  /\ loopPc = from /\ loopPc' = to
  /\ UNCHANGED <<startVars, scaleVars, bufVars, source, input, encPc, allocated,
                 filled, watching, polling>>

LoopTop ==
  /\ LoopStep("top", IF polling THEN "wait" ELSE "done")
  /\ UNCHANGED <<freeIn, pts, chn, cache, packets>>

(* The epoll wait ends after 1000 ms, or the handler is not found. *)
LoopTimeout ==
  /\ LoopStep("wait", "top")
  /\ UNCHANGED <<freeIn, pts, chn, cache, packets>>

(* A stream is ready and the handler is looked up under m_lock. *)
LoopEvent ==
  /\ chn # <<>> /\ watching /\ LoopStep("wait", "handle")
  /\ UNCHANGED <<freeIn, pts, chn, cache, packets>>

(* find_match_stream_cache: what is left of the cache when a stream for n  *)
(* packets has been taken from it or made.  Variant: it is never trimmed.  *)
Packs(p) == 1 + (p % 2)
NoTrim(q) == q
Trim(q) == IF Len(q) >= QueueLen THEN Tail(q) ELSE q
CacheWithout(n) ==
  LET match == Found(cache, {n}) IN
  IF match # {} THEN RemoveAt(cache, CHOOSE k \in match : TRUE) ELSE Trim(cache)

Ready == Head(chn)
ReturnedToCache == Append(CacheWithout(Packs(Ready.pic)), Packs(Ready.pic))

(* vencStreamOut gives the packets to the listener; a failure to copy one  *)
(* to the host loses it and the rest.                                      *)
StreamOut == {Append(packets, Ready.pic)}
             \cup (IF Ready.pic \in Uncopied THEN {packets} ELSE {})

(* The query fails, or getting the stream does. *)
StreamFails ==
  /\ LoopStep("handle", "top")
  /\ cache' \in {cache, ReturnedToCache}
  /\ UNCHANGED <<freeIn, pts, chn, packets>>

(* on_encode_stream: the input frame found by its time stamp is free again *)
(* and the stream goes out.  Releasing it may fail; it is not cached then. *)
OnEncodeStream ==
  /\ LoopStep("handle", "top")
  /\ freeIn' = IF Ready.in \in pts THEN Cancelled(Ready.in) ELSE freeIn
  /\ pts' = pts \ {Ready.in}
  /\ chn' = Tail(chn)
  /\ packets' \in StreamOut
  /\ cache' \in {ReturnedToCache, CacheWithout(Packs(Ready.pic))}

Loop == LoopTop \/ LoopTimeout \/ LoopEvent \/ StreamFails \/ OnEncodeStream

-----------------------------------------------------------------------------
(* The destructor of HardVideoEncoder.                                     *)

OwnerStep(from, to) ==
  /\ opc = from /\ opc' = to
  /\ UNCHANGED <<size, channelId, added, scaling, target, scalePc, mem, source, input,
                 encPc, loopPc, packets>>

Destroy ==
  /\ OwnerStep("open", "joinEncode")
  /\ abort' = TRUE
  /\ UNCHANGED <<used, fault, bgr, pool, yuv, lost, hmevVars>>

(* Joining a thread that was never started ends the process. *)
DestroyThreadless ==
  /\ OwnerStep("threadless", "dead")
  /\ abort' = TRUE /\ fault' = "join"
  /\ UNCHANGED <<used, bgr, pool, yuv, lost, hmevVars>>

JoinEncode ==
  /\ encPc = "done" /\ OwnerStep("joinEncode", "joinScale")
  /\ UNCHANGED <<used, abort, fault, bgr, pool, yuv, lost, hmevVars>>

(* The lists are cleared and the buffers of the pool freed; those on       *)
(* yuv_frames_ are not.                                                    *)
JoinScale ==
  /\ scalePc = "done" /\ OwnerStep("joinScale", "removeFd")
  /\ bgr' = <<>> /\ yuv' = <<>> /\ pool' = <<>>
  /\ lost' = lost \cup ToSet(yuv)
  /\ UNCHANGED <<used, abort, fault, hmevVars>>

(* venc_mng_delete: stop_receive_frame removes the handler, ends the       *)
(* looper, and destroys the channel with what is still in it.              *)
RemoveFd ==
  /\ OwnerStep("removeFd", "quit")
  /\ watching' = FALSE
  /\ UNCHANGED <<used, abort, fault, bgr, pool, yuv, lost, freeIn, allocated,
                 filled, pts, chn, cache, polling>>

QuitLooper ==
  /\ OwnerStep("quit", "joinLoop")
  /\ polling' = FALSE
  /\ UNCHANGED <<used, abort, fault, bgr, pool, yuv, lost, freeIn, allocated,
                 filled, pts, chn, cache, watching>>

(* The buffers are freed and the channel is destroyed, if it stops.        *)
StopReceiveFrame ==
  /\ loopPc = "done" /\ OwnerStep("joinLoop", "dead")
  /\ used' \in {used, used \ {channelId}}
  /\ cache' = <<>> /\ freeIn' = <<>> /\ allocated' = {} /\ chn' = <<>>
  /\ UNCHANGED <<abort, fault, bgr, pool, yuv, lost, filled, pts, watching, polling>>

Teardown == JoinEncode \/ JoinScale \/ RemoveFd \/ QuitLooper \/ StopReceiveFrame
Owner == Start \/ StartFails \/ AddVideoFrame \/ Destroy \/ DestroyThreadless \/ Teardown

(* A fault ends the process. *)
Next == fault = "none" /\ (Scale \/ Enc \/ Loop \/ Owner)

(* Every thread runs; streams come out of the hardware and the looper is   *)
(* told of them.                                                           *)
SafeSpec == Init /\ [][Next]_vars
Spec ==
  /\ SafeSpec
  /\ WF_vars(fault = "none" /\ Scale) /\ WF_vars(fault = "none" /\ Enc)
  /\ WF_vars(fault = "none" /\ Teardown)
  /\ WF_vars(fault = "none" /\ (LoopTop \/ LoopTimeout \/ LoopEvent \/ OnEncodeStream))

-----------------------------------------------------------------------------
(* Properties.                                                             *)

ScalePc == {"none", "top", "enter", "addr", "try", "null", "convert", "push", "done"}
EncPc == {"none", "top", "enter", "dequeue", "send", "done"}
LoopPc == {"none", "top", "wait", "handle", "done"}
OwnerPc == {"new", "open", "threadless", "joinEncode", "joinScale", "removeFd", "quit",
            "joinLoop", "dead"}

(* The type of every variable. *)
TypeOK ==
  /\ size \in Sizes /\ channelId \in -1..MaxChn /\ used \subseteq 0..(MaxChn - 1)
  /\ added \in Pictures /\ bgr \in Seq(Pictures) /\ scaling \in Pictures
  /\ target \in {0} \cup Buffers /\ source \in {0} \cup Buffers /\ lost \subseteq Buffers
  /\ pool \in Seq(Buffers) /\ yuv \in Seq(Buffers) /\ mem \in [Buffers -> Pictures]
  /\ freeIn \in Seq(Inputs) /\ input \in {0} \cup Inputs /\ allocated \subseteq Inputs
  /\ filled \in [Inputs -> Pictures] /\ pts \subseteq Inputs
  /\ chn \in Seq([pic : Pictures, in : Inputs]) /\ cache \in Seq({1, 2})
  /\ watching \in BOOLEAN /\ polling \in BOOLEAN /\ abort \in BOOLEAN
  /\ packets \in Seq(Pictures)
  /\ scalePc \in ScalePc /\ encPc \in EncPc /\ loopPc \in LoopPc /\ opc \in OwnerPc
  /\ fault \in {"none", "check", "join"}

One(x) == IF x = 0 THEN <<>> ELSE <<x>>
Alive == opc \in {"open", "joinEncode", "joinScale", "removeFd", "quit", "joinLoop"}

(* While the encoder lives, every device buffer is in the pool, on the     *)
(* list, in one thread, or lost, and in one of them only; every input      *)
(* frame is free, in the encode thread or in the hardware, and one in the  *)
(* hardware is never given away nor written to before its stream is out.   *)
(* The lists and the cache keep their limits, and the pool is large        *)
(* enough: the scale thread starves only when so many buffers have been    *)
(* lost that a full list and one in the encode thread take the rest.       *)
Held == pool \o yuv \o One(target) \o One(source)
HeldInputs == freeIn \o One(input) \o [i \in DOMAIN chn |-> chn[i].in]
Bounded ==
  /\ Len(bgr) <= Limit + 1 /\ Len(yuv) <= Limit + 1
  /\ Len(cache) <= QueueLen
  /\ (scalePc = "try" /\ pool = <<>>) => Cardinality(lost) >= PoolNum - (Limit + 2)
MemoryOwned ==
  /\ TypeOK /\ Bounded
  /\ IsInjective(Held) /\ ToSet(Held) \cap lost = {}
  /\ Alive /\ opc \notin {"removeFd", "quit", "joinLoop"} => ToSet(Held) \cup lost = Buffers
  /\ IsInjective(HeldInputs)
  /\ Alive => ToSet(HeldInputs) = Inputs /\ channelId \in used
  /\ \A i \in DOMAIN chn : filled[chn[i].in] = chn[i].pic

(* The copy of a picture never runs over the end of the input frame, and   *)
(* for the sizes the header asks for (w a multiple of 16, h of 2) its      *)
(* planes lie where the frame says they do.                                *)
CopyFits ==
  input # 0 =>
    /\ OutBufferSize(size) <= VbSize(size)
    /\ (size.w % 16 = 0 /\ size.h % 2 = 0) =>
         /\ MainStride(size) = size.w
         /\ MainYSize(size) = size.w * size.h
         /\ OutBufferSize(size) = VbSize(size)

(* A destructor that has started returns, unless a check ends the process, *)
(* and then no thread is left and the listener is not called again.        *)
DestructorReturns ==
  (opc = "joinEncode")
    ~> \/ fault # "none"
       \/ [](opc = "dead" /\ scalePc = "done" /\ encPc = "done" /\ loopPc = "done")

(* The encoder as a channel that may lose pictures but not reorder them,   *)
(* through two kinds of buffers that are used again.                       *)
Encoding == IF input # 0 THEN <<filled[input]>>
            ELSE IF source # 0 THEN <<mem[source]>> ELSE <<>>
LF == INSTANCE LossyFifo WITH
        inside <- [i \in DOMAIN chn |-> chn[i].pic] \o Encoding
                  \o [i \in DOMAIN yuv |-> mem[yuv[i]]]
                  \o (IF scalePc = "push" THEN <<mem[target]>> ELSE <<>>)
                  \o One(scaling) \o bgr,
        out <- packets,
        sent <- added

DvppIsFifo == LF!Spec
=============================================================================
