---------------------------- MODULE VideoEncoder ----------------------------
(***************************************************************************)
(* The FFmpeg video encoder: HardCodec/Encoder/H264FFSoftEncoder.cpp, and  *)
(* H264FFHardEncoder.cpp, which differs only in the codec it opens.        *)
(*                                                                         *)
(* The owner (the decoder's callback in Warpper/MediaWrapper.cpp) puts     *)
(* pictures on bgr_frames_.  The scale thread converts each to a frame it  *)
(* allocates and puts that on yuv_frames_; the encode thread sends it to   *)
(* the codec, calls the listener for each packet the codec gives, and      *)
(* frees the frame.  A list that is too long when something is added to it *)
(* is emptied first.  The destructor joins both threads; the encode thread *)
(* flushes the codec before it ends.                                       *)
(*                                                                         *)
(* A picture, its frame and its packet are one number.  The codec is       *)
(* external: it keeps Latency frames back, may refuse one, and may fail    *)
(* where the encoder asks it for a packet.                                 *)
(***************************************************************************)
EXTENDS Integers, Sequences, FiniteSets, SequencesExt

CONSTANTS
  Sizes,      \* Sizes[f]: width and height of the f-th picture; its length bounds the run
  Limit,      \* a longer list is emptied before a push (5 in the code)
  Latency,    \* frames the codec keeps back until it is flushed
  Refusable,  \* the pictures for which, or after which, the codec may fail
  TicksPerMs, \* resolution of the steady clock
  MaxTicks    \* bound: how far the clock runs

ASSUME EncoderAssumption ==
  /\ Sizes \in Seq([w : Nat, h : Nat])
  /\ Limit \in Nat /\ Latency \in Nat
  /\ Refusable \subseteq Nat
  /\ TicksPerMs \in Nat \ {0} /\ MaxTicks \in Nat

NumFrames == Len(Sizes)

VARIABLES
  added,     \* pictures the owner has added
  bgr,       \* bgr_frames_
  scaling,   \* the picture the scale thread has popped (0: none)
  context,   \* the source size sws_context_ was made for
  lastWidth, \* last_width, a local of the scale thread (0: no picture yet)
  yuv,       \* yuv_frames_
  heap,      \* the frames allocated and not freed
  encoding,  \* the frame the encode thread has popped (0: none)
  codec,     \* frames the codec has accepted and not given back as packets
  packets,   \* history: packets given to the listener, each with its pts and time
  count,     \* nframe_counter_
  accum,     \* time_ts_accum_
  pre,       \* time_pre_
  errors,    \* history: how often avcodec_receive_packet failed in the loop
  cut,       \* history: whether the flush ended with an error
  clock,     \* the steady clock
  abort,     \* abort_
  scalePc,   \* where the scale thread is
  encPc,     \* where the encode thread is
  opc        \* where the owner is

scaleVars == <<scaling, context, lastWidth, scalePc>>
timing == <<count, accum, pre>>
failures == <<errors, cut>>
vars == <<added, bgr, scaleVars, yuv, heap, encoding, codec, packets, timing,
          failures, clock, abort, encPc, opc>>

NoSize == [w |-> 0, h |-> 0]

Init ==
  /\ added = 0 /\ bgr = <<>> /\ scaling = 0
  /\ context = NoSize /\ lastWidth = 0
  /\ yuv = <<>> /\ heap = {} /\ encoding = 0
  /\ codec = <<>> /\ packets = <<>>
  /\ count = 0 /\ accum = 0 /\ pre = 0
  /\ errors = 0 /\ cut = FALSE
  /\ clock = 0
  /\ abort = FALSE
  /\ scalePc = "top" /\ encPc = "top" /\ opc = "ctor"

(* A push that empties a list already longer than Limit first.  Variants:  *)
(* the list is emptied after the push; it is never emptied; the push is at *)
(* the front.                                                              *)
PushFirst(q, f) == IF Len(q) > Limit THEN <<f>> ELSE <<f>> \o q
DropAfter(q, f) == IF Len(q) > Limit THEN <<>> ELSE Append(q, f)
NeverDrop(q, f) == Append(q, f)
DropPush(q, f) == IF Len(q) > Limit THEN <<f>> ELSE Append(q, f)

(* The frames freed by such a push.  Variant: none.                        *)
FreedNone(q) == {}
FreedByPush(q) == IF Len(q) > Limit THEN ToSet(q) ELSE {}

-----------------------------------------------------------------------------
(* The scale thread, VideoScaleThread.                                     *)

ScaleTop ==
  /\ scalePc = "top"
  /\ scalePc' = IF abort THEN "done" ELSE "enter"
  /\ UNCHANGED <<failures, added, bgr, scaling, context, lastWidth, yuv, heap, encoding,
                 codec, packets, timing, clock, abort, encPc, opc>>

ScalePop ==
  /\ scalePc = "enter" /\ bgr # <<>>
  /\ scaling' = Head(bgr)
  /\ bgr' = Tail(bgr)
  /\ scalePc' = "size"
  /\ UNCHANGED <<failures, added, context, lastWidth, yuv, heap, encoding, codec, packets,
                 timing, clock, abort, encPc, opc>>

(* Nothing to scale: wait for a notification, at most 100 ms. *)
ScaleWait ==
  /\ scalePc = "enter" /\ bgr = <<>>
  /\ scalePc' = "wait"
  /\ UNCHANGED <<failures, added, bgr, scaling, context, lastWidth, yuv, heap, encoding,
                 codec, packets, timing, clock, abort, encPc, opc>>

(* Variant: only a new picture ends the wait. *)
ScaleNotified ==
  /\ scalePc = "wait" /\ bgr # <<>>
  /\ scalePc' = "top"
  /\ UNCHANGED <<failures, added, bgr, scaling, context, lastWidth, yuv, heap, encoding,
                 codec, packets, timing, clock, abort, encPc, opc>>

ScaleWake ==
  /\ scalePc = "wait"
  /\ scalePc' = "top"
  /\ UNCHANGED <<failures, added, bgr, scaling, context, lastWidth, yuv, heap, encoding,
                 codec, packets, timing, clock, abort, encPc, opc>>

(* The first picture is compared with the codec's width, which Init took   *)
(* from it, the others with the picture before.  Variant: the width is     *)
(* always compared with the codec's.                                       *)
CodecWidth == Sizes[1].w
FirstWidth == CodecWidth
LastWidth == IF lastWidth = 0 THEN CodecWidth ELSE lastWidth

(* Make the conversion context anew when the width has changed. *)
ScaleSize ==
  /\ scalePc = "size"
  /\ context' = IF LastWidth # Sizes[scaling].w THEN Sizes[scaling] ELSE context
  /\ lastWidth' = Sizes[scaling].w
  /\ scalePc' = "convert"
  /\ UNCHANGED <<failures, added, bgr, scaling, yuv, heap, encoding, codec, packets, timing,
                 clock, abort, encPc, opc>>

(* Allocate a frame and convert the picture into it. *)
ScaleConvert ==
  /\ scalePc = "convert"
  /\ heap' = heap \cup {scaling}
  /\ scalePc' = "push"
  /\ UNCHANGED <<failures, added, bgr, scaling, context, lastWidth, yuv, encoding, codec,
                 packets, timing, clock, abort, encPc, opc>>

ScalePush ==
  /\ scalePc = "push"
  /\ yuv' = DropPush(yuv, scaling)
  /\ heap' = heap \ FreedByPush(yuv)
  /\ scaling' = 0
  /\ scalePc' = "top"
  /\ UNCHANGED <<failures, added, bgr, context, lastWidth, encoding, codec, packets, timing,
                 clock, abort, encPc, opc>>

Scale == ScaleTop \/ ScalePop \/ ScaleWait \/ ScaleWake \/ ScaleSize
         \/ ScaleConvert \/ ScalePush

-----------------------------------------------------------------------------
(* The encode thread, VideoEncThread.                                      *)

(* The loop ends on abort_; what follows it starts with a flush. *)
EncTop ==
  /\ encPc = "top"
  /\ encPc' = IF abort THEN "flush" ELSE "enter"
  /\ UNCHANGED <<failures, added, bgr, scaleVars, yuv, heap, encoding, codec, packets,
                 timing, clock, abort, opc>>

EncPop ==
  /\ encPc = "enter" /\ yuv # <<>>
  /\ encoding' = Head(yuv)
  /\ yuv' = Tail(yuv)
  /\ encPc' = "send"
  /\ UNCHANGED <<failures, added, bgr, scaleVars, heap, codec, packets, timing, clock, abort, opc>>

EncWait ==
  /\ encPc = "enter" /\ yuv = <<>>
  /\ encPc' = "wait"
  /\ UNCHANGED <<failures, added, bgr, scaleVars, yuv, heap, encoding, codec, packets,
                 timing, clock, abort, opc>>

EncWake ==
  /\ encPc = "wait"
  /\ encPc' = "top"
  /\ UNCHANGED <<failures, added, bgr, scaleVars, yuv, heap, encoding, codec, packets,
                 timing, clock, abort, opc>>

(* The codec takes the frame. *)
EncSend ==
  /\ encPc = "send"
  /\ codec' = Append(codec, encoding)
  /\ count' = count + 1
  /\ encPc' = "receive"
  /\ UNCHANGED <<failures, added, bgr, scaleVars, yuv, heap, encoding, packets, accum, pre,
                 clock, abort, opc>>

(* The codec refuses the frame, which is freed.                            *)
EncRefused ==
  /\ encPc = "send" /\ encoding \in Refusable
  /\ heap' = heap \ {encoding}
  /\ encoding' = 0
  /\ encPc' = "top"
  /\ UNCHANGED <<failures, added, bgr, scaleVars, yuv, codec, packets, timing, clock, abort, opc>>

(* The interval since the packet before, in whole milliseconds; the first  *)
(* packet after the first frame starts the count.  Variants: the count     *)
(* starts again with every packet; the interval is taken the wrong way.    *)
StartsAgain == count > 0
StartsCount == count - 1 = 0
SinceSwapped == (pre - clock) \div TicksPerMs
Since == IF StartsCount THEN 0 ELSE (clock - pre) \div TicksPerMs
Sum == IF StartsCount THEN 0 ELSE accum + Since

(* OnVideoEncData for the oldest frame in the codec. *)
Deliver ==
  /\ packets' = Append(packets, [frame |-> Head(codec), pts |-> Sum, at |-> clock])
  /\ codec' = Tail(codec)
  /\ accum' = Sum
  /\ pre' = clock

(* avcodec_receive_packet gives a packet. *)
EncReceive ==
  /\ encPc = "receive" /\ Len(codec) > Latency
  /\ Deliver
  /\ UNCHANGED <<failures, added, bgr, scaleVars, yuv, heap, encoding, count, clock, abort,
                 encPc, opc>>

(* It gives none: the frame is freed. *)
EncAgain ==
  /\ encPc = "receive" /\ Len(codec) <= Latency
  /\ heap' = heap \ {encoding}
  /\ encoding' = 0
  /\ encPc' = "top"
  /\ UNCHANGED <<failures, added, bgr, scaleVars, yuv, codec, packets, timing, clock, abort, opc>>

(* It fails: the loop is left and the frame is freed all the same.  What   *)
(* the codec holds stays there, but for the frame it failed on, which the  *)
(* codec may have given up.                                                *)
EncError ==
  /\ encPc = "receive" /\ encoding \in Refusable
  /\ codec' = codec \/ (codec # <<>> /\ codec' = Tail(codec))
  /\ errors' = errors + 1
  /\ heap' = heap \ {encoding}
  /\ encoding' = 0
  /\ encPc' = "top"
  /\ UNCHANGED <<cut, added, bgr, scaleVars, yuv, packets, timing, clock, abort, opc>>

(* After the loop the codec is flushed packet by packet.  Variant: it is   *)
(* not, the thread just ends.                                              *)
EncFlush ==
  /\ encPc = "flush" /\ codec # <<>>
  /\ Deliver
  /\ UNCHANGED <<failures, added, bgr, scaleVars, yuv, heap, encoding, count, clock, abort,
                 encPc, opc>>

EndAtOnce == encPc = "flush"
Flushed == encPc = "flush" /\ codec = <<>>

EncEnd ==
  /\ Flushed
  /\ encPc' = "done"
  /\ UNCHANGED <<failures, added, bgr, scaleVars, yuv, heap, encoding, codec, packets,
                 timing, clock, abort, opc>>

(* The flush is refused, or a packet of it fails: the thread ends, and the *)
(* frames still in the codec are never given out.                          *)
EncCut ==
  /\ encPc = "flush"
  /\ cut' = TRUE
  /\ encPc' = "done"
  /\ UNCHANGED <<errors, added, bgr, scaleVars, yuv, heap, encoding, codec, packets,
                 timing, clock, abort, opc>>

Enc == EncTop \/ EncPop \/ EncWait \/ EncWake \/ EncSend \/ EncRefused
       \/ EncReceive \/ EncAgain \/ EncError \/ EncFlush \/ EncEnd
       \/ EncCut

-----------------------------------------------------------------------------
(* The owner.                                                              *)

(* Init with the first picture, then SetDataCallback; the threads, started *)
(* by the constructor, have nothing to do until a picture is added.        *)
Open ==
  /\ opc = "ctor" /\ NumFrames > 0
  /\ context' = Sizes[1]
  /\ opc' = "open"
  /\ UNCHANGED <<failures, added, bgr, scaling, lastWidth, scalePc, yuv, heap, encoding, codec,
                 packets, timing, clock, abort, encPc>>

AddVideoFrame ==
  /\ opc = "open" /\ added < NumFrames
  /\ added' = added + 1
  /\ bgr' = DropPush(bgr, added + 1)
  /\ UNCHANGED <<failures, scaleVars, yuv, heap, encoding, codec, packets, timing, clock,
                 abort, encPc, opc>>

Destroy ==
  /\ opc = "open"
  /\ abort' = TRUE
  /\ opc' = "joinEncode"
  /\ UNCHANGED <<failures, added, bgr, scaleVars, yuv, heap, encoding, codec, packets,
                 timing, clock, encPc>>

JoinEncode ==
  /\ opc = "joinEncode" /\ encPc = "done"
  /\ opc' = "joinScale"
  /\ UNCHANGED <<failures, added, bgr, scaleVars, yuv, heap, encoding, codec, packets,
                 timing, clock, abort, encPc>>

(* With both threads gone, free what is left, the codec with it. *)
JoinScale ==
  /\ opc = "joinScale" /\ scalePc = "done"
  /\ bgr' = <<>>
  /\ heap' = heap \ ToSet(yuv)
  /\ yuv' = <<>>
  /\ codec' = <<>>
  /\ opc' = "dead"
  /\ UNCHANGED <<failures, added, scaleVars, encoding, packets, timing, clock, abort, encPc>>

Tick ==
  /\ clock < MaxTicks /\ opc # "dead"
  /\ clock' = clock + 1
  /\ UNCHANGED <<failures, added, bgr, scaleVars, yuv, heap, encoding, codec, packets,
                 timing, abort, encPc, opc>>

Teardown == JoinEncode \/ JoinScale
Owner == Open \/ AddVideoFrame \/ Destroy \/ Teardown
Next == Scale \/ Enc \/ Owner \/ Tick

(* Every thread that can run is run; the owner opens the encoder and waits *)
(* for its destructor, but need neither add pictures nor destroy it.       *)
SafeSpec == Init /\ [][Next]_vars
Spec == SafeSpec /\ WF_vars(Scale) /\ WF_vars(Enc) /\ WF_vars(Teardown)

-----------------------------------------------------------------------------
(* Properties.                                                             *)

FrameNo == 1..NumFrames
SizeSet == {Sizes[f] : f \in FrameNo} \cup {NoSize}
ScalePc == {"top", "enter", "wait", "size", "convert", "push", "done"}
EncPc == {"top", "enter", "wait", "send", "receive", "flush", "done"}
OwnerPc == {"ctor", "open", "joinEncode", "joinScale", "dead"}

(* The type of every variable of the encoder and its threads. *)
TypeOK ==
  /\ added \in 0..NumFrames
  /\ bgr \in Seq(FrameNo) /\ yuv \in Seq(FrameNo) /\ codec \in Seq(FrameNo)
  /\ scaling \in 0..NumFrames /\ encoding \in 0..NumFrames
  /\ context \in SizeSet
  /\ lastWidth \in {z.w : z \in SizeSet}
  /\ heap \in SUBSET FrameNo
  /\ packets \in Seq([frame : FrameNo, pts : Nat, at : Nat])
  /\ errors \in Nat /\ cut \in BOOLEAN
  /\ count \in Nat /\ accum \in Nat /\ pre \in Nat /\ clock \in Nat
  /\ abort \in BOOLEAN
  /\ scalePc \in ScalePc /\ encPc \in EncPc /\ opc \in OwnerPc

One(f) == IF f = 0 THEN <<>> ELSE <<f>>

(* Every frame allocated is owned by exactly one list or thread, and every *)
(* frame a list or a thread holds is allocated: none is leaked, none freed *)
(* twice and none used after it was freed, by the drops, the refusals, the *)
(* encode loop or the destructor.  However slow the threads are, no list   *)
(* grows beyond Limit + 1, so the frames allocated are those of the full   *)
(* list and one in each thread.                                            *)
Held == yuv \o One(encoding) \o (IF scalePc = "push" THEN <<scaling>> ELSE <<>>)
FramesOwned ==
  /\ TypeOK
  /\ heap = ToSet(Held) /\ IsInjective(Held)
  /\ Len(bgr) <= Limit + 1 /\ Cardinality(heap) <= Limit + 3

(* The conversion context a picture is converted with has the picture's    *)
(* width, and was made for this picture or for one added before it.        *)
(* VideoScaleThread says that it makes the context anew when the size      *)
(* changes, but it looks at widths only: when the height alone changes     *)
(* the context is the old one, and this is the only way it can be wrong.   *)
ContextFits ==
  scalePc = "convert" =>
    /\ context.w = Sizes[scaling].w
    /\ \E f \in 1..scaling : context = Sizes[f]

(* The time stamps follow the clock.  Each interval is cut to whole        *)
(* milliseconds and the cut parts are never made up for, so the stamps     *)
(* never run ahead, and lag by less than one millisecond per packet.       *)
PtsLag ==
  \A i \in DOMAIN packets :
    LET first == packets[1]
        elapsed == packets[i].at - first.at
        stamped == (packets[i].pts - first.pts) * TicksPerMs
    IN  /\ stamped <= elapsed
        /\ elapsed - stamped <= (i - 1) * (TicksPerMs - 1)

(* The last picture added is never the one that is dropped: once the owner *)
(* pauses it reaches the codec and stays there or comes out as a packet,   *)
(* unless the encoder is destroyed first or the codec may refuse it.       *)
LastPictureEncoded ==
  (opc = "open" /\ added = NumFrames /\ NumFrames \notin Refusable)
    ~> (abort \/ NumFrames \in ToSet(codec) \cup {packets[i].frame : i \in DOMAIN packets})

(* A destructor that has started returns; no thread is left to call the    *)
(* listener, and every frame the codec had accepted has been given to it   *)
(* but for one for each error in the encode loop, unless the flush itself  *)
(* failed: then what was still in the codec is gone.                       *)
FlushedAtEnd ==
  /\ scalePc = "done" /\ encPc = "done"
  /\ cut \/ count - Len(packets) <= errors
DestructorReturns == (opc = "joinEncode") ~> [](opc = "dead" /\ FlushedAtEnd)

(* Both together: the encoder gets on with what it has. *)
Progress == LastPictureEncoded /\ DestructorReturns

(* The encoder as a channel that may lose pictures but not reorder them. *)
Unsent == IF encPc = "receive" THEN <<>> ELSE One(encoding)
Inside == codec \o (Unsent \o (yuv \o (One(scaling) \o bgr)))
Given == [i \in DOMAIN packets |-> packets[i].frame]

LF == INSTANCE LossyFifo WITH inside <- Inside, out <- Given, sent <- added

EncoderIsFifo == LF!Spec
=============================================================================
