----------------------------- MODULE Dvpp_proofs -----------------------------
(***************************************************************************)
(* Proofs about DvppEncoder and, after it, about DvppDecoder: for any      *)
(* number of pictures and packets of any sizes, any pools and limits, and  *)
(* whatever the hardware refuses or loses.                                 *)
(***************************************************************************)
EXTENDS DvppEncoder, DvppDecoder, FifoLemmas

(***************************************************************************)
(* The invariant: what each thread has in hand where it is, which threads  *)
(* there are where the owner is, and what exists before Init.              *)
(***************************************************************************)
InHand ==
  /\ bgr \in Seq(1..NumFrames)
  /\ fault = "none" => (scaling # 0 <=> scalePc \in {"addr", "try", "null", "convert"})
  /\ target # 0 <=> scalePc \in {"convert", "push"}
  /\ source # 0 <=> encPc \in {"dequeue", "send"}
  /\ input # 0 <=> encPc = "send"
  /\ loopPc = "handle" => chn # <<>>

Threads ==
  /\ opc \in {"new", "threadless"} => scalePc = "none" /\ encPc = "none" /\ loopPc = "none"
  /\ opc \in {"joinScale", "removeFd", "quit", "joinLoop"} => encPc = "done"
  /\ opc \in {"removeFd", "quit", "joinLoop"} => scalePc = "done"
  /\ opc = "dead" => scalePc \in {"none", "done"}
  /\ opc = "dead" /\ fault = "none" =>
       scalePc = "done" /\ encPc = "done" /\ loopPc = "done"

Fresh ==
  /\ opc \in {"new", "threadless"} => yuv = <<>> /\ freeIn = <<>> /\ chn = <<>> /\ lost = {}
  /\ opc = "new" => pool = <<>>

Typed == TypeOK /\ InHand /\ Threads /\ Fresh

LEMMA Constants ==
  /\ NumFrames \in Nat /\ Limit \in Nat /\ PoolNum \in Nat /\ InputNum \in Nat \ {0}
  /\ QueueLen \in Nat \ {0} /\ MaxChn \in Nat \ {0}
  /\ \A f \in Pictures : f # 0 => f \in 1..NumFrames
  /\ \A f \in 1..NumFrames : f \in Pictures /\ f # 0
  /\ 0 \in Pictures
  /\ \A b \in Buffers : b # 0
  /\ \A i \in Inputs : i # 0
  /\ \A s \in Starts : s.id \in -1..MaxChn /\ s.used \subseteq 0..(MaxChn - 1)
BY DvppEncoderAssumption DEF Pictures, Buffers, Inputs

LEMMA InitTyped == Init => Typed
<1> SUFFICES ASSUME Init PROVE Typed OBVIOUS
<1>1. /\ <<>> \in Seq(Pictures) /\ <<>> \in Seq(Buffers) /\ <<>> \in Seq(Inputs)
      /\ <<>> \in Seq(1..NumFrames) /\ <<>> \in Seq({1, 2})
      /\ <<>> \in Seq([pic : Pictures, in : Inputs])
      BY Concat
<1>2. mem \in [Buffers -> Pictures] /\ filled \in [Inputs -> Pictures]
      BY Constants DEF Init
<1>3. channelId \in -1..MaxChn /\ used \subseteq 0..(MaxChn - 1) BY Constants DEF Init
<1>4. /\ bgr \in Seq(Pictures) /\ pool \in Seq(Buffers) /\ yuv \in Seq(Buffers)
      /\ freeIn \in Seq(Inputs) /\ chn \in Seq([pic : Pictures, in : Inputs])
      /\ cache \in Seq({1, 2}) /\ packets \in Seq(Pictures)
      BY <1>1 DEF Init
<1>5. /\ size \in Sizes /\ added \in Pictures /\ scaling \in Pictures
      /\ target \in {0} \cup Buffers /\ source \in {0} \cup Buffers /\ lost \subseteq Buffers
      /\ input \in {0} \cup Inputs /\ allocated \subseteq Inputs /\ pts \subseteq Inputs
      /\ watching \in BOOLEAN /\ polling \in BOOLEAN /\ abort \in BOOLEAN
      /\ scalePc \in ScalePc /\ encPc \in EncPc /\ loopPc \in LoopPc /\ opc \in OwnerPc
      /\ fault \in {"none", "check", "join"}
      BY Constants DEF Init, ScalePc, EncPc, LoopPc, OwnerPc
<1>6. TypeOK BY <1>2, <1>3, <1>4, <1>5 DEF TypeOK
<1>7. InHand BY <1>1 DEF Init, InHand
<1>8. Threads /\ Fresh BY DEF Init, Threads, Fresh
<1> QED BY <1>6, <1>7, <1>8 DEF Typed

LEMMA PushType ==
  ASSUME NEW S, NEW q \in Seq(S), NEW x \in S
  PROVE  DropPush(q, x) \in Seq(S) /\ Len(DropPush(q, x)) <= Limit + 1
<1>1. CASE Len(q) > Limit
  <2>1. DropPush(q, x) = <<x>> BY <1>1 DEF DropPush
  <2>2. <<x>> \in Seq(S) /\ Len(<<x>>) = 1 BY Concat
  <2> QED BY <2>1, <2>2, Constants
<1>2. CASE ~(Len(q) > Limit)
  <2>1. DropPush(q, x) = Append(q, x) BY <1>2 DEF DropPush
  <2>2. Append(q, x) \in Seq(S) /\ Len(Append(q, x)) = Len(q) + 1 /\ Len(q) \in Nat
        BY AppendProperties
  <2> QED BY <1>2, <2>1, <2>2, Constants
<1> QED BY <1>1, <1>2

LEMMA TypedScale ==
  ASSUME Typed, fault = "none", Scale
  PROVE  Typed'
<1> USE DEF Typed, TypeOK, InHand, Threads, Fresh, ScaleStep, hmevVars, bufVars,
            ScalePc, EncPc, LoopPc, OwnerPc
<1>1. CASE ScaleTop BY <1>1 DEF ScaleTop
<1>2. CASE ScaleIdle BY <1>2 DEF ScaleIdle
<1>3. CASE ScalePop
  <2>1. Head(bgr) \in 1..NumFrames /\ Tail(bgr) \in Seq(1..NumFrames)
      BY <1>3, Concat DEF ScalePop
  <2>2. Tail(bgr) \in Seq(Pictures) BY <1>3, Concat DEF ScalePop
  <2>3. scaling' \in Pictures /\ scaling' # 0 BY <1>3, <2>1, Constants DEF ScalePop
  <2> QED BY <1>3, <2>1, <2>2, <2>3 DEF ScalePop
<1>4. CASE ScaleAddr BY <1>4 DEF ScaleAddr, GivesUp
<1>5. CASE ScaleStarved BY <1>5 DEF ScaleStarved
<1>6. CASE ScaleTake
  <2>1. Head(pool) \in Buffers /\ Tail(pool) \in Seq(Buffers) BY <1>6, Concat DEF ScaleTake
  <2>2. target' \in Buffers /\ target' # 0 BY <1>6, <2>1, Constants DEF ScaleTake
  <2> QED BY <1>6, <2>1, <2>2 DEF ScaleTake
<1>7. CASE ScaleNull BY <1>7 DEF ScaleNull
<1>8. CASE ScaleConvert
  <2>1. mem' \in [Buffers -> Pictures] /\ scaling' \in Pictures
        BY <1>8, Constants DEF ScaleConvert
  <2> QED BY <1>8, <2>1 DEF ScaleConvert
<1>9. CASE ScalePush
  <2>1. target \in Buffers BY <1>9 DEF ScalePush
  <2>2. yuv' \in Seq(Buffers) BY <1>9, <2>1, PushType DEF ScalePush
  <2>3. Returned(yuv) \in Seq(Buffers) BY Concat DEF Returned
  <2>4. pool' \in Seq(Buffers) BY <1>9, <2>3, Concat DEF ScalePush
  <2> QED BY <1>9, <2>2, <2>4 DEF ScalePush
<1> QED BY <1>1, <1>2, <1>3, <1>4, <1>5, <1>6, <1>7, <1>8, <1>9 DEF Scale

(* The input frame dequeued, and the free ones after it. *)
LEMMA DequeueType ==
  ASSUME Typed, freeIn # <<>>
  PROVE  /\ Slot \in DOMAIN freeIn /\ Dequeued \in Inputs /\ Dequeued # 0
         /\ Dequeued = freeIn[Slot] /\ FreeAfterDequeue \in Seq(Inputs)
<1>1. freeIn \in Seq(Inputs) BY DEF Typed, TypeOK
<1>2. Len(freeIn) \in Nat /\ Len(freeIn) # 0 /\ DOMAIN freeIn = 1..Len(freeIn)
      BY <1>1, EmptySeq
<1>3. Fitting \subseteq DOMAIN freeIn BY DEF Fitting, Found
<1>4. Slot \in DOMAIN freeIn
  <2>1. CASE Fitting # {}
    <3>1. (CHOOSE k \in Fitting : TRUE) \in Fitting BY <2>1
    <3> QED BY <1>3, <2>1, <3>1 DEF Slot
  <2>2. CASE Fitting = {} BY <1>2, <2>2 DEF Slot
  <2> QED BY <2>1, <2>2
<1>5. freeIn[Slot] \in Inputs BY <1>1, <1>4, ElementOfSeq
<1>6. RemoveAt(freeIn, Slot) \in Seq(Inputs) BY <1>1, <1>4, RemoveItem
<1> QED BY <1>4, <1>5, <1>6, Constants DEF Dequeued, FreeAfterDequeue

LEMMA CancelType ==
  ASSUME Typed, NEW i \in Inputs
  PROVE  Cancelled(i) \in Seq(Inputs)
BY Concat DEF Cancelled, Typed, TypeOK

LEMMA TypedEnc ==
  ASSUME Typed, fault = "none", Enc
  PROVE  Typed'
<1> USE DEF Typed, TypeOK, InHand, Threads, Fresh, EncStep, startVars, scaleVars,
            ScalePc, EncPc, LoopPc, OwnerPc
<1>1. CASE EncTop BY <1>1 DEF EncTop
<1>2. CASE EncIdle BY <1>2 DEF EncIdle
<1>3. CASE EncPop
  <2>1. Head(yuv) \in Buffers /\ Tail(yuv) \in Seq(Buffers) BY <1>3, Concat DEF EncPop
  <2>2. source' \in Buffers /\ source' # 0 BY <1>3, <2>1, Constants DEF EncPop
  <2> QED BY <1>3, <2>1, <2>2 DEF EncPop
<1>4. CASE EncDequeue
  <2>1. freeIn # <<>> /\ encPc = "dequeue" /\ source \in Buffers BY <1>4 DEF EncDequeue
  <2>2. Dequeued \in Inputs /\ Dequeued # 0 /\ FreeAfterDequeue \in Seq(Inputs)
        BY <2>1, DequeueType
  <2>3. input' \in Inputs /\ input' # 0 /\ freeIn' \in Seq(Inputs) /\ allocated' \subseteq Inputs
        BY <1>4, <2>2 DEF EncDequeue, WithMemory
  <2>4. filled' \in [Inputs -> Pictures]
    <3>1. mem[source] \in Pictures BY <2>1
    <3>2. filled' = [filled EXCEPT ![Dequeued] = mem[source]] BY <1>4 DEF EncDequeue
    <3> QED BY <3>1, <3>2
  <2>5. UNCHANGED <<startVars, scaleVars, mem, loopPc, packets, cache, watching, polling,
                    pool, yuv, lost, source, pts, chn>> /\ encPc' = "send"
        BY <1>4 DEF EncDequeue
  <2> QED BY <2>1, <2>3, <2>4, <2>5
<1>5. CASE EncNoInput
  <2>1. lost' \subseteq Buffers /\ source' = 0 BY <1>5 DEF EncNoInput
  <2> QED BY <1>5, <2>1 DEF EncNoInput
<1>6. CASE EncSend
  <2>1. source \in Buffers /\ input \in Inputs BY <1>6 DEF EncSend
  <2> DEFINE f == [pic |-> filled[input], in |-> input]
             F == [pic : Pictures, in : Inputs]
  <2>2. f \in F BY <2>1
  <2>3. chn' = Append(chn, f) /\ chn \in Seq(F) BY <1>6 DEF EncSend, Processed
  <2> HIDE DEF f, F
  <2>4. chn' \in Seq(F) /\ chn' # <<>>
    <3>1. Append(chn, f) \in Seq(F) /\ Len(Append(chn, f)) = Len(chn) + 1 /\ Len(chn) \in Nat
          BY <2>2, <2>3, AppendProperties
    <3> QED BY <2>3, <3>1, EmptySeq
  <2>5. pool' \in Seq(Buffers) BY <1>6, <2>1, Concat DEF EncSend, PutColorAddr
  <2>6. pts' \subseteq Inputs BY <1>6, <2>1 DEF EncSend
  <2>7. UNCHANGED <<startVars, scaleVars, mem, loopPc, packets, cache, watching, polling,
                    yuv, lost, freeIn, allocated, filled>> /\ encPc' = "top" /\ encPc = "send"
        /\ source' = 0 /\ input' = 0
        BY <1>6 DEF EncSend
  <2> QED BY <2>4, <2>5, <2>6, <2>7 DEF F
<1>7. CASE EncRefused
  <2>1. source \in Buffers /\ input \in Inputs BY <1>7 DEF EncRefused
  <2>2. freeIn' \in Seq(Inputs) BY <1>7, <2>1, CancelType DEF EncRefused
  <2>3. lost' \subseteq Buffers BY <1>7, <2>1 DEF EncRefused
  <2> QED BY <1>7, <2>2, <2>3 DEF EncRefused
<1> QED BY <1>1, <1>2, <1>3, <1>4, <1>5, <1>6, <1>7 DEF Enc

(* The cache after a stream has been taken from it or made, and put back. *)
LEMMA CacheType ==
  ASSUME Typed, NEW n \in {1, 2}
  PROVE  /\ CacheWithout(n) \in Seq({1, 2})
         /\ Len(cache) <= QueueLen => Len(CacheWithout(n)) <= QueueLen - 1
         /\ Append(CacheWithout(n), n) \in Seq({1, 2})
         /\ Len(cache) <= QueueLen =>
              Len(CacheWithout(n)) <= QueueLen /\ Len(Append(CacheWithout(n), n)) <= QueueLen
<1>1. cache \in Seq({1, 2}) /\ Len(cache) \in Nat BY DEF Typed, TypeOK
<1> DEFINE match == Found(cache, {n})
           P == {1, 2}
<1> HIDE DEF P
<1>2. CASE match # {}
  <2>1. match \subseteq DOMAIN cache BY DEF Found
  <2> DEFINE k == CHOOSE k \in match : TRUE
  <2>2. k \in match BY <1>2
  <2>3. k \in DOMAIN cache BY <2>1, <2>2
  <2>4. CacheWithout(n) = RemoveAt(cache, k) BY <1>2 DEF CacheWithout
  <2> HIDE DEF k
  <2>5. RemoveAt(cache, k) \in Seq(P) /\ Len(RemoveAt(cache, k)) = Len(cache) - 1
        BY <1>1, <2>3, RemoveItem DEF P
  <2> QED BY <1>1, <2>4, <2>5, Constants, AppendProperties DEF P
<1>3. CASE match = {}
  <2>1. CacheWithout(n) = Trim(cache) BY <1>3 DEF CacheWithout
  <2>2. CASE Len(cache) >= QueueLen
    <3>1. cache # <<>> BY <1>1, <2>2, Constants, EmptySeq
    <3>2. Tail(cache) \in Seq(P) /\ Len(Tail(cache)) = Len(cache) - 1
          BY <1>1, <3>1, HeadTailProperties DEF P
    <3> QED BY <1>1, <2>1, <2>2, <3>2, Constants, AppendProperties DEF P, Trim
  <2>3. CASE ~(Len(cache) >= QueueLen)
        BY <1>1, <2>1, <2>3, Constants, AppendProperties DEF P, Trim
  <2> QED BY <2>2, <2>3
<1> QED BY <1>2, <1>3

LEMMA PackCount == \A p \in Pictures : Packs(p) \in {1, 2}
<1>1. \A p \in Nat : p % 2 \in {0, 1} OBVIOUS
<1> QED BY <1>1, Constants DEF Pictures, Packs

(* The frame whose stream is ready. *)
Frame == [pic : Pictures, in : Inputs]

LEMMA ReadyType ==
  ASSUME Typed, chn # <<>>
  PROVE  /\ Ready \in Frame /\ Ready.pic \in Pictures /\ Ready.in \in Inputs
         /\ Tail(chn) \in Seq(Frame) /\ Packs(Ready.pic) \in {1, 2}
<1>1. chn \in Seq(Frame) BY DEF Typed, TypeOK, Frame
<1>2. Ready \in Frame /\ Tail(chn) \in Seq(Frame) BY <1>1, Concat DEF Ready
<1>3. Ready.pic \in Pictures /\ Ready.in \in Inputs BY <1>2 DEF Frame
<1> QED BY <1>2, <1>3, PackCount

LEMMA TypedLoop ==
  ASSUME Typed, fault = "none", Loop
  PROVE  Typed'
<1> USE DEF Typed, TypeOK, InHand, Threads, Fresh, LoopStep, startVars, scaleVars, bufVars,
            ScalePc, EncPc, LoopPc, OwnerPc
<1>1. CASE LoopTop BY <1>1 DEF LoopTop
<1>2. CASE LoopTimeout BY <1>2 DEF LoopTimeout
<1>3. CASE LoopEvent BY <1>3 DEF LoopEvent
<1>4. CASE StreamFails
  <2>1. chn # <<>> BY <1>4 DEF StreamFails
  <2>2. cache' \in Seq({1, 2})
    <3>1. ReturnedToCache \in Seq({1, 2}) BY <2>1, ReadyType, CacheType DEF ReturnedToCache
    <3> QED BY <1>4, <3>1 DEF StreamFails
  <2> QED BY <1>4, <2>2 DEF StreamFails
<1>5. CASE OnEncodeStream
  <2>1. chn # <<>> BY <1>5 DEF OnEncodeStream
  <2>2. Ready.pic \in Pictures /\ Ready.in \in Inputs /\ Packs(Ready.pic) \in {1, 2}
        /\ Tail(chn) \in Seq([pic : Pictures, in : Inputs])
        BY <2>1, ReadyType DEF Frame
  <2>3. freeIn' \in Seq(Inputs) BY <1>5, <2>2, CancelType DEF OnEncodeStream
  <2>4. packets' \in Seq(Pictures)
    <3>1. Append(packets, Ready.pic) \in Seq(Pictures) BY <2>2, Concat
    <3> QED BY <1>5, <3>1 DEF OnEncodeStream, StreamOut
  <2>5. cache' \in Seq({1, 2})
    <3>1. /\ ReturnedToCache \in Seq({1, 2})
          /\ CacheWithout(Packs(Ready.pic)) \in Seq({1, 2})
          BY <2>2, CacheType DEF ReturnedToCache
    <3> QED BY <1>5, <3>1 DEF OnEncodeStream
  <2>6. /\ chn' = Tail(chn) /\ pts' \subseteq Inputs /\ loopPc = "handle" /\ loopPc' = "top"
        /\ UNCHANGED <<startVars, scaleVars, bufVars, source, input, encPc, allocated,
                       filled, watching, polling>>
        BY <1>5 DEF OnEncodeStream
  <2> QED BY <2>2, <2>3, <2>4, <2>5, <2>6
<1> QED BY <1>1, <1>2, <1>3, <1>4, <1>5 DEF Loop

LEMMA ChannelType ==
  ASSUME Typed
  PROVE  /\ GetChannedId \in -1..MaxChn
         /\ ChannelFree(GetChannedId) => GetChannedId \in 0..(MaxChn - 1)
BY Constants DEF Typed, TypeOK, GetChannedId, ChannelFree

LEMMA AllBuffers ==
  /\ [b \in Buffers |-> b] \in Seq(Buffers) /\ ToSet([b \in Buffers |-> b]) = Buffers
  /\ IsInjective([b \in Buffers |-> b])
  /\ InputFrames \in Seq(Inputs) /\ ToSet(InputFrames) = Inputs /\ IsInjective(InputFrames)
<1>1. \A n \in Nat : [b \in 1..n |-> b] \in Seq(1..n) OBVIOUS
<1>2. [b \in Buffers |-> b] \in Seq(Buffers) /\ InputFrames \in Seq(Inputs)
      BY <1>1, Constants DEF Buffers, Inputs, InputFrames
<1>3. ToSet([b \in Buffers |-> b]) = Buffers /\ IsInjective([b \in Buffers |-> b])
      BY DEF ToSet, IsInjective
<1>4. ToSet(InputFrames) = Inputs /\ IsInjective(InputFrames)
      BY DEF ToSet, IsInjective, InputFrames
<1> QED BY <1>2, <1>3, <1>4

LEMMA TypedOwner ==
  ASSUME Typed, fault = "none", Owner
  PROVE  Typed'
<1> USE DEF Typed, TypeOK, InHand, Threads, Fresh, OwnerStep, startVars, scaleVars, bufVars,
            hmevVars, ScalePc, EncPc, LoopPc, OwnerPc
<1>1. CASE Start
  <2>1. channelId' \in -1..MaxChn /\ used' \subseteq 0..(MaxChn - 1)
        BY <1>1, ChannelType DEF Start
  <2>2. pool' \in Seq(Buffers) /\ freeIn' \in Seq(Inputs) BY <1>1, AllBuffers DEF Start
  <2>3. /\ scalePc = "none" /\ encPc = "none" /\ loopPc = "none"
        /\ scalePc' = "top" /\ encPc' = "top" /\ loopPc' = "top" /\ opc' = "open"
        /\ watching' \in BOOLEAN /\ polling' \in BOOLEAN
        /\ UNCHANGED <<size, added, abort, fault, bgr, scaling, target, mem, yuv, lost,
                       source, input, allocated, filled, pts, chn, cache, packets>>
        BY <1>1 DEF Start, CreateEpoll, AddFd
  <2> QED BY <2>1, <2>2, <2>3
<1>2. CASE StartFails
  <2>1. channelId' \in -1..MaxChn /\ used' \subseteq 0..(MaxChn - 1)
        BY <1>2, ChannelType DEF StartFails
  <2>2. pool' \in Seq(Buffers) BY <1>2, AllBuffers DEF StartFails
  <2> QED BY <1>2, <2>1, <2>2 DEF StartFails
<1>3. CASE AddVideoFrame
  <2>1. added + 1 \in Pictures /\ added + 1 \in 1..NumFrames
        BY <1>3, Constants DEF AddVideoFrame, Pictures
  <2>2. bgr' \in Seq(Pictures) /\ bgr' \in Seq(1..NumFrames)
        BY <1>3, <2>1, PushType DEF AddVideoFrame
  <2> QED BY <1>3, <2>1, <2>2 DEF AddVideoFrame
<1>4. CASE Destroy BY <1>4 DEF Destroy
<1>5. CASE DestroyThreadless BY <1>5 DEF DestroyThreadless
<1>6. CASE JoinEncode BY <1>6 DEF JoinEncode
<1>7. CASE JoinScale
  <2>1. ToSet(yuv) \subseteq Buffers
    <3>1. ToSet(yuv) \in SUBSET Buffers BY SetOf
    <3> QED BY <3>1
  <2>2. /\ <<>> \in Seq(Pictures) /\ <<>> \in Seq(Buffers) /\ <<>> \in Seq(1..NumFrames)
        BY Concat
  <2> QED BY <1>7, <2>1, <2>2 DEF JoinScale
<1>8. CASE RemoveFd BY <1>8 DEF RemoveFd
<1>9. CASE QuitLooper BY <1>9 DEF QuitLooper
<1>10. CASE StopReceiveFrame
  <2>1. /\ <<>> \in Seq({1, 2}) /\ <<>> \in Seq(Inputs)
        /\ <<>> \in Seq([pic : Pictures, in : Inputs])
        BY Concat
  <2>2. /\ cache' = <<>> /\ freeIn' = <<>> /\ allocated' = {} /\ chn' = <<>>
        /\ used' \subseteq 0..(MaxChn - 1) /\ loopPc = "done"
        /\ opc = "joinLoop" /\ opc' = "dead"
        /\ UNCHANGED <<size, channelId, added, scaling, target, scalePc, mem, source, input,
                       encPc, loopPc, packets, abort, fault, bgr, pool, yuv, lost, filled, pts,
                       watching, polling>>
        BY <1>10 DEF StopReceiveFrame
  <2>3. TypeOK' BY <2>1, <2>2
  <2> QED BY <2>2, <2>3
<1> QED BY <1>1, <1>2, <1>3, <1>4, <1>5, <1>6, <1>7, <1>8, <1>9, <1>10 DEF Owner, Teardown

LEMMA TypedStutter == Typed /\ UNCHANGED vars => Typed'
<1> SUFFICES ASSUME Typed, UNCHANGED vars PROVE Typed'
  OBVIOUS
<1>1. UNCHANGED <<bgr, scaling, target, scalePc, pool, mem, yuv, lost, freeIn, allocated, filled,
                  pts, chn, cache, watching, polling, size, channelId, used, added, abort, opc,
                  fault, source, input, encPc, loopPc, packets>>
  BY DEF vars, startVars, scaleVars, bufVars, hmevVars
<1>2. TypeOK'
  BY <1>1 DEF Typed, TypeOK
<1>3. InHand'
  BY <1>1 DEF Typed, InHand
<1>4. Threads' /\ Fresh'
  BY <1>1 DEF Typed, Threads, Fresh
<1>5. QED
  BY <1>2, <1>3, <1>4 DEF Typed

LEMMA StepTyped == Typed /\ [Next]_vars => Typed'
BY TypedStutter, TypedScale, TypedEnc, TypedLoop, TypedOwner DEF Next

(***************************************************************************)
(* Every variable keeps its type.                                          *)
(***************************************************************************)
THEOREM TypeCorrect == SafeSpec => []TypeOK
<1>1. Typed => TypeOK BY DEF Typed
<1> QED BY <1>1, InitTyped, StepTyped, PTL DEF SafeSpec

(***************************************************************************)
(* Sizes.  Rounding up to a multiple.                                      *)
(***************************************************************************)
LEMMA Division ==
  \A a \in Nat, t \in Nat \ {0} :
    a \div t \in Nat /\ (a \div t) * t <= a /\ a - (a \div t) * t <= t - 1
OBVIOUS

LEMMA Monotone ==
  ASSUME NEW a \in Nat, NEW b \in Nat, NEW c \in Nat, NEW d \in Nat, a <= c, b <= d
  PROVE  a * b \in Nat /\ c * d \in Nat /\ a * b <= c * d
<1>1. a * b <= c * b OBVIOUS
<1>2. c * b <= c * d OBVIOUS
<1>3. a * b \in Nat /\ c * d \in Nat /\ c * b \in Nat OBVIOUS
<1> QED BY <1>1, <1>2, <1>3

LEMMA RoundedUp ==
  ASSUME NEW x \in Nat, NEW a \in Nat \ {0}
  PROVE  /\ AlignUp(x, a) \in Nat /\ AlignUp(x, a) >= x
         /\ \A m \in Nat : x = m * a => AlignUp(x, a) = x
<1> DEFINE y == x + a - 1
           q == y \div a
<1>1. y \in Nat /\ AlignUp(x, a) = q * a BY DEF AlignUp
<1> HIDE DEF y
<1>2. q \in Nat /\ q * a \in Nat /\ q * a <= y /\ y - q * a <= a - 1
  <2>1. q \in Nat /\ q * a <= y /\ y - q * a <= a - 1 BY <1>1, Division
  <2> HIDE DEF q
  <2>2. q * a \in Nat BY <2>1
  <2> QED BY <2>1, <2>2
<1>3. q * a >= x BY <1>2 DEF y
<1>4. ASSUME NEW m \in Nat, x = m * a PROVE q * a = x
  <2> HIDE DEF q
  <2>1. m <= q
    <3>1. CASE q + 1 <= m
      <4>1. (q + 1) * a <= m * a BY <1>2, <3>1, Monotone
      <4>2. (q + 1) * a = q * a + a BY <1>2
      <4> QED BY <1>2, <1>4, <4>1, <4>2 DEF y
    <3> QED BY <1>2, <3>1
  <2>2. q <= m
    <3>1. CASE m + 1 <= q
      <4>1. (m + 1) * a <= q * a BY <1>2, <3>1, Monotone
      <4>2. (m + 1) * a = m * a + a OBVIOUS
      <4> QED BY <1>2, <1>4, <4>1, <4>2 DEF y
    <3> QED BY <1>2, <3>1
  <2>3. q = m BY <1>2, <2>1, <2>2
  <2> QED BY <1>4, <2>3
<1> QED BY <1>1, <1>2, <1>3, <1>4

LEMMA Multiples ==
  ASSUME NEW x \in Nat, NEW a \in Nat \ {0}, NEW b \in Nat \ {0}, x % b = 0, b % a = 0
  PROVE  \E m \in Nat : x = m * a
<1>1. ASSUME NEW u \in Nat, NEW t \in Nat \ {0}, u % t = 0
      PROVE  \E k \in Nat : u = k * t
  <2> DEFINE k == u \div t
  <2>1. k \in Nat /\ u = k * t BY <1>1
  <2> QED BY <2>1
<1>2. PICK k \in Nat : x = k * b BY <1>1
<1>3. PICK l \in Nat : b = l * a BY <1>1
<1>4. x = k * (l * a) BY <1>2, <1>3
<1>5. k * (l * a) = (k * l) * a /\ k * l \in Nat OBVIOUS
<1> QED BY <1>4, <1>5

LEMMA Fits ==
  ASSUME NEW z \in [w : Nat, h : Nat]
  PROVE  /\ OutBufferSize(z) <= VbSize(z)
         /\ 16 % Align = 0 /\ z.w % 16 = 0 /\ z.h % 2 = 0 =>
              /\ MainStride(z) = z.w /\ MainYSize(z) = z.w * z.h
              /\ OutBufferSize(z) = VbSize(z)
<1> DEFINE w == z.w
           h == z.h
           W == AlignUp(w, Align)
           H == AlignUp(h, 2)
<1>1. w \in Nat /\ h \in Nat /\ Align \in Nat \ {0} BY DvppEncoderAssumption
<1> HIDE DEF w, h
<1>2. W \in Nat /\ H \in Nat /\ w <= W /\ h <= H BY <1>1, RoundedUp
<1>3. /\ MainStride(z) = W /\ MainYSize(z) = W * H
      /\ OutBufferSize(z) = (w * h * 3) \div 2 /\ VbSize(z) = ((W * H) * 3) \div 2
      BY DEF MainStride, MainYSize, OutBufferSize, VbSize, w, h
<1> HIDE DEF W, H
<1>4. w * h \in Nat /\ W * H \in Nat /\ w * h <= W * H BY <1>1, <1>2, Monotone
<1>5. \A m, n \in Nat : m <= n => (m * 3) \div 2 <= (n * 3) \div 2 OBVIOUS
<1>6. OutBufferSize(z) <= VbSize(z) BY <1>3, <1>4, <1>5
<1>7. ASSUME 16 % Align = 0, w % 16 = 0, h % 2 = 0 PROVE W = w /\ H = h
  <2> DEFINE b == 16
  <2>1. b \in Nat \ {0} /\ w % b = 0 /\ b % Align = 0 BY <1>7
  <2> HIDE DEF b
  <2>2. PICK m \in Nat : w = m * Align BY <1>1, <2>1, Multiples
  <2>3. PICK n \in Nat : h = n * 2 BY <1>1, <1>7
  <2>4. W = w BY <1>1, <2>2, RoundedUp DEF W
  <2>5. H = h
    <3> DEFINE t == 2
    <3>1. t \in Nat \ {0} /\ h = n * t /\ H = AlignUp(h, t) BY <2>3 DEF H
    <3> HIDE DEF t
    <3> QED BY <1>1, <3>1, RoundedUp
  <2> QED BY <2>4, <2>5
<1> QED BY <1>3, <1>6, <1>7 DEF w, h

(***************************************************************************)
(* Whatever the size of the pictures: the copy of one never runs over the  *)
(* end of the input frame.  For the sizes the header asks for, its planes  *)
(* lie where the frame says, if the alignment of the SDK divides 16.       *)
(***************************************************************************)
THEOREM CopyAlwaysFits ==
  ASSUME 16 % Align = 0
  PROVE  SafeSpec => []CopyFits
<1>1. Typed => CopyFits
  <2>1. Typed => size \in [w : Nat, h : Nat] BY DvppEncoderAssumption DEF Typed, TypeOK
  <2> QED BY <2>1, Fits DEF CopyFits
<1> QED BY <1>1, InitTyped, StepTyped, PTL DEF SafeSpec

(***************************************************************************)
(* The device buffers.  The places one can be in exclude each other, and   *)
(* make up the pool until the lists are cleared.                           *)
(***************************************************************************)
InPool == ToSet(pool)
InYuv == ToSet(yuv)

Apart ==
  /\ IsInjective(pool) /\ IsInjective(yuv)
  /\ InPool \cap InYuv = {} /\ InPool \cap lost = {} /\ InYuv \cap lost = {}
  /\ target # 0 => target \notin InPool \cup InYuv \cup lost \cup {source}
  /\ source # 0 => source \notin InPool \cup InYuv \cup lost

Complete ==
  opc \in {"open", "joinEncode", "joinScale"} =>
    Buffers \subseteq InPool \cup InYuv \cup lost \cup {target, source}

Short == Len(bgr) <= Limit + 1 /\ Len(yuv) <= Limit + 1 /\ Len(cache) <= QueueLen

BufInv == Typed /\ Apart /\ Complete /\ Short

LEMMA BufStutter ==
  ASSUME BufInv, UNCHANGED <<pool, yuv, lost, target, source, bgr, cache>>,
         opc' = opc \/ opc \in {"open", "joinEncode"} \/ opc' \notin {"open", "joinEncode", "joinScale"}
  PROVE  Apart' /\ Complete' /\ Short'
<1>1. InPool' = InPool /\ InYuv' = InYuv BY DEF InPool, InYuv
<1>2. Apart' BY <1>1 DEF BufInv, Apart
<1>3. Complete' BY <1>1 DEF BufInv, Complete
<1> QED BY <1>2, <1>3 DEF BufInv, Short

LEMMA BufScale ==
  ASSUME BufInv, Typed', fault = "none", Scale
  PROVE  Apart' /\ Complete' /\ Short'
<1> USE DEF ScaleStep, bufVars, hmevVars
<1>1. CASE ScaleTop \/ ScaleIdle \/ ScaleAddr \/ ScaleStarved \/ ScaleNull
  <2>1. UNCHANGED <<pool, yuv, lost, target, source, bgr, cache, opc>>
        BY <1>1 DEF ScaleTop, ScaleIdle, ScaleAddr, ScaleStarved, ScaleNull
  <2> QED BY <2>1, BufStutter
<1>2. CASE ScalePop
  <2>1. UNCHANGED <<pool, yuv, lost, target, source, cache, opc>> /\ bgr # <<>> /\ bgr' = Tail(bgr)
        BY <1>2 DEF ScalePop
  <2>2. InPool' = InPool /\ InYuv' = InYuv BY <2>1 DEF InPool, InYuv
  <2>3. Len(bgr') <= Limit + 1
    <3>1. bgr \in Seq(Pictures) BY DEF BufInv, Typed, TypeOK
    <3>2. Len(bgr') = Len(bgr) - 1 /\ Len(bgr) \in Nat BY <2>1, <3>1, HeadTailProperties
    <3> QED BY <3>2, Constants DEF BufInv, Short
  <2>4. Apart' BY <2>1, <2>2 DEF BufInv, Apart
  <2>5. Complete' BY <2>1, <2>2 DEF BufInv, Complete
  <2> QED BY <2>1, <2>3, <2>4, <2>5 DEF BufInv, Short
<1>3. CASE ScaleTake
  <2>1. /\ pool # <<>> /\ target' = Head(pool) /\ pool' = Tail(pool) /\ target = 0
        /\ UNCHANGED <<yuv, lost, source, bgr, cache, opc>>
        BY <1>3 DEF ScaleTake, BufInv, Typed, InHand
  <2>2. pool \in Seq(Buffers) /\ Head(pool) \in Buffers
      BY <2>1, Concat DEF BufInv, Typed, TypeOK
  <2>3. target' \in InPool /\ IsInjective(pool)' /\ InPool' = InPool \ {target'}
    <3>1. /\ Head(pool) \in ToSet(pool) /\ IsInjective(Tail(pool))
          /\ ToSet(Tail(pool)) = ToSet(pool) \ {Head(pool)}
          BY <2>1, <2>2, ItemsPop DEF BufInv, Apart
    <3> QED BY <2>1, <3>1 DEF InPool
  <2>4. target' # 0 BY <2>1, <2>2, Constants
  <2>5. InYuv' = InYuv BY <2>1 DEF InYuv
  <2>6. source # 0 => source # target' BY <2>3 DEF BufInv, Apart
  <2>7. Apart' BY <2>1, <2>3, <2>4, <2>5, <2>6 DEF BufInv, Apart
  <2>8. Complete' BY <2>1, <2>3, <2>5, Constants DEF BufInv, Complete
  <2> QED BY <2>1, <2>7, <2>8 DEF BufInv, Short
<1>4. CASE ScaleConvert
  <2>1. UNCHANGED <<pool, yuv, lost, target, source, bgr, cache, opc>> BY <1>4 DEF ScaleConvert
  <2> QED BY <2>1, BufStutter
<1>5. CASE ScalePush
  <2>1. /\ yuv' = DropPush(yuv, target) /\ pool' = pool \o Returned(yuv) /\ target' = 0
        /\ UNCHANGED <<lost, source, bgr, cache, opc>> /\ scalePc = "push"
        BY <1>5 DEF ScalePush
  <2>2. target \in Buffers /\ target # 0 /\ yuv \in Seq(Buffers) /\ pool \in Seq(Buffers)
        BY <2>1, Constants DEF BufInv, Typed, TypeOK, InHand
  <2>3. target \notin InPool \cup InYuv \cup lost \cup {source}
        BY <2>2 DEF BufInv, Apart
  <2>4. Len(yuv') <= Limit + 1 BY <2>1, <2>2, PushType
  <2>5. CASE Len(yuv) > Limit
    <3>1. yuv' = <<target>> /\ pool' = Cat(pool, yuv)
          BY <2>1, <2>5 DEF DropPush, Returned, Cat
    <3>2. InYuv' = {target} /\ IsInjective(yuv)' BY <2>2, <3>1, SetOf DEF InYuv
    <3>3. InPool' = InPool \cup InYuv /\ IsInjective(pool)'
          BY <2>2, <3>1, Halves DEF InPool, InYuv, BufInv, Apart
    <3>4. Apart' BY <2>1, <2>2, <2>3, <3>2, <3>3 DEF BufInv, Apart
    <3>5. Complete' BY <2>1, <3>2, <3>3 DEF BufInv, Complete
    <3> QED BY <2>1, <2>4, <3>4, <3>5 DEF BufInv, Short
  <2>6. CASE ~(Len(yuv) > Limit)
    <3>1. yuv' = Append(yuv, target) /\ pool' = pool
          BY <2>1, <2>2, <2>6, Concat DEF DropPush, Returned
    <3>2. InYuv' = InYuv \cup {target} /\ IsInjective(yuv)'
          BY <2>2, <2>3, <3>1, ItemsAppend DEF InYuv, BufInv, Apart
    <3>3. InPool' = InPool BY <3>1 DEF InPool
    <3>4. Apart' BY <2>1, <2>2, <2>3, <3>1, <3>2, <3>3 DEF BufInv, Apart
    <3>5. Complete' BY <2>1, <3>2, <3>3 DEF BufInv, Complete
    <3> QED BY <2>1, <2>4, <3>4, <3>5 DEF BufInv, Short
  <2> QED BY <2>5, <2>6
<1> QED BY <1>1, <1>2, <1>3, <1>4, <1>5 DEF Scale

LEMMA BufEnc ==
  ASSUME BufInv, Typed', fault = "none", Enc
  PROVE  Apart' /\ Complete' /\ Short'
<1> USE DEF EncStep, startVars, scaleVars
<1>1. CASE EncTop \/ EncIdle \/ EncDequeue
  <2>1. UNCHANGED <<pool, yuv, lost, target, source, bgr, cache, opc>>
        BY <1>1 DEF EncTop, EncIdle, EncDequeue
  <2> QED BY <2>1, BufStutter
<1>2. CASE EncPop
  <2>1. /\ yuv # <<>> /\ source' = Head(yuv) /\ yuv' = Tail(yuv) /\ source = 0
        /\ UNCHANGED <<pool, lost, target, bgr, cache, opc>>
        BY <1>2 DEF EncPop, BufInv, Typed, InHand
  <2>2. yuv \in Seq(Buffers) /\ Head(yuv) \in Buffers BY <2>1, Concat DEF BufInv, Typed, TypeOK
  <2>3. source' \in InYuv /\ IsInjective(yuv)' /\ InYuv' = InYuv \ {source'}
    <3>1. /\ Head(yuv) \in ToSet(yuv) /\ IsInjective(Tail(yuv))
          /\ ToSet(Tail(yuv)) = ToSet(yuv) \ {Head(yuv)}
          BY <2>1, <2>2, ItemsPop DEF BufInv, Apart
    <3> QED BY <2>1, <3>1 DEF InYuv
  <2>4. Len(yuv') <= Limit + 1
    <3>1. Len(yuv') = Len(yuv) - 1 /\ Len(yuv) \in Nat BY <2>1, <2>2, HeadTailProperties
    <3> QED BY <3>1, Constants DEF BufInv, Short
  <2>5. InPool' = InPool BY <2>1 DEF InPool
  <2>6. target # 0 => target # source' BY <2>3 DEF BufInv, Apart
  <2>7. Apart' BY <2>1, <2>3, <2>5, <2>6 DEF BufInv, Apart
  <2>8. Complete' BY <2>1, <2>3, <2>5, Constants DEF BufInv, Complete
  <2> QED BY <2>1, <2>4, <2>7, <2>8 DEF BufInv, Short
<1>3. CASE EncNoInput \/ EncRefused
  <2>1. /\ lost' = lost \cup {source} /\ source' = 0
        /\ UNCHANGED <<pool, yuv, target, bgr, cache, opc>>
        BY <1>3 DEF EncNoInput, EncRefused
  <2>2. source # 0 BY <1>3 DEF EncNoInput, EncRefused, BufInv, Typed, InHand
  <2>3. InPool' = InPool /\ InYuv' = InYuv BY <2>1 DEF InPool, InYuv
  <2>4. Apart' BY <2>1, <2>2, <2>3 DEF BufInv, Apart
  <2>5. Complete' BY <2>1, <2>3 DEF BufInv, Complete
  <2> QED BY <2>1, <2>4, <2>5 DEF BufInv, Short
<1>4. CASE EncSend
  <2>1. /\ pool' = Append(pool, source) /\ source' = 0 /\ source # 0
        /\ UNCHANGED <<yuv, lost, target, bgr, cache, opc>>
        BY <1>4 DEF EncSend, PutColorAddr, BufInv, Typed, InHand
  <2>2. pool \in Seq(Buffers) /\ source \in Buffers BY <2>1 DEF BufInv, Typed, TypeOK
  <2>3. InPool' = InPool \cup {source} /\ IsInjective(pool)'
        BY <2>1, <2>2, ItemsAppend DEF InPool, BufInv, Apart
  <2>4. InYuv' = InYuv BY <2>1 DEF InYuv
  <2>5. Apart' BY <2>1, <2>3, <2>4 DEF BufInv, Apart
  <2>6. Complete' BY <2>1, <2>3, <2>4 DEF BufInv, Complete
  <2> QED BY <2>1, <2>5, <2>6 DEF BufInv, Short
<1> QED BY <1>1, <1>2, <1>3, <1>4 DEF Enc

LEMMA BufLoop ==
  ASSUME BufInv, Typed', fault = "none", Loop
  PROVE  Apart' /\ Complete' /\ Short'
<1> USE DEF LoopStep, startVars, scaleVars, bufVars
<1>1. UNCHANGED <<pool, yuv, lost, target, source, bgr, opc>>
      BY DEF Loop, LoopTop, LoopTimeout, LoopEvent, StreamFails, OnEncodeStream
<1>2. Len(cache') <= QueueLen
  <2>1. CASE LoopTop \/ LoopTimeout \/ LoopEvent
        BY <2>1 DEF LoopTop, LoopTimeout, LoopEvent, BufInv, Short
  <2>2. CASE StreamFails \/ OnEncodeStream
    <3>1. chn # <<>> BY <2>2 DEF StreamFails, OnEncodeStream, BufInv, Typed, InHand
    <3>2. Packs(Ready.pic) \in {1, 2} BY <3>1, ReadyType DEF BufInv
    <3>3. /\ Len(cache) <= QueueLen
          /\ Len(ReturnedToCache) <= QueueLen /\ Len(CacheWithout(Packs(Ready.pic))) <= QueueLen
          BY <3>2, CacheType DEF BufInv, Short, ReturnedToCache
    <3> QED BY <2>2, <3>3 DEF StreamFails, OnEncodeStream
  <2> QED BY <2>1, <2>2 DEF Loop
<1>3. InPool' = InPool /\ InYuv' = InYuv BY <1>1 DEF InPool, InYuv
<1>4. Apart' BY <1>1, <1>3 DEF BufInv, Apart
<1>5. Complete' BY <1>1, <1>3 DEF BufInv, Complete
<1> QED BY <1>1, <1>2, <1>4, <1>5 DEF BufInv, Short

LEMMA BufOwner ==
  ASSUME BufInv, Typed', fault = "none", Owner
  PROVE  Apart' /\ Complete' /\ Short'
<1> USE DEF OwnerStep, startVars, scaleVars, bufVars, hmevVars
<1>1. CASE Start \/ StartFails
  <2>1. /\ pool' = [b \in Buffers |-> b]
        /\ UNCHANGED <<yuv, lost, target, source, bgr, cache>>
        BY <1>1 DEF Start, StartFails
  <2>2. yuv = <<>> /\ lost = {} /\ target = 0 /\ source = 0
        BY <1>1 DEF Start, StartFails, BufInv, Typed, Fresh, Threads, InHand
  <2>3. InPool' = Buffers /\ IsInjective(pool)' BY <2>1, AllBuffers DEF InPool
  <2>4. InYuv' = {} BY <2>1, <2>2, SetOf DEF InYuv
  <2>5. Apart' BY <2>1, <2>2, <2>3, <2>4 DEF BufInv, Apart
  <2>6. Complete' BY <2>3 DEF Complete
  <2> QED BY <2>1, <2>5, <2>6 DEF BufInv, Short
<1>2. CASE AddVideoFrame
  <2>1. bgr' = DropPush(bgr, added + 1) /\ UNCHANGED <<pool, yuv, lost, target, source, cache, opc>>
        BY <1>2 DEF AddVideoFrame
  <2>2. added + 1 \in Pictures /\ bgr \in Seq(Pictures)
        BY <1>2, Constants DEF AddVideoFrame, BufInv, Typed, TypeOK, Pictures
  <2>3. Len(bgr') <= Limit + 1 BY <2>1, <2>2, PushType
  <2>4. InPool' = InPool /\ InYuv' = InYuv BY <2>1 DEF InPool, InYuv
  <2>5. Apart' BY <2>1, <2>4 DEF BufInv, Apart
  <2>6. Complete' BY <2>1, <2>4 DEF BufInv, Complete
  <2> QED BY <2>1, <2>3, <2>5, <2>6 DEF BufInv, Short
<1>3. CASE Destroy \/ DestroyThreadless \/ JoinEncode \/ RemoveFd \/ QuitLooper
  <2>1. /\ UNCHANGED <<pool, yuv, lost, target, source, bgr, cache>>
        /\ opc \in {"open", "joinEncode"} \/ opc' \notin {"open", "joinEncode", "joinScale"}
        BY <1>3 DEF Destroy, DestroyThreadless, JoinEncode, RemoveFd, QuitLooper
  <2> QED BY <2>1, BufStutter
<1>4. CASE JoinScale
  <2>1. /\ bgr' = <<>> /\ yuv' = <<>> /\ pool' = <<>> /\ lost' = lost \cup InYuv
        /\ UNCHANGED <<target, source, cache>> /\ opc' = "removeFd"
        BY <1>4 DEF JoinScale, InYuv
  <2>2. target = 0 /\ source = 0
        BY <1>4 DEF JoinScale, BufInv, Typed, InHand, Threads
  <2>3. InPool' = {} /\ InYuv' = {} /\ IsInjective(pool)' /\ IsInjective(yuv)'
        BY <2>1, SetOf DEF InPool, InYuv
  <2>4. Len(<<>>) = 0 OBVIOUS
  <2>5. Apart' BY <2>1, <2>2, <2>3 DEF Apart
  <2>6. Complete' BY <2>1 DEF Complete
  <2> QED BY <2>1, <2>4, <2>5, <2>6, Constants DEF BufInv, Short
<1>5. CASE StopReceiveFrame
  <2>1. UNCHANGED <<pool, yuv, lost, target, source, bgr>> /\ cache' = <<>> /\ opc' = "dead"
        BY <1>5 DEF StopReceiveFrame
  <2>2. InPool' = InPool /\ InYuv' = InYuv BY <2>1 DEF InPool, InYuv
  <2>3. Len(<<>>) = 0 OBVIOUS
  <2>4. Apart' BY <2>1, <2>2 DEF BufInv, Apart
  <2>5. Complete' BY <2>1 DEF Complete
  <2> QED BY <2>1, <2>3, <2>4, <2>5, Constants DEF BufInv, Short
<1> QED BY <1>1, <1>2, <1>3, <1>4, <1>5 DEF Owner, Teardown

LEMMA StepBuf == BufInv /\ [Next]_vars => BufInv'
<1> SUFFICES ASSUME BufInv, [Next]_vars PROVE BufInv' OBVIOUS
<1>1. Typed' BY StepTyped DEF BufInv
<1>2. CASE UNCHANGED vars
      BY <1>1, <1>2, BufStutter DEF vars, startVars, scaleVars, bufVars, hmevVars, BufInv
<1> QED BY <1>1, <1>2, BufScale, BufEnc, BufLoop, BufOwner DEF Next, BufInv

LEMMA InitBuf == Init => BufInv
<1> SUFFICES ASSUME Init PROVE BufInv OBVIOUS
<1>1. ToSet(<<>>) = {} /\ IsInjective(<<>>) /\ Len(<<>>) = 0 BY SetOf, EmptySeq
<1>2. InPool = {} /\ InYuv = {} BY <1>1 DEF Init, InPool, InYuv
<1>3. Apart BY <1>1, <1>2 DEF Init, Apart
<1>4. Complete BY DEF Init, Complete
<1>5. Short BY <1>1, Constants DEF Init, Short
<1> QED BY <1>3, <1>4, <1>5, InitTyped DEF BufInv

(***************************************************************************)
(* The input frames: free, in the encode thread or in the hardware.  The   *)
(* list of those in the hardware follows the list of what is in it.        *)
(***************************************************************************)
InOf == [f \in Frame |-> f.in]
ChnIns == [i \in DOMAIN chn |-> chn[i].in]
InChn == ToSet(ChnIns)
InFree == ToSet(freeIn)

FramesApart ==
  /\ IsInjective(freeIn) /\ IsInjective(ChnIns) /\ InFree \cap InChn = {}
  /\ input # 0 => input \notin InFree \cup InChn
  /\ InChn \subseteq pts

FramesComplete ==
  Alive => Inputs \subseteq InFree \cup InChn \cup {input} /\ channelId \in used

FramesFilled == \A i \in DOMAIN chn : filled[chn[i].in] = chn[i].pic

FrameInv == Typed /\ FramesApart /\ FramesComplete /\ FramesFilled

LEMMA InList ==
  ASSUME Typed
  PROVE  /\ InOf \in Maps(Frame, Inputs) /\ \A f \in Frame : InOf[f] = f.in
         /\ chn \in Seq(Frame)
         /\ ChnIns = Mapped(chn, InOf) /\ ChnIns \in Seq(Inputs) /\ InChn \in SUBSET Inputs
<1>1. InOf \in Maps(Frame, Inputs) /\ \A f \in Frame : InOf[f] = f.in
      BY DEF InOf, Maps, Frame
<1>2. chn \in Seq(Frame) BY DEF Typed, TypeOK, Frame
<1>3. \A i \in DOMAIN chn : chn[i] \in Frame BY <1>2, ElementOfSeq
<1>4. ChnIns = Mapped(chn, InOf) BY <1>1, <1>3 DEF ChnIns, Mapped
<1>5. Mapped(chn, InOf) \in Seq(Inputs) BY <1>1, <1>2, MappedSeq
<1>6. InChn \in SUBSET Inputs BY <1>4, <1>5, SetOf DEF InChn
<1> QED BY <1>1, <1>2, <1>4, <1>5, <1>6

LEMMA InListNext == Typed' => (ChnIns = Mapped(chn, InOf) /\ chn \in Seq(Frame))'
<1>1. Typed => ChnIns = Mapped(chn, InOf) /\ chn \in Seq(Frame) BY InList
<1> QED BY <1>1, PTL

LEMMA FrameStutter ==
  ASSUME FrameInv, UNCHANGED <<freeIn, input, chn, pts, filled, channelId, used>>, Alive' => Alive
  PROVE  FramesApart' /\ FramesComplete' /\ FramesFilled'
<1>1. ChnIns' = ChnIns /\ InChn' = InChn /\ InFree' = InFree BY DEF ChnIns, InChn, InFree
<1>2. FramesApart' BY <1>1 DEF FrameInv, FramesApart
<1>3. FramesComplete' BY <1>1 DEF FrameInv, FramesComplete
<1>4. FramesFilled' BY DEF FrameInv, FramesFilled
<1> QED BY <1>2, <1>3, <1>4

LEMMA FrameEnc ==
  ASSUME FrameInv, Typed', fault = "none", Enc
  PROVE  FramesApart' /\ FramesComplete' /\ FramesFilled'
<1> USE DEF EncStep, startVars
<1>1. CASE EncTop \/ EncIdle \/ EncPop \/ EncNoInput
  <2>1. UNCHANGED <<freeIn, input, chn, pts, filled, channelId, used, opc>>
        BY <1>1 DEF EncTop, EncIdle, EncPop, EncNoInput
  <2> QED BY <2>1, FrameStutter DEF Alive
<1>2. CASE EncDequeue
  <2>1. /\ freeIn # <<>> /\ input = 0 /\ input' = Dequeued /\ freeIn' = RemoveAt(freeIn, Slot)
        /\ filled' = [filled EXCEPT ![Dequeued] = mem[source]]
        /\ UNCHANGED <<chn, pts, channelId, used, opc>>
        BY <1>2 DEF EncDequeue, FreeAfterDequeue, FrameInv, Typed, InHand
  <2>2. /\ Slot \in DOMAIN freeIn /\ Dequeued \in Inputs /\ Dequeued # 0
        /\ Dequeued = freeIn[Slot] /\ freeIn \in Seq(Inputs)
        BY <2>1, DequeueType DEF FrameInv, Typed, TypeOK
  <2>3. Dequeued \in InFree BY <2>2 DEF InFree, ToSet
  <2>4. IsInjective(freeIn)' /\ InFree' = InFree \ {Dequeued}
        BY <2>1, <2>2, RemoveItem DEF FrameInv, FramesApart, InFree
  <2>5. ChnIns' = ChnIns /\ InChn' = InChn BY <2>1 DEF ChnIns, InChn
  <2>6. FramesApart' BY <2>1, <2>3, <2>4, <2>5 DEF FrameInv, FramesApart
  <2>7. FramesComplete' BY <2>1, <2>3, <2>4, <2>5, Constants DEF FrameInv, FramesComplete, Alive
  <2>8. FramesFilled'
    <3>1. filled \in [Inputs -> Pictures] BY DEF FrameInv, Typed, TypeOK
    <3>2. \A i \in Inputs : i # Dequeued => filled'[i] = filled[i] BY <2>1, <3>1
    <3>3. ASSUME NEW i \in DOMAIN chn PROVE filled'[chn[i].in] = filled[chn[i].in]
      <4>1. chn[i].in \in InChn BY DEF InChn, ChnIns, ToSet
      <4>2. chn[i].in # Dequeued BY <2>3, <4>1 DEF FrameInv, FramesApart
      <4>3. chn[i].in \in Inputs BY <4>1, InList DEF FrameInv
      <4> QED BY <3>2, <4>2, <4>3
    <3> QED BY <2>1, <3>3 DEF FrameInv, FramesFilled
  <2> QED BY <2>6, <2>7, <2>8
<1>3. CASE EncSend
  <2> DEFINE f == [pic |-> filled[input], in |-> input]
  <2>1. /\ chn' = Append(chn, f) /\ pts' = pts \cup {input} /\ input # 0 /\ input' = 0
        /\ UNCHANGED <<freeIn, filled, channelId, used, opc>>
        BY <1>3 DEF EncSend, Processed, FrameInv, Typed, InHand
  <2>2. input \in Inputs BY <2>1 DEF FrameInv, Typed, TypeOK
  <2>3. f \in Frame /\ f.in = input /\ f.pic = filled[input]
        BY <2>2 DEF Frame, FrameInv, Typed, TypeOK
  <2> HIDE DEF f
  <2>4. input \notin InChn /\ input \notin InFree BY <2>1 DEF FrameInv, FramesApart
  <2>5. InChn' = InChn \cup {input} /\ IsInjective(ChnIns)'
    <3>1. InOf[f] = input BY <2>3, InList DEF FrameInv
    <3>2. ChnIns' = Mapped(Append(chn, f), InOf) BY <2>1, InListNext
    <3>3. /\ ToSet(Mapped(Append(chn, f), InOf)) = ToSet(Mapped(chn, InOf)) \cup {InOf[f]}
          /\ IsInjective(Mapped(chn, InOf)) /\ InOf[f] \notin ToSet(Mapped(chn, InOf)) =>
               IsInjective(Mapped(Append(chn, f), InOf))
          BY <2>3, InList, MappedItems DEF FrameInv
    <3>4. ChnIns = Mapped(chn, InOf) BY InList DEF FrameInv
    <3> QED BY <2>4, <3>1, <3>2, <3>3, <3>4 DEF InChn, FrameInv, FramesApart
  <2>6. InFree' = InFree BY <2>1 DEF InFree
  <2>7. FramesApart' BY <2>1, <2>4, <2>5, <2>6 DEF FrameInv, FramesApart
  <2>8. FramesComplete' BY <2>1, <2>5, <2>6 DEF FrameInv, FramesComplete, Alive
  <2>9. FramesFilled'
    <3>1. /\ Len(chn) \in Nat /\ DOMAIN chn = 1..Len(chn)
          /\ DOMAIN chn' = 1..(Len(chn) + 1)
          /\ \A i \in 1..Len(chn) : chn'[i] = chn[i]
          /\ chn'[Len(chn) + 1] = f
      <4>1. chn \in Seq(Frame) /\ Append(chn, f) \in Seq(Frame)
            BY <2>1, InList, InListNext DEF FrameInv
      <4> QED BY <2>1, <2>3, <4>1, AppendProperties
    <3>2. ASSUME NEW i \in DOMAIN chn' PROVE filled'[chn'[i].in] = chn'[i].pic
      <4>1. CASE i = Len(chn) + 1 BY <2>1, <2>3, <3>1, <4>1
      <4>2. CASE i \in 1..Len(chn) BY <2>1, <3>1, <4>2 DEF FrameInv, FramesFilled
      <4> QED BY <3>1, <4>1, <4>2
    <3> QED BY <3>2 DEF FramesFilled
  <2> QED BY <2>7, <2>8, <2>9
<1>4. CASE EncRefused
  <2>1. /\ freeIn' = Cancelled(input) /\ input # 0 /\ input' = 0
        /\ UNCHANGED <<filled, pts, chn, channelId, used, opc>>
        BY <1>4 DEF EncRefused, FrameInv, Typed, InHand
  <2>2. input \in Inputs /\ freeIn \in Seq(Inputs) BY <2>1 DEF FrameInv, Typed, TypeOK
  <2>3. input \notin InFree /\ input \notin InChn BY <2>1 DEF FrameInv, FramesApart
  <2>4. freeIn' = Append(freeIn, input) BY <2>1, <2>3 DEF Cancelled, InFree
  <2>5. InFree' = InFree \cup {input} /\ IsInjective(freeIn)'
        BY <2>2, <2>3, <2>4, ItemsAppend DEF InFree, FrameInv, FramesApart
  <2>6. ChnIns' = ChnIns /\ InChn' = InChn BY <2>1 DEF ChnIns, InChn
  <2>7. FramesApart' BY <2>1, <2>3, <2>5, <2>6 DEF FrameInv, FramesApart
  <2>8. FramesComplete' BY <2>1, <2>5, <2>6 DEF FrameInv, FramesComplete, Alive
  <2>9. FramesFilled' BY <2>1 DEF FrameInv, FramesFilled
  <2> QED BY <2>7, <2>8, <2>9
<1> QED BY <1>1, <1>2, <1>3, <1>4 DEF Enc

LEMMA FrameLoop ==
  ASSUME FrameInv, Typed', fault = "none", Loop
  PROVE  FramesApart' /\ FramesComplete' /\ FramesFilled'
<1> USE DEF LoopStep, startVars
<1>1. CASE LoopTop \/ LoopTimeout \/ LoopEvent \/ StreamFails
  <2>1. UNCHANGED <<freeIn, input, chn, pts, filled, channelId, used, opc>>
        BY <1>1 DEF LoopTop, LoopTimeout, LoopEvent, StreamFails
  <2> QED BY <2>1, FrameStutter DEF Alive
<1>2. CASE OnEncodeStream
  <2> DEFINE r == Ready.in
  <2>1. /\ freeIn' = IF r \in pts THEN Cancelled(r) ELSE freeIn
        /\ pts' = pts \ {r} /\ chn' = Tail(chn) /\ chn # <<>>
        /\ UNCHANGED <<input, filled, channelId, used, opc>>
        BY <1>2 DEF OnEncodeStream, FrameInv, Typed, InHand
  <2>2. Ready \in Frame /\ r \in Inputs /\ freeIn \in Seq(Inputs)
        BY <2>1, ReadyType DEF FrameInv, Typed, TypeOK
  <2>3. r \in InChn /\ InChn' = InChn \ {r} /\ IsInjective(ChnIns)'
    <3>1. InOf[Head(chn)] = r BY <2>2, InList DEF FrameInv, Ready
    <3>2. ChnIns' = Mapped(Tail(chn), InOf) BY <2>1, InListNext
    <3>3. IsInjective(Mapped(chn, InOf)) =>
            /\ InOf[Head(chn)] \in ToSet(Mapped(chn, InOf))
            /\ IsInjective(Mapped(Tail(chn), InOf))
            /\ ToSet(Mapped(Tail(chn), InOf)) = ToSet(Mapped(chn, InOf)) \ {InOf[Head(chn)]}
          BY <2>1, InList, MappedItems DEF FrameInv
    <3>4. ChnIns = Mapped(chn, InOf) BY InList DEF FrameInv
    <3> HIDE DEF r
    <3> QED BY <3>1, <3>2, <3>3, <3>4 DEF InChn, FrameInv, FramesApart
  <2> HIDE DEF r
  <2>4. r \in pts /\ r \notin InFree /\ (input # 0 => input # r)
      BY <2>3 DEF FrameInv, FramesApart
  <2>5. freeIn' = Append(freeIn, r) BY <2>1, <2>4 DEF Cancelled, InFree
  <2>6. InFree' = InFree \cup {r} /\ IsInjective(freeIn)'
        BY <2>2, <2>4, <2>5, ItemsAppend DEF InFree, FrameInv, FramesApart
  <2>7. FramesApart' BY <2>1, <2>3, <2>4, <2>6 DEF FrameInv, FramesApart
  <2>8. FramesComplete' BY <2>1, <2>3, <2>6 DEF FrameInv, FramesComplete, Alive
  <2>9. FramesFilled'
    <3>1. chn \in Seq(Frame) BY InList DEF FrameInv
    <3>2. /\ Len(chn) \in Nat /\ DOMAIN chn = 1..Len(chn)
          /\ Len(Tail(chn)) = Len(chn) - 1 /\ DOMAIN Tail(chn) = 1..Len(Tail(chn))
          /\ \A i \in 1..Len(Tail(chn)) : Tail(chn)[i] = chn[i + 1]
          BY <2>1, <3>1, HeadTailProperties
    <3>3. \A i \in DOMAIN Tail(chn) : i + 1 \in DOMAIN chn /\ Tail(chn)[i] = chn[i + 1]
          BY <3>2
    <3> QED BY <2>1, <3>3 DEF FrameInv, FramesFilled
  <2> QED BY <2>7, <2>8, <2>9
<1> QED BY <1>1, <1>2 DEF Loop

LEMMA FrameOwner ==
  ASSUME FrameInv, Typed', fault = "none", Owner
  PROVE  FramesApart' /\ FramesComplete' /\ FramesFilled'
<1> USE DEF OwnerStep, startVars, hmevVars
<1>1. CASE Start
  <2>1. /\ freeIn' = InputFrames /\ channelId' \in used' /\ opc' = "open"
        /\ UNCHANGED <<input, filled, pts, chn>>
        BY <1>1 DEF Start
  <2>2. chn = <<>> /\ input = 0
        BY <1>1 DEF Start, FrameInv, Typed, Fresh, Threads, InHand
  <2>3. InFree' = Inputs /\ IsInjective(freeIn)' BY <2>1, AllBuffers DEF InFree
  <2>4. ChnIns' = ChnIns /\ InChn' = InChn /\ ChnIns = <<>>
    <3>1. DOMAIN <<>> = {} OBVIOUS
    <3>2. ChnIns = [i \in {} |-> chn[i].in] BY <2>2, <3>1 DEF ChnIns
    <3> QED BY <2>1, <3>2 DEF ChnIns, InChn
  <2>5. InChn = {} BY <2>4, SetOf DEF InChn
  <2>6. FramesApart' BY <2>1, <2>2, <2>3, <2>4, <2>5 DEF FrameInv, FramesApart
  <2>7. FramesComplete' BY <2>1, <2>3 DEF FramesComplete
  <2>8. FramesFilled' BY <2>1 DEF FrameInv, FramesFilled
  <2> QED BY <2>6, <2>7, <2>8
<1>2. CASE StartFails
  <2>1. /\ UNCHANGED <<freeIn, input, filled, pts, chn>> /\ opc' = "threadless"
        BY <1>2 DEF StartFails
  <2>2. ChnIns' = ChnIns /\ InChn' = InChn /\ InFree' = InFree BY <2>1 DEF ChnIns, InChn, InFree
  <2>3. FramesApart' BY <2>1, <2>2 DEF FrameInv, FramesApart
  <2>4. FramesComplete' BY <2>1 DEF FramesComplete, Alive
  <2>5. FramesFilled' BY <2>1 DEF FrameInv, FramesFilled
  <2> QED BY <2>3, <2>4, <2>5
<1>3. CASE AddVideoFrame \/ Destroy \/ DestroyThreadless \/ JoinEncode \/ JoinScale
           \/ RemoveFd \/ QuitLooper
  <2>1. UNCHANGED <<freeIn, input, chn, pts, filled, channelId, used>>
        BY <1>3 DEF AddVideoFrame, Destroy, DestroyThreadless, JoinEncode, JoinScale,
                    RemoveFd, QuitLooper
  <2>2. Alive' => Alive
        BY <1>3 DEF AddVideoFrame, Destroy, DestroyThreadless, JoinEncode, JoinScale,
                    RemoveFd, QuitLooper, Alive
  <2> QED BY <2>1, <2>2, FrameStutter
<1>4. CASE StopReceiveFrame
  <2>1. freeIn' = <<>> /\ chn' = <<>> /\ opc' = "dead" /\ UNCHANGED <<input, pts>>
        BY <1>4 DEF StopReceiveFrame
  <2>2. ToSet(<<>>) = {} /\ IsInjective(<<>>) /\ DOMAIN <<>> = {} BY SetOf
  <2>3. ChnIns' = <<>>
    <3>1. ChnIns' = [i \in {} |-> chn'[i].in] BY <2>1, <2>2 DEF ChnIns
    <3> QED BY <3>1
  <2>4. InFree' = {} /\ InChn' = {} BY <2>1, <2>2, <2>3 DEF InFree, InChn
  <2>5. FramesApart' BY <2>1, <2>2, <2>3, <2>4 DEF FramesApart
  <2>6. FramesComplete' BY <2>1 DEF FramesComplete, Alive
  <2>7. FramesFilled' BY <2>1, <2>2 DEF FramesFilled
  <2> QED BY <2>5, <2>6, <2>7
<1> QED BY <1>1, <1>2, <1>3, <1>4 DEF Owner, Teardown

LEMMA StepFrame == FrameInv /\ [Next]_vars => FrameInv'
<1> SUFFICES ASSUME FrameInv, [Next]_vars PROVE FrameInv' OBVIOUS
<1>1. Typed' BY StepTyped DEF FrameInv
<1>2. CASE UNCHANGED vars
      BY <1>1, <1>2, FrameStutter DEF vars, startVars, hmevVars, Alive, FrameInv
<1>3. CASE Scale
  <2>1. UNCHANGED <<freeIn, input, chn, pts, filled, channelId, used, opc>>
        BY <1>3 DEF Scale, ScaleTop, ScaleIdle, ScalePop, ScaleAddr, ScaleStarved, ScaleTake,
                    ScaleNull, ScaleConvert, ScalePush, ScaleStep, hmevVars
  <2> QED BY <1>1, <2>1, FrameStutter DEF Alive, FrameInv
<1> QED BY <1>1, <1>2, <1>3, FrameEnc, FrameLoop, FrameOwner DEF Next, FrameInv

LEMMA InitFrame == Init => FrameInv
<1> SUFFICES ASSUME Init PROVE FrameInv OBVIOUS
<1>1. ToSet(<<>>) = {} /\ IsInjective(<<>>) /\ DOMAIN <<>> = {} BY SetOf
<1>2. ChnIns = <<>>
  <2>1. ChnIns = [i \in {} |-> chn[i].in] BY <1>1 DEF Init, ChnIns
  <2> QED BY <2>1
<1>3. InFree = {} /\ InChn = {} BY <1>1, <1>2 DEF Init, InFree, InChn
<1>4. FramesApart BY <1>1, <1>2, <1>3 DEF Init, FramesApart
<1>5. FramesComplete BY DEF Init, FramesComplete, Alive
<1>6. FramesFilled BY <1>1 DEF Init, FramesFilled
<1> QED BY <1>4, <1>5, <1>6, InitTyped DEF FrameInv

(***************************************************************************)
(* The pool is large enough: a full list and one buffer in the encode      *)
(* thread are all that is missing in it, but for those lost.               *)
(***************************************************************************)
LEMMA Starved ==
  ASSUME BufInv, scalePc = "try", pool = <<>>
  PROVE  Cardinality(lost) >= PoolNum - (Limit + 2)
<1> USE DEF BufInv, Typed
<1>1. opc \in {"open", "joinEncode", "joinScale"} /\ target = 0
      BY DEF TypeOK, OwnerPc, Threads, InHand
<1>2. InPool = {} BY SetOf DEF InPool
<1>3. Buffers \subseteq (InYuv \cup {source}) \cup (lost \cup {0})
      BY <1>1, <1>2 DEF Complete
<1>4. Buffers \subseteq (InYuv \cup {source}) \cup lost BY <1>3, Constants
<1>5. IsFiniteSet(InYuv) /\ Cardinality(InYuv) <= Limit + 1 /\ Cardinality(InYuv) \in Nat
  <2>1. yuv \in Seq(Buffers) /\ Len(yuv) \in Nat BY DEF TypeOK
  <2>2. IsFiniteSet(InYuv) /\ Cardinality(InYuv) <= Len(yuv) BY <2>1, HowMany DEF InYuv
  <2>3. Cardinality(InYuv) \in Nat BY <2>2, FS_CardinalityType
  <2> QED BY <2>1, <2>2, <2>3, Constants DEF Short
<1>6. IsFiniteSet(Buffers) /\ Cardinality(Buffers) = PoolNum
  <2>1. 1 \in Int /\ PoolNum \in Int /\ PoolNum \in Nat BY Constants
  <2>2. IsFiniteSet(1..PoolNum) /\ Cardinality(1..PoolNum) = PoolNum
        BY <2>1, FS_Interval
  <2> QED BY <2>2 DEF Buffers
<1>7. IsFiniteSet(lost) /\ Cardinality(lost) \in Nat
  <2>1. lost \in SUBSET Buffers BY DEF TypeOK
  <2>2. IsFiniteSet(lost) BY <1>6, <2>1, FS_Subset
  <2> QED BY <2>2, FS_CardinalityType
<1> DEFINE a == InYuv \cup {source}
           u == a \cup lost
<1>8. IsFiniteSet(a) /\ Cardinality(a) \in Nat /\ Cardinality(a) <= Limit + 2
  <2>1. /\ IsFiniteSet(a)
        /\ Cardinality(a) = IF source \in InYuv THEN Cardinality(InYuv)
                                                ELSE Cardinality(InYuv) + 1
        BY <1>5, FS_AddElement
  <2> QED BY <1>5, <2>1, Constants
<1> HIDE DEF a
<1>9. IsFiniteSet(u) /\ Cardinality(u) <= Cardinality(a) + Cardinality(lost)
  <2>1. /\ IsFiniteSet(u)
        /\ Cardinality(u) = Cardinality(a) + Cardinality(lost) - Cardinality(a \cap lost)
        BY <1>7, <1>8, FS_Union
  <2>2. IsFiniteSet(a \cap lost)
    <3>1. a \cap lost \in SUBSET lost OBVIOUS
    <3> QED BY <1>7, <3>1, FS_Subset
  <2>3. Cardinality(a \cap lost) \in Nat BY <2>2, FS_CardinalityType
  <2> HIDE DEF u
  <2> QED BY <1>7, <1>8, <2>1, <2>3
<1>10. PoolNum <= Cardinality(u)
  <2>1. Buffers \in SUBSET u BY <1>4 DEF a
  <2> HIDE DEF u
  <2>2. Cardinality(Buffers) <= Cardinality(u) BY <1>9, <2>1, FS_Subset
  <2> QED BY <1>6, <2>2
<1>11. Cardinality(u) \in Nat BY <1>9, FS_CardinalityType
<1> HIDE DEF u
<1> QED BY <1>7, <1>8, <1>9, <1>10, <1>11, Constants

(* A place that holds at most one thing, as a list. *)
LEMMA OneItem ==
  ASSUME NEW S, NEW b \in S
  PROVE  One(b) \in Seq(S) /\ ToSet(One(b)) = {b} \ {0} /\ IsInjective(One(b))
<1>1. <<>> \in Seq(S) /\ ToSet(<<>>) = {} /\ IsInjective(<<>>) BY SetOf, Concat
<1>2. <<b>> \in Seq(S) /\ ToSet(<<b>>) = {b} /\ IsInjective(<<b>>) BY SetOf
<1> QED BY <1>1, <1>2 DEF One

LEMMA HeldOnce ==
  ASSUME BufInv
  PROVE  /\ IsInjective(Held) /\ ToSet(Held) \cap lost = {}
         /\ Alive /\ opc \notin {"removeFd", "quit", "joinLoop"} => ToSet(Held) \cup lost = Buffers
<1> USE DEF BufInv, Typed
<1> DEFINE P == {0} \cup Buffers
           t == One(target)
           s == One(source)
<1>1. target \in P /\ source \in P /\ pool \in Seq(P) /\ yuv \in Seq(P) BY DEF TypeOK
<1> HIDE DEF P
<1>2. /\ t \in Seq(P) /\ ToSet(t) = {target} \ {0} /\ IsInjective(t)
      /\ s \in Seq(P) /\ ToSet(s) = {source} \ {0} /\ IsInjective(s)
      BY <1>1, OneItem
<1> DEFINE u == Cat(pool, yuv)
           v == Cat(u, t)
           w == Cat(v, s)
<1>3. Held = w BY DEF Held, Cat
<1> HIDE DEF t, s
<1>4. u \in Seq(P) /\ IsInjective(u) /\ ToSet(u) = InPool \cup InYuv
  <2>1. u \in Seq(P) BY <1>1, CatLaws
  <2>2. /\ ToSet(u) = ToSet(pool) \cup ToSet(yuv)
        /\ IsInjective(u) <=>
             IsInjective(pool) /\ IsInjective(yuv) /\ ToSet(pool) \cap ToSet(yuv) = {}
        BY <1>1, Halves
  <2> QED BY <2>1, <2>2 DEF Apart, InPool, InYuv
<1> HIDE DEF u
<1>5. v \in Seq(P) /\ IsInjective(v) /\ ToSet(v) = InPool \cup InYuv \cup ({target} \ {0})
  <2>1. ToSet(u) \cap ToSet(t) = {} BY <1>2, <1>4 DEF Apart
  <2>2. v \in Seq(P) BY <1>2, <1>4, CatLaws
  <2> QED BY <1>2, <1>4, <2>1, <2>2, Halves
<1> HIDE DEF v
<1>6. /\ IsInjective(w)
      /\ ToSet(w) = InPool \cup InYuv \cup ({target} \ {0}) \cup ({source} \ {0})
  <2>1. ToSet(v) \cap ToSet(s) = {} BY <1>2, <1>5 DEF Apart
  <2> QED BY <1>2, <1>5, <2>1, Halves
<1>7. ToSet(Held) \cap lost = {} BY <1>3, <1>6 DEF Apart
<1>8. InPool \subseteq Buffers /\ InYuv \subseteq Buffers
  <2>1. ToSet(pool) \in SUBSET Buffers /\ ToSet(yuv) \in SUBSET Buffers BY SetOf DEF TypeOK
  <2> QED BY <2>1 DEF InPool, InYuv
<1>9. ASSUME opc \in {"open", "joinEncode", "joinScale"}
      PROVE  ToSet(Held) \cup lost = Buffers
      BY <1>1, <1>3, <1>6, <1>8, <1>9, Constants DEF Complete, TypeOK, P
<1> QED BY <1>3, <1>6, <1>7, <1>9 DEF Alive

LEMMA InputsOnce ==
  ASSUME FrameInv
  PROVE  /\ IsInjective(HeldInputs)
         /\ Alive => ToSet(HeldInputs) = Inputs /\ channelId \in used
<1> USE DEF FrameInv
<1> DEFINE P == {0} \cup Inputs
           i == One(input)
<1>1. input \in P /\ freeIn \in Seq(P) BY DEF Typed, TypeOK
<1>2. ChnIns \in Seq(P) /\ InChn \in SUBSET Inputs
  <2>1. ChnIns \in Seq(Inputs) BY InList
  <2> QED BY <2>1, InList
<1> HIDE DEF P
<1>3. i \in Seq(P) /\ ToSet(i) = {input} \ {0} /\ IsInjective(i) BY <1>1, OneItem
<1> DEFINE u == Cat(freeIn, i)
           v == Cat(u, ChnIns)
<1>4. HeldInputs = v BY DEF HeldInputs, ChnIns, Cat
<1> HIDE DEF i
<1>5. u \in Seq(P) /\ IsInjective(u) /\ ToSet(u) = InFree \cup ({input} \ {0})
  <2>1. ToSet(freeIn) \cap ToSet(i) = {} BY <1>3 DEF FramesApart, InFree
  <2>2. u \in Seq(P) BY <1>1, <1>3, CatLaws
  <2> QED BY <1>1, <1>3, <2>1, <2>2, Halves DEF FramesApart, InFree
<1> HIDE DEF u
<1>6. IsInjective(v) /\ ToSet(v) = InFree \cup ({input} \ {0}) \cup InChn
  <2>1. ToSet(u) \cap ToSet(ChnIns) = {} BY <1>5 DEF FramesApart, InChn
  <2> QED BY <1>2, <1>5, <2>1, Halves DEF FramesApart, InChn
<1>7. InFree \subseteq Inputs
  <2>1. ToSet(freeIn) \in SUBSET Inputs BY SetOf DEF Typed, TypeOK
  <2> QED BY <2>1 DEF InFree
<1>8. Alive => ToSet(v) = Inputs
      BY <1>2, <1>6, <1>7, Constants DEF FramesComplete, Typed, TypeOK
<1> QED BY <1>4, <1>6, <1>8 DEF FramesComplete

(***************************************************************************)
(* However the three threads and the destructor interleave and whatever    *)
(* the hardware refuses: while the encoder lives, each device buffer is in *)
(* one place or lost with a picture that was refused, each input frame is  *)
(* in one place and, in the hardware, still holds its picture, the lists   *)
(* and the cache keep their limits, and the scale thread finds a buffer    *)
(* unless too many have been lost.                                         *)
(***************************************************************************)
THEOREM NothingSharedOrForgotten == SafeSpec => []MemoryOwned
<1>1. BufInv /\ FrameInv => MemoryOwned
  <2> SUFFICES ASSUME BufInv, FrameInv PROVE MemoryOwned OBVIOUS
  <2>1. Bounded BY Starved DEF BufInv, Short, Bounded
  <2>2. TypeOK BY DEF BufInv, Typed
  <2> QED BY <2>1, <2>2, HeldOnce, InputsOnce DEF MemoryOwned, FrameInv, FramesFilled
<1> QED BY <1>1, InitBuf, StepBuf, InitFrame, StepFrame, PTL DEF SafeSpec

(***************************************************************************)
(* The encoder as a LossyFifo: the pictures in the hardware, in the encode *)
(* thread, in the buffers of yuv_frames_, in the buffer about to be put    *)
(* there, the one to be converted and those waiting.                       *)
(***************************************************************************)
Coded == [i \in DOMAIN chn |-> chn[i].pic]
Stored == [i \in DOMAIN yuv |-> mem[yuv[i]]]
Pushing == IF scalePc = "push" THEN <<mem[target]>> ELSE <<>>
Waiting == Cat(One(scaling), bgr)
Scaled == Cat(Pushing, Waiting)
Queued == Cat(Stored, Scaled)
Uncoded == Cat(Encoding, Queued)
Inside == Coded \o Encoding \o Stored \o Pushing \o One(scaling) \o bgr

PicOf == [f \in Frame |-> f.pic]

FlowParts ==
  /\ Coded \in Seq(Pictures) /\ Encoding \in Seq(Pictures) /\ Stored \in Seq(Pictures)
  /\ Pushing \in Seq(Pictures) /\ One(scaling) \in Seq(Pictures) /\ bgr \in Seq(Pictures)
  /\ Waiting \in Seq(Pictures) /\ Scaled \in Seq(Pictures) /\ Queued \in Seq(Pictures)
  /\ Uncoded \in Seq(Pictures) /\ Inside \in Seq(Pictures)
  /\ Inside = Cat(Coded, Uncoded)
  /\ Coded = Mapped(chn, PicOf) /\ Stored = Mapped(yuv, mem)

LEMMA PicMap == PicOf \in Maps(Frame, Pictures) /\ \A f \in Frame : PicOf[f] = f.pic
BY DEF PicOf, Maps, Frame

LEMMA Nested ==
  ASSUME NEW S, NEW a \in Seq(S), NEW b \in Seq(S), NEW c \in Seq(S), NEW d \in Seq(S),
         NEW e \in Seq(S), NEW f \in Seq(S)
  PROVE  Cat(Cat(Cat(Cat(Cat(a, b), c), d), e), f)
           = Cat(a, Cat(b, Cat(c, Cat(d, Cat(e, f)))))
<1> DEFINE ab == Cat(a, b)
           abc == Cat(ab, c)
           abcd == Cat(abc, d)
           ef == Cat(e, f)
           def == Cat(d, ef)
           cdef == Cat(c, def)
<1>1. ab \in Seq(S) /\ ef \in Seq(S) BY CatLaws
<1> HIDE DEF ab, ef
<1>2. abc \in Seq(S) /\ def \in Seq(S) BY <1>1, CatLaws
<1> HIDE DEF abc, def
<1>3. abcd \in Seq(S) /\ cdef \in Seq(S) BY <1>2, CatLaws
<1> HIDE DEF abcd, cdef
<1>4. Cat(Cat(abcd, e), f) = Cat(abcd, ef) BY <1>3, CatAssociative DEF ef
<1>5. Cat(abcd, ef) = Cat(abc, def) BY <1>1, <1>2, CatAssociative DEF abcd, def
<1>6. Cat(abc, def) = Cat(ab, cdef) BY <1>1, <1>2, CatAssociative DEF abc, cdef
<1>7. Cat(ab, cdef) = Cat(a, Cat(b, cdef)) BY <1>3, CatAssociative DEF ab
<1> QED BY <1>4, <1>5, <1>6, <1>7 DEF ab, abc, abcd, ef, def, cdef

LEMMA Parts == BufInv => FlowParts
<1> SUFFICES ASSUME BufInv PROVE FlowParts OBVIOUS
<1> DEFINE P == Pictures
<1>1. /\ chn \in Seq(Frame) /\ yuv \in Seq(Buffers) /\ mem \in [Buffers -> P]
      /\ filled \in [Inputs -> P] /\ scaling \in P /\ bgr \in Seq(P)
      /\ input \in {0} \cup Inputs /\ source \in {0} \cup Buffers /\ target \in {0} \cup Buffers
      /\ target # 0 <=> scalePc \in {"convert", "push"}
      BY DEF BufInv, Typed, TypeOK, InHand, Frame
<1>2. mem \in Maps(Buffers, P) BY <1>1 DEF Maps
<1>3. <<>> \in Seq(P) /\ \A x \in P : <<x>> \in Seq(P) BY Concat
<1>4. Coded = Mapped(chn, PicOf) /\ Coded \in Seq(P)
  <2>1. \A i \in DOMAIN chn : chn[i] \in Frame BY <1>1, ElementOfSeq
  <2>2. Coded = Mapped(chn, PicOf) BY <2>1, PicMap DEF Coded, Mapped
  <2>3. Mapped(chn, PicOf) \in Seq(P) BY <1>1, PicMap, MappedSeq
  <2> QED BY <2>2, <2>3
<1>5. Stored = Mapped(yuv, mem) /\ Stored \in Seq(P)
  <2>1. Stored = Mapped(yuv, mem) BY DEF Stored, Mapped
  <2>2. Mapped(yuv, mem) \in Seq(P) BY <1>1, <1>2, MappedSeq
  <2> QED BY <2>1, <2>2
<1>6. Encoding \in Seq(P)
  <2>1. input # 0 => filled[input] \in P BY <1>1
  <2>2. source # 0 => mem[source] \in P BY <1>1
  <2> QED BY <1>3, <2>1, <2>2 DEF Encoding
<1>7. Pushing \in Seq(P)
  <2>1. scalePc = "push" => mem[target] \in P BY <1>1
  <2> QED BY <1>3, <2>1 DEF Pushing
<1>8. One(scaling) \in Seq(P) BY <1>1, <1>3 DEF One
<1>9. Waiting \in Seq(P) BY <1>1, <1>8, CatLaws DEF Waiting
<1>10. Scaled \in Seq(P) BY <1>7, <1>9, CatLaws DEF Scaled
<1>11. Queued \in Seq(P) BY <1>5, <1>10, CatLaws DEF Queued
<1>12. Uncoded \in Seq(P) BY <1>6, <1>11, CatLaws DEF Uncoded
<1>13. Inside = Cat(Coded, Uncoded)
  <2>1. Inside = Cat(Cat(Cat(Cat(Cat(Coded, Encoding), Stored), Pushing), One(scaling)), bgr)
        BY DEF Inside, Cat
  <2> DEFINE s == One(scaling)
  <2> HIDE DEF P, s
  <2>2. /\ Coded \in Seq(P) /\ Encoding \in Seq(P) /\ Stored \in Seq(P)
        /\ Pushing \in Seq(P) /\ s \in Seq(P) /\ bgr \in Seq(P)
        BY <1>1, <1>4, <1>5, <1>6, <1>7, <1>8 DEF s
  <2>3. Cat(Cat(Cat(Cat(Cat(Coded, Encoding), Stored), Pushing), s), bgr)
          = Cat(Coded, Cat(Encoding, Cat(Stored, Cat(Pushing, Cat(s, bgr)))))
        BY <2>2, Nested
  <2> QED BY <2>1, <2>3 DEF Uncoded, Queued, Scaled, Waiting, s
<1>14. Inside \in Seq(P) BY <1>4, <1>12, <1>13, CatLaws
<1> QED BY <1>1, <1>4, <1>5, <1>6, <1>7, <1>8, <1>9, <1>10, <1>11, <1>12, <1>13, <1>14
        DEF FlowParts

LEMMA PartsNext == BufInv' => FlowParts'
BY Parts, PTL

LoseStep == Lossy(Inside, Inside') /\ UNCHANGED <<packets, added>>
PutStep == Joined(Inside, Inside', added + 1) /\ added' = added + 1 /\ UNCHANGED packets
GiveStep ==
  /\ Inside # <<>>
  /\ packets' = Append(packets, Head(Inside))
  /\ Inside' = Tail(Inside)
  /\ UNCHANGED added
FifoStep == LoseStep \/ PutStep \/ GiveStep \/ UNCHANGED <<Inside, packets, added>>

LEMMA FifoStutter ==
  ASSUME UNCHANGED <<chn, Encoding, mem, yuv, Pushing, scaling, bgr, packets, added>>
  PROVE  FifoStep
<1>1. Coded' = Coded /\ Stored' = Stored BY DEF Coded, Stored
<1> QED BY <1>1 DEF FifoStep, Inside

(* A step that keeps, or loses a part of, what is not yet in the hardware. *)
LEMMA LossBehind ==
  ASSUME FlowParts, FlowParts', UNCHANGED <<chn, packets, added>>,
         Uncoded' = Uncoded \/ Lossy(Uncoded, Uncoded')
  PROVE  FifoStep
<1>1. Coded' = Coded BY DEF Coded
<1>2. CASE Uncoded' = Uncoded
  <2>1. Inside' = Inside BY <1>1, <1>2 DEF FlowParts
  <2> QED BY <2>1 DEF FifoStep
<1>3. CASE Lossy(Uncoded, Uncoded')
  <2>1. Lossy(Inside, Inside') BY <1>1, <1>3, CatLossy DEF FlowParts
  <2> QED BY <2>1 DEF FifoStep, LoseStep
<1> QED BY <1>2, <1>3

LEMMA FifoScale ==
  ASSUME FlowParts, FlowParts', BufInv, fault = "none", Scale
  PROVE  FifoStep
<1> USE DEF ScaleStep, hmevVars, bufVars
<1>1. CASE ScaleTop \/ ScaleIdle \/ ScaleAddr \/ ScaleStarved \/ ScaleTake \/ ScaleNull
  <2>1. UNCHANGED <<chn, input, filled, source, mem, yuv, scaling, bgr, packets, added>>
        BY <1>1 DEF ScaleTop, ScaleIdle, ScaleAddr, ScaleStarved, ScaleTake, ScaleNull
  <2>2. scalePc # "push" /\ scalePc' # "push"
        BY <1>1 DEF ScaleTop, ScaleIdle, ScaleAddr, ScaleStarved, ScaleTake, ScaleNull
  <2> QED BY <2>1, <2>2, FifoStutter DEF Encoding, Pushing
<1>2. CASE ScalePop
  <2>1. /\ bgr # <<>> /\ scaling = 0 /\ scaling' = Head(bgr) /\ bgr' = Tail(bgr)
        /\ scalePc # "push" /\ scalePc' # "push"
        /\ UNCHANGED <<chn, input, filled, source, mem, yuv, target, packets, added>>
        BY <1>2 DEF ScalePop, BufInv, Typed, InHand
  <2>2. Head(bgr) # 0
    <3>1. Head(bgr) \in 1..NumFrames BY <2>1, Concat DEF BufInv, Typed, InHand
    <3> QED BY <3>1, Constants
  <2>3. One(scaling) = <<>> /\ One(scaling)' = <<Head(bgr)>> BY <2>1, <2>2 DEF One
  <2>4. Waiting' = Waiting BY SMTT(30), <2>1, <2>3, CatLaws DEF Waiting, FlowParts
  <2>5. UNCHANGED <<Encoding, Stored, Pushing>> BY <2>1 DEF Encoding, Stored, Pushing
  <2>6. Uncoded' = Uncoded BY <2>4, <2>5 DEF Uncoded, Queued, Scaled
  <2> QED BY <2>1, <2>6, LossBehind
<1>3. CASE ScaleConvert
  <2>1. /\ mem' = [mem EXCEPT ![target] = scaling] /\ scaling # 0 /\ scaling' = 0
        /\ target # 0 /\ scalePc # "push" /\ scalePc' = "push"
        /\ UNCHANGED <<chn, input, filled, source, yuv, target, bgr, packets, added>>
        BY <1>3 DEF ScaleConvert, BufInv, Typed, InHand
  <2>2. /\ mem \in [Buffers -> Pictures] /\ yuv \in Seq(Buffers) /\ target \in Buffers
        /\ source \in {0} \cup Buffers
        BY <2>1 DEF BufInv, Typed, TypeOK
  <2>3. \A b \in Buffers : b # target => mem'[b] = mem[b] BY <2>1, <2>2
  <2>4. mem'[target] = scaling BY <2>1, <2>2
  <2>5. Stored' = Stored
    <3>1. ASSUME NEW i \in DOMAIN yuv PROVE mem'[yuv[i]] = mem[yuv[i]]
      <4>1. yuv[i] \in InYuv BY DEF InYuv, ToSet
      <4>2. yuv[i] \in Buffers BY <2>2, ElementOfSeq
      <4>3. yuv[i] # target BY <2>1, <4>1 DEF BufInv, Apart
      <4> QED BY <2>3, <4>2, <4>3
    <3> QED BY <2>1, <3>1 DEF Stored
  <2>6. Encoding' = Encoding
    <3>1. source # 0 => source # target BY <2>1 DEF BufInv, Apart
    <3>2. source # 0 => mem'[source] = mem[source] BY <2>2, <2>3, <3>1
    <3> QED BY <2>1, <3>2 DEF Encoding
  <2>7. /\ One(scaling) = <<scaling>> /\ One(scaling)' = <<>>
        /\ Pushing = <<>> /\ Pushing' = <<scaling>>
        BY <2>1, <2>4 DEF One, Pushing
  <2>8. Scaled' = Scaled
    <3>1. Scaled = Waiting /\ Waiting = Cat(<<scaling>>, bgr) /\ Waiting' = bgr
          BY <2>1, <2>7, CatLaws DEF Scaled, Waiting, FlowParts
    <3> QED BY <2>7, <3>1 DEF Scaled
  <2>9. Uncoded' = Uncoded BY <2>5, <2>6, <2>8 DEF Uncoded, Queued
  <2> QED BY <2>1, <2>9, LossBehind
<1>4. CASE ScalePush
  <2> DEFINE x == mem[target]
  <2>1. /\ yuv' = DropPush(yuv, target) /\ scalePc = "push" /\ scalePc' # "push" /\ target # 0
        /\ UNCHANGED <<chn, input, filled, source, mem, scaling, bgr, packets, added>>
        BY <1>4 DEF ScalePush, BufInv, Typed, InHand
  <2>2. /\ mem \in [Buffers -> Pictures] /\ yuv \in Seq(Buffers) /\ target \in Buffers
        BY <2>1 DEF BufInv, Typed, TypeOK
  <2>3. Pushing = <<x>> /\ Pushing' = <<>> /\ x \in Pictures BY <2>1, <2>2 DEF Pushing
  <2>4. UNCHANGED <<Encoding, Waiting>> BY <2>1 DEF Encoding, Waiting
  <2>5. Scaled' = Waiting BY <2>3, <2>4, CatLaws DEF Scaled, FlowParts
  <2>6. mem \in Maps(Buffers, Pictures) BY <2>2 DEF Maps
  <2>7. CASE Len(yuv) > Limit
    <3>1. yuv' = <<target>> BY <2>1, <2>7 DEF DropPush
    <3>2. Stored' = <<x>>
      <4> DEFINE t == <<target>>
      <4>1. DOMAIN t = {1} /\ t[1] = target OBVIOUS
      <4>2. yuv' = t BY <3>1
      <4> HIDE DEF t
      <4>3. Stored' = [i \in {1} |-> x] BY <2>1, <4>1, <4>2 DEF Stored
      <4> HIDE DEF x
      <4>4. [i \in {1} |-> x] = <<x>> OBVIOUS
      <4> QED BY <4>3, <4>4
    <3>3. Stored # <<>>
      <4>1. Len(yuv) \in Nat /\ Len(Stored) = Len(yuv)
            BY SMTT(30), <2>2, <2>6, MappedSeq DEF FlowParts
      <4> QED BY <2>7, <4>1, Constants
    <3>4. Queued' = Scaled BY <2>3, <2>5, <3>2 DEF Queued, Scaled
    <3>5. Lossy(Queued, Queued') BY <3>3, <3>4, CatLossy DEF Queued, FlowParts
    <3>6. Lossy(Uncoded, Uncoded') BY <2>4, <3>5, CatLossy DEF Uncoded, FlowParts
    <3> QED BY <2>1, <3>6, LossBehind
  <2>8. CASE ~(Len(yuv) > Limit)
    <3>1. yuv' = Append(yuv, target) BY <2>1, <2>8 DEF DropPush
    <3>2. Stored' = Append(Stored, x) BY <2>1, <2>2, <2>6, <3>1, MappedAppend DEF FlowParts
    <3> HIDE DEF x
    <3>3. Stored' = Cat(Stored, <<x>>) BY SMTT(30), <2>3, <3>2, CatLaws DEF FlowParts
    <3>4. Queued' = Queued
      <4>1. Queued' = Cat(Cat(Stored, Pushing), Waiting) BY <2>3, <2>5, <3>3 DEF Queued
      <4>2. Queued = Cat(Stored, Cat(Pushing, Waiting)) BY DEF Queued, Scaled
      <4>3. /\ Stored \in Seq(Pictures) /\ Pushing \in Seq(Pictures)
            /\ Waiting \in Seq(Pictures)
            BY DEF FlowParts
      <4>4. Cat(Cat(Stored, Pushing), Waiting) = Cat(Stored, Cat(Pushing, Waiting))
            BY <4>3, CatAssociative
      <4> QED BY <4>1, <4>2, <4>4
    <3>5. Uncoded' = Uncoded BY <2>4, <3>4 DEF Uncoded
    <3> QED BY <2>1, <3>5, LossBehind
  <2> QED BY <2>7, <2>8
<1> QED BY <1>1, <1>2, <1>3, <1>4 DEF Scale

LEMMA FifoEnc ==
  ASSUME FlowParts, FlowParts', BufInv, fault = "none", Enc
  PROVE  FifoStep
<1> USE DEF EncStep, startVars, scaleVars
<1>1. UNCHANGED <<Scaled, packets, added, mem, scalePc>>
      BY DEF Enc, EncTop, EncIdle, EncPop, EncDequeue, EncNoInput, EncSend, EncRefused,
             Scaled, Pushing, Waiting
<1>2. CASE EncTop \/ EncIdle
  <2>1. UNCHANGED <<chn, input, filled, source, yuv>> BY <1>2 DEF EncTop, EncIdle
  <2>2. UNCHANGED <<Encoding, Stored>> BY <1>1, <2>1 DEF Encoding, Stored
  <2>3. Uncoded' = Uncoded BY <1>1, <2>2 DEF Uncoded, Queued
  <2> QED BY <1>1, <2>1, <2>3, LossBehind
<1>3. CASE EncPop
  <2> DEFINE x == mem[Head(yuv)]
  <2>1. /\ yuv # <<>> /\ source = 0 /\ source' = Head(yuv) /\ yuv' = Tail(yuv) /\ input = 0
        /\ UNCHANGED <<chn, input, filled>>
        BY <1>3 DEF EncPop, BufInv, Typed, InHand
  <2>2. yuv \in Seq(Buffers) /\ mem \in Maps(Buffers, Pictures)
        BY DEF BufInv, Typed, TypeOK, Maps
  <2>3. Head(yuv) \in Buffers /\ x \in Pictures BY <2>1, <2>2, Concat DEF Maps
  <2>4. Encoding = <<>> /\ Encoding' = <<x>> BY <1>1, <2>1, <2>3, Constants DEF Encoding
  <2>5. Stored # <<>> /\ Head(Stored) = x /\ Stored' = Tail(Stored)
        BY <1>1, <2>1, <2>2, MappedPop DEF FlowParts
  <2> HIDE DEF x
  <2>6. Stored = Cat(<<x>>, Stored')
    <3>1. Stored \in Seq(Pictures) BY DEF FlowParts
    <3>2. Stored = Cat(<<Head(Stored)>>, Tail(Stored)) BY <2>5, <3>1, CatLaws
    <3> QED BY <2>5, <3>2
  <2>7. Uncoded' = Uncoded
    <3> DEFINE e == <<x>>
               s == Stored'
    <3>1. e \in Seq(Pictures) /\ s \in Seq(Pictures) /\ Scaled \in Seq(Pictures)
          BY <2>3, Concat DEF FlowParts
    <3>2. Uncoded = Queued BY <2>4, CatLaws DEF Uncoded, FlowParts
    <3>3. Queued = Cat(Cat(e, s), Scaled) BY <2>6 DEF Queued
    <3>4. Uncoded' = Cat(e, Cat(s, Scaled)) BY <1>1, <2>4 DEF Uncoded, Queued
    <3> HIDE DEF e, s
    <3>5. Cat(Cat(e, s), Scaled) = Cat(e, Cat(s, Scaled)) BY <3>1, CatAssociative
    <3> QED BY <3>2, <3>3, <3>4, <3>5
  <2> QED BY <1>1, <2>1, <2>7, LossBehind
<1>4. CASE EncDequeue
  <2>1. /\ freeIn # <<>> /\ input = 0 /\ input' = Dequeued /\ source # 0
        /\ filled' = [filled EXCEPT ![Dequeued] = mem[source]]
        /\ UNCHANGED <<chn, yuv, source>>
        BY <1>4 DEF EncDequeue, BufInv, Typed, InHand
  <2>2. Dequeued \in Inputs /\ Dequeued # 0 BY <2>1, DequeueType DEF BufInv
  <2>3. filled'[Dequeued] = mem[source] BY <2>1, <2>2 DEF BufInv, Typed, TypeOK
  <2>4. Encoding' = Encoding BY <2>1, <2>2, <2>3 DEF Encoding
  <2>5. Stored' = Stored BY <1>1, <2>1 DEF Stored
  <2>6. Uncoded' = Uncoded BY <1>1, <2>4, <2>5 DEF Uncoded, Queued
  <2> QED BY <1>1, <2>1, <2>6, LossBehind
<1>5. CASE EncNoInput \/ EncRefused
  <2>1. source # 0 /\ source' = 0 /\ input' = 0 /\ UNCHANGED <<chn, yuv>>
        BY <1>5 DEF EncNoInput, EncRefused, BufInv, Typed, InHand
  <2>2. Encoding' = <<>> BY <2>1 DEF Encoding
  <2>3. Encoding # <<>> BY <2>1 DEF Encoding
  <2>4. Stored' = Stored BY <1>1, <2>1 DEF Stored
  <2>5. Uncoded' = Queued BY <1>1, <2>2, <2>4, CatLaws DEF Uncoded, Queued, FlowParts
  <2>6. Lossy(Uncoded, Uncoded') BY <2>3, <2>5, CatLossy DEF Uncoded, FlowParts
  <2> QED BY <1>1, <2>1, <2>6, LossBehind
<1>6. CASE EncSend
  <2> DEFINE f == [pic |-> filled[input], in |-> input]
             x == filled[input]
  <2>1. /\ chn' = Append(chn, f) /\ input # 0 /\ source' = 0 /\ input' = 0
        /\ UNCHANGED <<yuv>>
        BY <1>6 DEF EncSend, Processed, BufInv, Typed, InHand
  <2>2. f \in Frame /\ f.pic = x /\ x \in Pictures
        BY <2>1 DEF Frame, BufInv, Typed, TypeOK
  <2>3. Encoding = <<x>> /\ Encoding' = <<>> BY <2>1 DEF Encoding
  <2> HIDE DEF f, x
  <2>4. Coded' = Cat(Coded, Encoding)
    <3>1. chn \in Seq(Frame) BY DEF BufInv, Typed, TypeOK, Frame
    <3>2. PicOf[f] = x BY <2>2, PicMap
    <3>3. Mapped(Append(chn, f), PicOf) = Append(Mapped(chn, PicOf), PicOf[f])
          BY <2>2, <3>1, PicMap, MappedAppend
    <3>4. Coded' = Append(Coded, x) /\ Coded \in Seq(Pictures)
          BY <2>1, <3>2, <3>3 DEF FlowParts
    <3>5. Append(Coded, x) = Cat(Coded, <<x>>) BY <2>2, <3>4, CatLaws
    <3> QED BY <2>3, <3>4, <3>5
  <2>5. Stored' = Stored BY <1>1, <2>1 DEF Stored
  <2>6. Uncoded' = Queued BY <1>1, <2>3, <2>5, CatLaws DEF Uncoded, Queued, FlowParts
  <2>7. Inside' = Inside
    <3>1. Inside' = Cat(Cat(Coded, Encoding), Queued) BY <2>4, <2>6 DEF FlowParts
    <3>2. Inside = Cat(Coded, Cat(Encoding, Queued)) BY DEF FlowParts, Uncoded
    <3>3. /\ Coded \in Seq(Pictures) /\ Encoding \in Seq(Pictures)
          /\ Queued \in Seq(Pictures)
          BY DEF FlowParts
    <3>4. Cat(Cat(Coded, Encoding), Queued) = Cat(Coded, Cat(Encoding, Queued))
          BY <3>3, CatAssociative
    <3> QED BY <3>1, <3>2, <3>4
  <2> QED BY <1>1, <2>7 DEF FifoStep
<1> QED BY <1>2, <1>3, <1>4, <1>5, <1>6 DEF Enc

LEMMA FifoLoop ==
  ASSUME FlowParts, FlowParts', BufInv, fault = "none", Loop
  PROVE  FifoStep
<1> USE DEF LoopStep, startVars, scaleVars, bufVars
<1>1. UNCHANGED <<Uncoded, added>>
      BY DEF Loop, LoopTop, LoopTimeout, LoopEvent, StreamFails, OnEncodeStream,
             Uncoded, Queued, Scaled, Pushing, Waiting, Stored, Encoding
<1>2. CASE LoopTop \/ LoopTimeout \/ LoopEvent \/ StreamFails
  <2>1. UNCHANGED <<chn, packets>> BY <1>2 DEF LoopTop, LoopTimeout, LoopEvent, StreamFails
  <2> QED BY <1>1, <2>1, LossBehind
<1>3. CASE OnEncodeStream
  <2> DEFINE x == Ready.pic
  <2>1. /\ chn # <<>> /\ chn' = Tail(chn)
        /\ packets' = Append(packets, x) \/ packets' = packets
        BY <1>3 DEF OnEncodeStream, StreamOut, BufInv, Typed, InHand
  <2>2. x \in Pictures /\ Coded = Cat(<<x>>, Coded')
    <3>1. chn \in Seq(Frame) BY DEF BufInv, Typed, TypeOK, Frame
    <3>2. PicOf[Head(chn)] = x /\ x \in Pictures BY <2>1, ReadyType, PicMap DEF BufInv, Ready
    <3>3. /\ Mapped(chn, PicOf) # <<>> /\ Head(Mapped(chn, PicOf)) = PicOf[Head(chn)]
          /\ Mapped(Tail(chn), PicOf) = Tail(Mapped(chn, PicOf))
          BY <2>1, <3>1, PicMap, MappedPop
    <3> HIDE DEF x
    <3>4. Coded # <<>> /\ Head(Coded) = x /\ Coded' = Tail(Coded)
          BY <2>1, <3>2, <3>3 DEF FlowParts
    <3> QED BY SMTT(30), <3>2, <3>4, CatLaws DEF FlowParts
  <2> HIDE DEF x
  <2>3. Inside = Cat(<<x>>, Inside')
    <3> DEFINE e == <<x>>
               c == Coded'
    <3>1. e \in Seq(Pictures) /\ c \in Seq(Pictures) /\ Uncoded \in Seq(Pictures)
          BY <2>2, Concat DEF FlowParts
    <3>2. Inside = Cat(Cat(e, c), Uncoded) /\ Inside' = Cat(c, Uncoded)
          BY <1>1, <2>2 DEF FlowParts
    <3> HIDE DEF e, c
    <3>3. Inside = Cat(e, Inside') BY <3>1, <3>2, CatAssociative
    <3> QED BY <3>3 DEF e
  <2>4. Inside # <<>> /\ Head(Inside) = x /\ Tail(Inside) = Inside'
    <3> DEFINE i == Inside'
    <3>1. i \in Seq(Pictures) /\ Inside = Cat(<<x>>, i) BY <2>3 DEF FlowParts
    <3> HIDE DEF i
    <3>2. Inside # <<>> /\ Head(Inside) = x /\ Tail(Inside) = i BY <2>2, <3>1, CatFirst
    <3> QED BY <3>2 DEF i
  <2>5. Lossy(Inside, Inside')
    <3> DEFINE i == Inside'
    <3>1. i \in Seq(Pictures) /\ Inside = Cat(<<x>>, i) BY <2>3 DEF FlowParts
    <3> HIDE DEF i
    <3>2. Lossy(Inside, i) BY <2>2, <3>1, CatLossy
    <3> QED BY <3>2 DEF i
  <2>6. CASE packets' = Append(packets, x) BY <1>1, <2>4, <2>6 DEF FifoStep, GiveStep
  <2>7. CASE packets' = packets BY <1>1, <2>5, <2>7 DEF FifoStep, LoseStep
  <2> QED BY <2>1, <2>6, <2>7
<1> QED BY <1>2, <1>3 DEF Loop

LEMMA PushJoins ==
  ASSUME NEW S, NEW q \in Seq(S), NEW x \in S
  PROVE  Joined(q, DropPush(q, x), x)
BY JoinedLast DEF DropPush

LEMMA FifoOwner ==
  ASSUME FlowParts, FlowParts', BufInv, fault = "none", Owner
  PROVE  FifoStep
<1> USE DEF OwnerStep, startVars, scaleVars, bufVars, hmevVars
<1>1. CASE Start \/ StartFails \/ Destroy \/ DestroyThreadless \/ JoinEncode \/ RemoveFd
           \/ QuitLooper
  <2>1. /\ UNCHANGED <<chn, input, filled, source, mem, yuv, target, scaling, bgr, packets, added>>
        /\ scalePc' = "push" <=> scalePc = "push"
        BY <1>1 DEF Start, StartFails, Destroy, DestroyThreadless, JoinEncode, RemoveFd,
                    QuitLooper, BufInv, Typed, Threads
  <2> QED BY <2>1, FifoStutter DEF Encoding, Pushing
<1>2. CASE AddVideoFrame
  <2>1. /\ bgr' = DropPush(bgr, added + 1) /\ added' = added + 1
        /\ UNCHANGED <<chn, input, filled, source, mem, yuv, target, scaling, scalePc, packets>>
        BY <1>2 DEF AddVideoFrame
  <2>2. added + 1 \in Pictures
        BY <1>2, Constants DEF AddVideoFrame, BufInv, Typed, TypeOK, Pictures
  <2>3. UNCHANGED <<Coded, Encoding, Stored, Pushing>> /\ UNCHANGED One(scaling)
        BY <2>1 DEF Coded, Encoding, Stored, Pushing
  <2> DEFINE n == added + 1
  <2>4. n \in Pictures /\ bgr' = DropPush(bgr, n) BY <2>1, <2>2
  <2> HIDE DEF n
  <2>5. Joined(bgr, bgr', n) BY <2>4, PushJoins DEF FlowParts
  <2>6. Joined(Waiting, Waiting', n) BY <2>3, <2>4, <2>5, CatJoined DEF Waiting, FlowParts
  <2>7. Joined(Scaled, Scaled', n) BY <2>3, <2>4, <2>6, CatJoined DEF Scaled, FlowParts
  <2>8. Joined(Queued, Queued', n) BY <2>3, <2>4, <2>7, CatJoined DEF Queued, FlowParts
  <2>9. Joined(Uncoded, Uncoded', n) BY <2>3, <2>4, <2>8, CatJoined DEF Uncoded, FlowParts
  <2>10. Joined(Inside, Inside', n) BY <2>3, <2>4, <2>9, CatJoined DEF FlowParts
  <2> QED BY <2>1, <2>10 DEF FifoStep, PutStep, n
<1>3. CASE JoinScale
  <2>1. /\ bgr' = <<>> /\ yuv' = <<>> /\ source' = 0 /\ input' = 0
        /\ scaling' = 0 /\ scalePc' # "push"
        /\ UNCHANGED <<chn, packets, added>>
        BY <1>3 DEF JoinScale, BufInv, Typed, InHand, Threads
  <2>2. One(scaling)' = <<>> /\ Encoding' = <<>> /\ Pushing' = <<>>
        BY <2>1 DEF One, Encoding, Pushing
  <2>3. Stored' = <<>>
    <3>1. DOMAIN <<>> = {} OBVIOUS
    <3>2. Stored' = [i \in {} |-> mem'[yuv'[i]]] BY <2>1, <3>1 DEF Stored
    <3> QED BY <3>2
  <2>4. Waiting' = <<>> BY <2>1, <2>2, CatLaws DEF Waiting, FlowParts
  <2>5. Scaled' = <<>> BY <2>2, <2>4, CatLaws DEF Scaled, FlowParts
  <2>6. Queued' = <<>> BY <2>3, <2>5, CatLaws DEF Queued, FlowParts
  <2>7. Uncoded' = <<>> BY <2>2, <2>6, CatLaws DEF Uncoded, FlowParts
  <2>8. Uncoded # <<>> => Lossy(Uncoded, <<>>) BY LossyAll DEF FlowParts
  <2> QED BY <2>1, <2>7, <2>8, LossBehind
<1>4. CASE StopReceiveFrame
  <2>1. /\ chn' = <<>>
        /\ UNCHANGED <<input, filled, source, mem, yuv, target, scaling, scalePc, bgr,
                       packets, added>>
        BY <1>4 DEF StopReceiveFrame
  <2>2. Uncoded' = Uncoded
        BY <2>1 DEF Uncoded, Queued, Scaled, Pushing, Waiting, Stored, Encoding
  <2>3. Coded' = <<>>
    <3>1. DOMAIN <<>> = {} OBVIOUS
    <3>2. Coded' = [i \in {} |-> chn'[i].pic] BY <2>1, <3>1 DEF Coded
    <3> QED BY <3>2
  <2>4. Inside' = Uncoded BY <2>2, <2>3, CatLaws DEF FlowParts
  <2>5. CASE Coded = <<>>
    <3>1. Inside' = Inside BY <2>4, <2>5, CatLaws DEF FlowParts
    <3> QED BY <2>1, <3>1 DEF FifoStep
  <2>6. CASE Coded # <<>>
    <3>1. Lossy(Inside, Inside') BY <2>4, <2>6, CatLossy DEF FlowParts
    <3> QED BY <2>1, <3>1 DEF FifoStep, LoseStep
  <2> QED BY <2>5, <2>6
<1> QED BY <1>1, <1>2, <1>3, <1>4 DEF Owner, Teardown

LEMMA StepFifo == BufInv /\ BufInv' /\ [Next]_vars => [LF!Next]_(LF!vars)
<1> SUFFICES ASSUME BufInv, BufInv', [Next]_vars PROVE [LF!Next]_(LF!vars) OBVIOUS
<1>1. FlowParts /\ FlowParts' BY Parts, PartsNext
<1>2. FifoStep
  <2>1. CASE UNCHANGED vars
    <3>1. UNCHANGED <<chn, Encoding, mem, yuv, Pushing, scaling, bgr, packets, added>>
          BY <2>1 DEF vars, startVars, scaleVars, bufVars, hmevVars, Encoding, Pushing
    <3> QED BY <3>1, FifoStutter
  <2> QED BY <1>1, <2>1, FifoScale, FifoEnc, FifoLoop, FifoOwner DEF Next
<1>3. UNCHANGED <<Inside, packets, added>> => UNCHANGED LF!vars
      BY DEF LF!vars, Inside, Coded, Stored, Pushing
<1>4. LoseStep => LF!Lose
      BY DEF LoseStep, Lossy, LF!Lose, LF!Without, Inside, Coded, Stored, Pushing
<1>5. PutStep => LF!Put BY DEF PutStep, Joined, LF!Put, Inside, Coded, Stored, Pushing
<1>6. GiveStep => LF!Get BY DEF GiveStep, LF!Get, Inside, Coded, Stored, Pushing
<1> QED BY <1>2, <1>3, <1>4, <1>5, <1>6 DEF FifoStep, LF!Next

LEMMA InitFifo == Init => LF!Init
<1> SUFFICES ASSUME Init PROVE LF!Init OBVIOUS
<1>1. FlowParts BY InitBuf, Parts
<1>2. One(scaling) = <<>> /\ Encoding = <<>> /\ Pushing = <<>> /\ bgr = <<>>
      BY DEF Init, One, Encoding, Pushing
<1>3. Coded = <<>> /\ Stored = <<>>
  <2>1. DOMAIN <<>> = {} OBVIOUS
  <2>2. Coded = [i \in {} |-> chn[i].pic] /\ Stored = [i \in {} |-> mem[yuv[i]]]
        BY <2>1 DEF Init, Coded, Stored
  <2> QED BY <2>2
<1>4. Waiting = <<>> BY <1>1, <1>2, CatLaws DEF Waiting, FlowParts
<1>5. Scaled = <<>> BY <1>1, <1>2, <1>4, CatLaws DEF Scaled, FlowParts
<1>6. Queued = <<>> BY <1>1, <1>3, <1>5, CatLaws DEF Queued, FlowParts
<1>7. Uncoded = <<>> BY <1>1, <1>2, <1>6, CatLaws DEF Uncoded, FlowParts
<1>8. Inside = <<>> BY <1>1, <1>3, <1>7, CatLaws DEF FlowParts
<1> QED BY <1>8 DEF Init, LF!Init, Inside, Coded, Stored, Pushing

(***************************************************************************)
(* Whatever is refused, lost or thrown away, and although the same few     *)
(* device buffers and input frames are written again and again: the        *)
(* listener gets the pictures in the order in which they were added, each  *)
(* at most once and with its own content.                                  *)
(***************************************************************************)
THEOREM EncoderImplementsFifo == SafeSpec => DvppIsFifo
<1> QED BY InitBuf, StepBuf, InitFifo, StepFifo, PTL DEF SafeSpec, DvppIsFifo, LF!Spec

-----------------------------------------------------------------------------
(***************************************************************************)
(* The decoder, DvppDecoder.                                               *)
(*                                                                         *)
(* The invariant: what each thread has in hand where it is; a packet goes  *)
(* to the hardware without a buffer only after abort_ is set, and is then  *)
(* the last one.                                                           *)
(***************************************************************************)
Sent == [pic : PacketNo, buf : {0} \cup OutBuffers]

DecInHand ==
  /\ hw \in Seq(Sent)
  /\ sending # 0 <=> sendPc \in {"copy", "addr", "try", "send"}
  /\ address # 0 => sendPc = "send"
  /\ sendPc = "send" /\ address = 0 => stopping
  /\ getPc \in {"emit", "put"} <=> got # Nothing
  /\ getPc = "emit" => Good(got)
  /\ closePc \in {"joinGet", "dead"} => sendPc = "done"
  /\ closePc = "dead" => getPc = "done"

DecTyped == DecTypeOK /\ DecInHand

LEMMA DecConstants ==
  /\ MaxPackets \in Nat /\ OutNum \in Nat \ {0} /\ Delay \in Nat
  /\ \A n \in 0..MaxPackets : n # 0 => n \in PacketNo
  /\ \A n \in PacketNo : n \in 0..MaxPackets /\ n # 0
  /\ \A b \in OutBuffers : b # 0
  /\ 0 \in 0..MaxPackets
BY DvppDecoderAssumption DEF PacketNo, OutBuffers

LEMMA FrameTypes ==
  /\ Nothing \in Frames /\ Nothing.buf = 0 /\ Nothing.pic = 0
  /\ \A f \in Sent : f \in Frames /\ f.pic \in PacketNo /\ f.buf \in {0} \cup OutBuffers
                     /\ f # Nothing
  /\ \A f \in Frames : f # Nothing => f \in Sent
  /\ \A f \in Frames : f.buf \in {0} \cup OutBuffers
  /\ \A n \in PacketNo, b \in {0} \cup OutBuffers :
       [pic |-> n, buf |-> b] \in Sent
       /\ [pic |-> n, buf |-> b].pic = n /\ [pic |-> n, buf |-> b].buf = b
<1>1. Nothing.buf = 0 /\ Nothing.pic = 0 /\ Nothing \in Frames
    BY DEF Nothing, Frames
<1>2. \A f \in Sent : f.pic # 0 BY DEF Sent, PacketNo
<1> QED BY <1>1, <1>2 DEF Sent, Frames

LEMMA DecInitTyped ==
  DecInit => DecTyped
<1> SUFFICES ASSUME DecInit PROVE DecTyped OBVIOUS
<1>1. /\ <<>> \in Seq(PacketNo) /\ <<>> \in Seq(0..MaxPackets) /\ <<>> \in Seq(Frames)
         /\ <<>> \in Seq(Sent)
      BY Concat
<1>2. outPool \in Seq(OutBuffers)
  <2>1. outPool = [b \in 1..OutNum |-> b] BY DEF DecInit, OutBuffers
  <2> QED BY <2>1, DvppDecoderAssumption DEF OutBuffers
<1>3. outMem \in [OutBuffers -> 0..MaxPackets] BY DecConstants DEF DecInit
<1>4. 0 \in 0..MaxPackets BY DecConstants
<1>5. DecTypeOK BY <1>1, <1>2, <1>3, <1>4, FrameTypes DEF DecInit, DecTypeOK
<1>6. DecInHand BY <1>1 DEF DecInit, DecInHand
<1> QED BY <1>5, <1>6 DEF DecTyped

LEMMA TypedSend ==
  ASSUME DecTyped, Send
  PROVE  DecTyped'
<1> USE DEF DecTyped, DecTypeOK, DecInHand, SendStep, getVars, ownVars, outVars
<1>1. CASE SendTop BY <1>1 DEF SendTop
<1>2. CASE SendIdle BY <1>2 DEF SendIdle
<1>3. CASE SendPop
  <2>1. Head(es) \in PacketNo /\ Tail(es) \in Seq(PacketNo) BY <1>3, Concat DEF SendPop
  <2>2. sending' \in 0..MaxPackets /\ sending' # 0 /\ es' \in Seq(PacketNo)
        BY <1>3, <2>1, DecConstants DEF SendPop
  <2> QED BY <1>3, <2>2 DEF SendPop
<1>4. CASE SendCopy BY <1>4 DEF SendCopy
<1>5. CASE SendAddr BY <1>5 DEF SendAddr, StopsWaiting
<1>6. CASE SendStarved BY <1>6 DEF SendStarved
<1>7. CASE SendTake
  <2>1. Head(outPool) \in OutBuffers /\ Tail(outPool) \in Seq(OutBuffers) BY <1>7, Concat DEF SendTake
  <2>2. address' \in OutBuffers /\ address' # 0 /\ outPool' \in Seq(OutBuffers)
        BY <1>7, <2>1, DecConstants DEF SendTake
  <2> QED BY <1>7, <2>2 DEF SendTake
<1>8. CASE SendAccepted
  <2>1. sending \in PacketNo BY <1>8, DecConstants DEF SendAccepted
  <2> DEFINE f == [pic |-> sending, buf |-> address]
  <2>2. f \in Frames /\ f \in Sent BY <2>1, FrameTypes
  <2>3. hw' \in Seq(Frames) /\ hw' \in Seq(Sent)
    <3>1. hw' = Append(hw, f) BY <1>8 DEF SendAccepted
    <3> HIDE DEF f
    <3>2. Append(hw, f) \in Seq(Frames) BY <2>2, Concat
    <3>3. Append(hw, f) \in Seq(Sent) BY <2>2, Concat
    <3> QED BY <3>1, <3>2, <3>3
  <2>4. outMem' \in [OutBuffers -> 0..MaxPackets] BY <1>8 DEF SendAccepted
  <2>5. 0 \in 0..MaxPackets BY DecConstants
  <2> QED BY <1>8, <2>3, <2>4, <2>5 DEF SendAccepted
<1>9. CASE SendRefused
  <2>1. sending \in PacketNo /\ 0 \in 0..MaxPackets BY <1>9, DecConstants DEF SendRefused
  <2> QED BY <1>9, <2>1 DEF SendRefused
<1>10. CASE SendEnd BY <1>10 DEF SendEnd
<1> QED BY <1>1, <1>2, <1>3, <1>4, <1>5, <1>6, <1>7, <1>8, <1>9, <1>10 DEF Send

LEMMA TypedGet ==
  ASSUME DecTyped, Get
  PROVE  DecTyped'
<1> USE DEF DecTyped, DecTypeOK, DecInHand, GetStep, sendVars, ownVars
<1>1. CASE GetTop BY <1>1 DEF GetTop
<1>2. CASE GetTimeout BY <1>2 DEF GetTimeout
<1>3. CASE GetFrame
  <2>1. hw # <<>>
    <3>1. Len(hw) > 0 BY <1>3, DecConstants DEF GetFrame, HardwareGives
    <3> QED BY <3>1
  <2>2. Head(hw) \in Sent /\ Tail(hw) \in Seq(Sent) /\ Tail(hw) \in Seq(Frames)
        BY <2>1, Concat
  <2>3. /\ got' = Head(hw) /\ hw' = Tail(hw) /\ outPool' = outPool /\ pictures' = pictures
        /\ gone' = IF Good(Head(hw)) THEN gone ELSE gone \cup {Head(hw).pic}
        /\ getPc' = IF Good(Head(hw)) THEN "emit" ELSE "put"
        BY <1>3 DEF GetFrame
  <2> DEFINE h == Head(hw)
  <2>4. h \in Frames /\ h # Nothing /\ h.pic \in PacketNo BY <2>2, FrameTypes
  <2> HIDE DEF h
  <2>5. /\ got' \in Frames /\ got' # Nothing /\ gone' \subseteq PacketNo
        /\ getPc' = IF Good(got') THEN "emit" ELSE "put"
        BY <2>3, <2>4 DEF h
  <2>6. getPc' = "emit" => Good(got)' BY <2>5 DEF Good
  <2>7. closePc # "dead" BY <1>3 DEF GetFrame
  <2>8. UNCHANGED <<sendVars, ownVars, outMem, astray, failed>> BY <1>3 DEF GetFrame
  <2> QED BY <2>2, <2>3, <2>5, <2>6, <2>7, <2>8
<1>4. CASE GetEmit
  <2>1. got.buf \in OutBuffers BY <1>4, FrameTypes DEF GetEmit, Good
  <2>2. outMem[got.buf] \in 0..MaxPackets BY <2>1
  <2>3. pictures' \in Seq(0..MaxPackets) BY <1>4, <2>2, Concat DEF GetEmit
  <2> QED BY <1>4, <2>3 DEF GetEmit
<1>5. CASE GetPut
  <2>1. PutOutAddr(got) \in Seq(OutBuffers)
    <3>1. <<>> \in Seq(OutBuffers) BY Concat
    <3>2. got.buf # 0 => got.buf \in OutBuffers BY FrameTypes
    <3>3. got.buf # 0 => <<got.buf>> \in Seq(OutBuffers) BY <3>2
    <3> QED BY <3>1, <3>3 DEF PutOutAddr
  <2>2. outPool' \in Seq(OutBuffers) BY <1>5, <2>1, Concat DEF GetPut
  <2> QED BY <1>5, <2>2, FrameTypes DEF GetPut
<1> QED BY <1>1, <1>2, <1>3, <1>4, <1>5 DEF Get

LEMMA DecTypedOwner ==
  ASSUME DecTyped, Caller
  PROVE  DecTyped'
<1> USE DEF DecTyped, DecTypeOK, DecInHand, CallerStep, getVars
<1>1. CASE InputVideoData
  <2>1. arrived + 1 \in PacketNo /\ arrived + 1 \in 0..MaxPackets
        BY <1>1, DecConstants DEF InputVideoData, PacketNo
  <2>2. es' \in Seq(PacketNo) BY <1>1, <2>1, Concat DEF InputVideoData, Push
  <2> QED BY <1>1, <2>1, <2>2 DEF InputVideoData
<1>2. CASE Stop BY <1>2 DEF Stop
<1>3. CASE JoinSend BY <1>3 DEF JoinSend
<1>4. CASE JoinGet
  <2>1. <<>> \in Seq(PacketNo) /\ <<>> \in Seq(OutBuffers) /\ <<>> \in Seq(Frames)
        /\ <<>> \in Seq(Sent)
        BY Concat
  <2>2. astray' \subseteq OutBuffers
    <3>1. \A i \in DOMAIN hw : hw[i] \in Frames BY ElementOfSeq
    <3>2. \A i \in DOMAIN hw : hw[i].buf \in {0} \cup OutBuffers BY <3>1, FrameTypes
    <3> QED BY <1>4, <3>2 DEF JoinGet
  <2> QED BY <1>4, <2>1, <2>2 DEF JoinGet
<1> QED BY <1>1, <1>2, <1>3, <1>4 DEF Caller, Join

LEMMA DecStepTyped ==
  DecTyped /\ [DecNext]_decVars => DecTyped'
<1> SUFFICES ASSUME DecTyped, [DecNext]_decVars PROVE DecTyped' OBVIOUS
<1>1. CASE UNCHANGED decVars
      BY <1>1
      DEF decVars, sendVars, getVars, outVars, ownVars, DecTyped, DecInHand, DecTypeOK, Good
<1> QED BY <1>1, TypedSend, TypedGet, DecTypedOwner DEF DecNext

(***************************************************************************)
(* Every variable keeps its type.                                          *)
(***************************************************************************)
THEOREM DecTypeCorrect ==
  DecSafeSpec => []DecTypeOK
<1>1. DecTyped => DecTypeOK BY DEF DecTyped
<1> QED BY <1>1, DecInitTyped, DecStepTyped, PTL DEF DecSafeSpec

(***************************************************************************)
(* Who owns the buffers.  The list of the buffers in the hardware follows  *)
(* the list of its packets.                                                *)
(***************************************************************************)
Places == {0} \cup OutBuffers
BufOf == [f \in Sent |-> f.buf]

LEMMA BufList ==
  ASSUME DecTyped
  PROVE  /\ BufOf \in Maps(Sent, Places) /\ \A f \in Sent : BufOf[f] = f.buf
         /\ HwBufs = Mapped(hw, BufOf) /\ HwBufs \in Seq(Places)
<1>1. BufOf \in Maps(Sent, Places) /\ \A f \in Sent : BufOf[f] = f.buf
      BY FrameTypes DEF BufOf, Maps, Places
<1>2. hw \in Seq(Sent) BY DEF DecTyped, DecInHand
<1>3. \A i \in DOMAIN hw : hw[i] \in Sent BY <1>2, ElementOfSeq
<1>4. HwBufs = Mapped(hw, BufOf) BY <1>1, <1>3 DEF HwBufs, Mapped
<1>5. Mapped(hw, BufOf) \in Seq(Places) BY <1>1, <1>2, MappedSeq
<1> QED BY <1>1, <1>4, <1>5

LEMMA BufListNext ==
  DecTyped' => (HwBufs = Mapped(hw, BufOf))'
<1>1. DecTyped => HwBufs = Mapped(hw, BufOf) BY BufList
<1> QED BY <1>1, PTL

LEMMA BufListAppend ==
  ASSUME DecTyped, DecTyped', NEW f \in Sent, hw' = Append(hw, f)
  PROVE  /\ ToSet(HwBufs)' = ToSet(HwBufs) \cup {f.buf}
         /\ IsInjective(HwBufs) /\ f.buf \notin ToSet(HwBufs) => IsInjective(HwBufs)'
<1>1. HwBufs' = Mapped(Append(hw, f), BufOf) BY BufListNext
<1>2. hw \in Seq(Sent) BY DEF DecTyped, DecInHand
<1>3. Mapped(Append(hw, f), BufOf) = Append(Mapped(hw, BufOf), BufOf[f])
      BY <1>2, BufList, MappedAppend
<1>4. HwBufs' = Append(HwBufs, f.buf) /\ HwBufs \in Seq(Places) BY <1>1, <1>3, BufList
<1>5. f.buf \in Places BY FrameTypes DEF Places
<1> DEFINE l == HwBufs
           b == f.buf
<1> HIDE DEF l, b
<1>6. /\ ToSet(Append(l, b)) = ToSet(l) \cup {b}
      /\ IsInjective(l) /\ b \notin ToSet(l) => IsInjective(Append(l, b))
      BY <1>4, <1>5, ItemsAppend DEF l, b
<1> QED BY <1>4, <1>6 DEF l, b

LEMMA BufListPop ==
  ASSUME DecTyped, DecTyped', hw # <<>>, hw' = Tail(hw), IsInjective(HwBufs)
  PROVE  /\ Head(hw).buf \in ToSet(HwBufs)
         /\ ToSet(HwBufs)' = ToSet(HwBufs) \ {Head(hw).buf}
         /\ IsInjective(HwBufs)'
<1>1. HwBufs' = Mapped(Tail(hw), BufOf) BY BufListNext
<1>2. hw \in Seq(Sent) /\ Head(hw) \in Sent
  <2>1. hw \in Seq(Sent) BY DEF DecTyped, DecInHand
  <2> QED BY <2>1, Concat
<1> DEFINE h == Head(hw)
<1>3. /\ Mapped(hw, BufOf) # <<>> /\ Head(Mapped(hw, BufOf)) = BufOf[h]
      /\ Mapped(Tail(hw), BufOf) = Tail(Mapped(hw, BufOf))
      BY <1>2, BufList, MappedPop
<1>4. BufOf[h] = h.buf BY <1>2, BufList
<1> HIDE DEF h
<1>5. /\ HwBufs # <<>> /\ Head(HwBufs) = h.buf /\ HwBufs' = Tail(HwBufs)
      /\ HwBufs \in Seq(Places)
      BY <1>1, <1>3, <1>4, BufList
<1>6. /\ Head(HwBufs) \in ToSet(HwBufs) /\ IsInjective(Tail(HwBufs))
      /\ ToSet(Tail(HwBufs)) = ToSet(HwBufs) \ {Head(HwBufs)}
      BY <1>5, ItemsPop
<1> QED BY <1>5, <1>6 DEF h

(***************************************************************************)
(* The invariant of the ownership: the places a buffer can be in exclude   *)
(* each other and make up the whole pool, and a buffer in the hardware or  *)
(* with the get thread holds its packet's picture.                         *)
(***************************************************************************)
InHw == ToSet(HwBufs)
DecInPool == ToSet(outPool)

DecApart ==
  /\ IsInjective(outPool) /\ IsInjective(HwBufs)
  /\ DecInPool \cap InHw = {} /\ DecInPool \cap astray = {} /\ InHw \cap astray = {}
  /\ address # 0 => address \notin DecInPool \cup InHw \cup astray \cup {got.buf}
  /\ got.buf # 0 => got.buf \notin DecInPool \cup InHw \cup astray
  /\ 0 \notin DecInPool
  /\ 0 \in InHw => stopping /\ sendPc \in {"top", "end", "done"}

DecComplete ==
  closePc # "dead" => OutBuffers \subseteq DecInPool \cup InHw \cup astray \cup {address, got.buf}

Written ==
  /\ \A i \in DOMAIN hw : hw[i].buf # 0 => outMem[hw[i].buf] = hw[i].pic
  /\ got.buf # 0 => outMem[got.buf] = got.pic

OwnInv == DecTyped /\ DecApart /\ DecComplete /\ Written

LEMMA OwnStutter ==
  ASSUME OwnInv, UNCHANGED <<outPool, outMem, hw, astray, address, got>>,
         closePc = "dead" => closePc' = "dead",
         0 \in InHw => stopping' /\ sendPc' \in {"top", "end", "done"}
  PROVE  DecApart' /\ DecComplete' /\ Written'
<1>1. HwBufs' = HwBufs /\ InHw' = InHw /\ DecInPool' = DecInPool
    BY DEF HwBufs, InHw, DecInPool
<1>2. DecApart' BY <1>1 DEF OwnInv, DecApart
<1>3. DecComplete' BY <1>1 DEF OwnInv, DecComplete
<1>4. Written' BY DEF OwnInv, Written
<1> QED BY <1>2, <1>3, <1>4

LEMMA OwnSend ==
  ASSUME OwnInv, DecTyped', Send
  PROVE  DecApart' /\ DecComplete' /\ Written'
<1> USE DEF SendStep, getVars, ownVars, outVars
<1>1. CASE SendTop \/ SendIdle \/ SendPop \/ SendCopy \/ SendAddr \/ SendStarved \/ SendEnd
  <2>1. /\ UNCHANGED <<outPool, outMem, hw, astray, address, got, closePc, stopping>>
        /\ sendPc \in {"top", "end", "done"} => sendPc' \in {"top", "end", "done"} \/ ~stopping
        BY <1>1
        DEF SendTop, SendIdle, SendPop, SendCopy, SendAddr, SendStarved, SendEnd
  <2>2. 0 \in InHw => stopping' /\ sendPc' \in {"top", "end", "done"}
        BY <2>1 DEF OwnInv, DecApart
  <2> QED BY <2>1, <2>2, OwnStutter
<1>2. CASE SendTake
  <2>1. /\ outPool # <<>> /\ address' = Head(outPool) /\ outPool' = Tail(outPool) /\ address = 0
        /\ UNCHANGED <<outMem, hw, astray, got, closePc, stopping>> /\ sendPc = "try"
        BY <1>2 DEF SendTake, OwnInv, DecTyped, DecInHand
  <2>2. outPool \in Seq(OutBuffers) /\ Head(outPool) \in OutBuffers
      BY <2>1, Concat DEF OwnInv, DecTyped, DecTypeOK
  <2>3. /\ address' \in DecInPool /\ IsInjective(outPool)' /\ DecInPool' = DecInPool \ {address'}
    <3>1. /\ Head(outPool) \in ToSet(outPool) /\ IsInjective(Tail(outPool))
          /\ ToSet(Tail(outPool)) = ToSet(outPool) \ {Head(outPool)}
          BY <2>1, <2>2, ItemsPop DEF OwnInv, DecApart
    <3> QED BY <2>1, <3>1 DEF DecInPool
  <2>4. address' # 0 BY <2>1, <2>2, DecConstants
  <2>5. HwBufs' = HwBufs /\ InHw' = InHw BY <2>1 DEF HwBufs, InHw
  <2>6. DecApart' BY <2>1, <2>3, <2>4, <2>5 DEF OwnInv, DecApart
  <2>7. DecComplete' BY <2>1, <2>3, <2>5, DecConstants DEF OwnInv, DecComplete
  <2>8. Written' BY <2>1 DEF OwnInv, Written
  <2> QED BY <2>6, <2>7, <2>8
<1>3. CASE SendAccepted
  <2> DEFINE f == [pic |-> sending, buf |-> address]
  <2>1. /\ hw' = Append(hw, f) /\ address' = 0
        /\ UNCHANGED <<outPool, astray, got, closePc, stopping>> /\ sendPc = "send" /\ sendPc' = "top"
        /\ outMem' = IF address = 0 THEN outMem ELSE [outMem EXCEPT ![address] = sending]
        BY <1>3 DEF SendAccepted
  <2>2. sending \in PacketNo /\ address \in Places
        BY <2>1, DecConstants DEF OwnInv, DecTyped, DecTypeOK, DecInHand, Places
  <2>3. f \in Sent /\ f.buf = address /\ f.pic = sending BY <2>2, FrameTypes DEF Places
  <2> HIDE DEF f
  <2>4. address \notin InHw
        BY <2>1 DEF OwnInv, DecApart
  <2>5. InHw' = InHw \cup {address} /\ IsInjective(HwBufs)'
    <3>1. /\ ToSet(HwBufs)' = ToSet(HwBufs) \cup {f.buf}
          /\ IsInjective(HwBufs) /\ f.buf \notin ToSet(HwBufs) => IsInjective(HwBufs)'
          BY <2>1, <2>3, BufListAppend DEF OwnInv
    <3> QED BY <2>3, <2>4, <3>1 DEF InHw, OwnInv, DecApart
  <2>6. DecInPool' = DecInPool BY <2>1 DEF DecInPool
  <2>7. address = 0 => stopping BY <2>1 DEF OwnInv, DecTyped, DecInHand
  <2>8. DecApart'
    <3>1. 0 \notin astray BY DecConstants DEF OwnInv, DecTyped, DecTypeOK
    <3>2. address \notin DecInPool \cup astray /\ (got.buf # 0 => got.buf # address)
          BY <3>1 DEF OwnInv, DecApart
    <3> QED BY <2>1, <2>5, <2>6, <2>7, <3>2 DEF OwnInv, DecApart
  <2>9. DecComplete' BY <2>1, <2>5, <2>6 DEF OwnInv, DecComplete
  <2>10. Written'
    <3>1. outMem \in [OutBuffers -> 0..MaxPackets] BY DEF OwnInv, DecTyped, DecTypeOK
    <3>2. \A b \in OutBuffers : b # address => outMem'[b] = outMem[b] BY <2>1, <3>1
    <3>3. address # 0 => outMem'[address] = sending
      <4>1. address # 0 => address \in OutBuffers BY <2>2 DEF Places
      <4> QED BY <2>1, <3>1, <4>1
    <3>4. /\ hw \in Seq(Sent) /\ Len(hw) \in Nat /\ DOMAIN hw = 1..Len(hw)
          /\ hw' \in Seq(Sent) /\ Len(hw') = Len(hw) + 1 /\ DOMAIN hw' = 1..Len(hw')
          /\ \A i \in 1..Len(hw) : hw'[i] = hw[i]
          /\ hw'[Len(hw) + 1] = f
      <4>1. hw \in Seq(Sent) /\ hw' \in Seq(Sent) BY DEF OwnInv, DecTyped, DecInHand
      <4> QED BY <2>1, <2>3, <4>1, AppendProperties
    <3>5. ASSUME NEW i \in DOMAIN hw', hw'[i].buf # 0 PROVE outMem'[hw'[i].buf] = hw'[i].pic
      <4>1. CASE i = Len(hw) + 1 BY <2>3, <3>3, <3>4, <3>5, <4>1
      <4>2. CASE i \in 1..Len(hw)
        <5>1. hw'[i] = hw[i] /\ hw[i] \in Sent BY <3>4, <4>2, ElementOfSeq
        <5>2. hw[i].buf \in OutBuffers BY <3>5, <5>1, FrameTypes
        <5>3. hw[i].buf \in InHw BY <3>4, <4>2 DEF InHw, HwBufs, ToSet
        <5>4. outMem'[hw[i].buf] = outMem[hw[i].buf] BY <2>4, <3>2, <5>2, <5>3
        <5> QED BY <3>4, <3>5, <4>2, <5>1, <5>4 DEF OwnInv, Written
      <4> QED BY <3>4, <4>1, <4>2
    <3>6. ASSUME got.buf # 0 PROVE outMem'[got.buf] = got.pic
      <4>1. got.buf \in OutBuffers BY <3>6, FrameTypes DEF OwnInv, DecTyped, DecTypeOK
      <4>2. got.buf # address BY <3>6 DEF OwnInv, DecApart
      <4> QED BY <3>2, <3>6, <4>1, <4>2 DEF OwnInv, Written
    <3> QED BY <2>1, <3>5, <3>6 DEF Written
  <2> QED BY <2>8, <2>9, <2>10
<1>4. CASE SendRefused
  <2>1. /\ astray' = astray \cup ({address} \ {0}) /\ address' = 0
        /\ UNCHANGED <<outPool, outMem, hw, got, closePc, stopping>> /\ sendPc = "send" /\ sendPc' = "top"
        BY <1>4 DEF SendRefused
  <2>2. HwBufs' = HwBufs /\ InHw' = InHw /\ DecInPool' = DecInPool
      BY <2>1 DEF HwBufs, InHw, DecInPool
  <2>3. DecApart' BY <2>1, <2>2 DEF OwnInv, DecApart
  <2>4. DecComplete' BY <2>1, <2>2, DecConstants DEF OwnInv, DecComplete
  <2> QED BY <2>1, <2>3, <2>4 DEF OwnInv, Written
<1> QED BY <1>1, <1>2, <1>3, <1>4 DEF Send

LEMMA OwnGet ==
  ASSUME OwnInv, DecTyped', Get
  PROVE  DecApart' /\ DecComplete' /\ Written'
<1> USE DEF GetStep, sendVars, ownVars
<1>1. CASE GetTop \/ GetTimeout \/ GetEmit
  <2>1. UNCHANGED <<outPool, outMem, hw, astray, address, got, closePc, stopping, sendPc>>
        BY <1>1 DEF GetTop, GetTimeout, GetEmit
  <2> QED BY <2>1, OwnStutter DEF OwnInv, DecApart
<1>2. CASE GetFrame
  <2>1. /\ got' = Head(hw) /\ hw' = Tail(hw) /\ got = Nothing
        /\ UNCHANGED <<outPool, outMem, astray, address, closePc, stopping, sendPc>>
        BY <1>2 DEF GetFrame, OwnInv, DecTyped, DecInHand
  <2>2. hw # <<>>
    <3>1. Len(hw) > 0 BY <1>2, DecConstants DEF GetFrame, HardwareGives
    <3> QED BY <3>1
  <2>3. got.buf = 0 BY <2>1, FrameTypes
  <2>4. got'.buf \in InHw /\ InHw' = InHw \ {got'.buf} /\ IsInjective(HwBufs)'
        BY <2>1, <2>2, BufListPop DEF OwnInv, DecApart, InHw
  <2>5. DecInPool' = DecInPool BY <2>1 DEF DecInPool
  <2>6. got'.buf = address => got'.buf = 0 BY <2>4 DEF OwnInv, DecApart
  <2>7. DecApart' BY <2>1, <2>4, <2>5, <2>6 DEF OwnInv, DecApart
  <2>8. DecComplete' BY <2>1, <2>3, <2>4, <2>5, DecConstants DEF OwnInv, DecComplete
  <2>9. Written'
    <3>1. hw \in Seq(Sent) BY DEF OwnInv, DecTyped, DecInHand
    <3>2. /\ Len(hw) \in Nat /\ Len(hw) # 0 /\ DOMAIN hw = 1..Len(hw)
          /\ Len(Tail(hw)) = Len(hw) - 1 /\ DOMAIN Tail(hw) = 1..Len(Tail(hw))
          /\ \A i \in 1..Len(Tail(hw)) : Tail(hw)[i] = hw[i + 1]
          /\ Head(hw) = hw[1]
          BY <2>2, <3>1, HeadTailProperties, EmptySeq
    <3>3. ASSUME NEW i \in DOMAIN Tail(hw) PROVE i + 1 \in DOMAIN hw /\ Tail(hw)[i] = hw[i + 1]
          BY <3>2
    <3>4. 1 \in DOMAIN hw BY <3>2
    <3> QED BY <2>1, <3>2, <3>3, <3>4 DEF OwnInv, Written
  <2> QED BY <2>7, <2>8, <2>9
<1>3. CASE GetPut
  <2>1. /\ outPool' = outPool \o PutOutAddr(got) /\ got' = Nothing
        /\ UNCHANGED <<outMem, hw, astray, address, closePc, stopping, sendPc>>
        BY <1>3 DEF GetPut
  <2>2. outPool \in Seq(OutBuffers) /\ got.buf \in {0} \cup OutBuffers
        BY FrameTypes DEF OwnInv, DecTyped, DecTypeOK
  <2>3. DecInPool' = DecInPool \cup ({got.buf} \ {0}) /\ IsInjective(outPool)'
    <3>1. CASE got.buf = 0
      <4>1. outPool' = outPool BY <2>1, <2>2, <3>1, Concat DEF PutOutAddr
      <4> QED BY <3>1, <4>1 DEF DecInPool, OwnInv, DecApart
    <3>2. CASE got.buf # 0
      <4> DEFINE b == got.buf
      <4>1. b \in OutBuffers BY <2>2, <3>2
      <4>2. PutOutAddr(got) = <<b>> BY <3>2 DEF PutOutAddr
      <4> HIDE DEF b
      <4>3. outPool' = Append(outPool, b) BY <2>1, <2>2, <4>1, <4>2, Concat
      <4>4. b \notin ToSet(outPool) BY <3>2 DEF OwnInv, DecApart, DecInPool, b
      <4>5. ToSet(Append(outPool, b)) = ToSet(outPool) \cup {b} /\ IsInjective(Append(outPool, b))
            BY <2>2, <4>1, <4>4, ItemsAppend DEF OwnInv, DecApart
      <4> QED BY <3>2, <4>3, <4>5 DEF DecInPool, b
    <3> QED BY <3>1, <3>2
  <2>4. got'.buf = 0 BY <2>1, FrameTypes
  <2>5. HwBufs' = HwBufs /\ InHw' = InHw BY <2>1 DEF HwBufs, InHw
  <2>6. DecApart' BY <2>1, <2>3, <2>4, <2>5 DEF OwnInv, DecApart
  <2>7. DecComplete' BY <2>1, <2>3, <2>4, <2>5, DecConstants DEF OwnInv, DecComplete
  <2>8. Written' BY <2>1, <2>4 DEF OwnInv, Written
  <2> QED BY <2>6, <2>7, <2>8
<1> QED BY <1>1, <1>2, <1>3 DEF Get

LEMMA OwnOwner ==
  ASSUME OwnInv, DecTyped', Caller
  PROVE  DecApart' /\ DecComplete' /\ Written'
<1> USE DEF CallerStep, getVars
<1>1. CASE InputVideoData \/ Stop \/ JoinSend
  <2>1. /\ UNCHANGED <<outPool, outMem, hw, astray, address, got, sendPc>> /\ closePc # "dead"
        /\ stopping => stopping'
        BY <1>1 DEF InputVideoData, Stop, JoinSend, OwnInv, DecTyped, DecTypeOK
  <2> QED BY <2>1, OwnStutter DEF OwnInv, DecApart
<1>2. CASE JoinGet
  <2>1. /\ outPool' = <<>> /\ hw' = <<>> /\ closePc' = "dead" /\ address' = 0 /\ got' = Nothing
        /\ astray' = astray \cup ({hw[i].buf : i \in DOMAIN hw} \ {0})
        BY <1>2 DEF JoinGet, OwnInv, DecTyped, DecInHand
  <2>2. ToSet(<<>>) = {} /\ IsInjective(<<>>) /\ DOMAIN <<>> = {} BY SetOf
  <2>3. HwBufs' = <<>>
    <3>1. HwBufs' = [i \in {} |-> hw'[i].buf] BY <2>1, <2>2 DEF HwBufs
    <3> QED BY <3>1
  <2>4. InHw' = {} /\ DecInPool' = {} BY <2>1, <2>2, <2>3 DEF InHw, DecInPool
  <2>5. got'.buf = 0 BY <2>1, FrameTypes
  <2> QED BY <2>1, <2>2, <2>3, <2>4, <2>5 DEF DecApart, DecComplete, Written
<1> QED BY <1>1, <1>2 DEF Caller, Join

LEMMA StepOwn ==
  OwnInv /\ [DecNext]_decVars => OwnInv'
<1> SUFFICES ASSUME OwnInv, [DecNext]_decVars PROVE OwnInv' OBVIOUS
<1>1. DecTyped' BY DecStepTyped DEF OwnInv
<1>2. CASE UNCHANGED decVars
      BY <1>1, <1>2, OwnStutter
      DEF decVars, sendVars, getVars, outVars, ownVars, OwnInv, DecApart
<1> QED BY <1>1, <1>2, OwnSend, OwnGet, OwnOwner DEF DecNext, OwnInv

LEMMA InitOwn ==
  DecInit => OwnInv
<1> SUFFICES ASSUME DecInit PROVE OwnInv OBVIOUS
<1>1. ToSet(<<>>) = {} /\ IsInjective(<<>>) /\ DOMAIN <<>> = {} BY SetOf
<1>2. HwBufs = <<>>
  <2>1. HwBufs = [i \in {} |-> hw[i].buf] BY <1>1 DEF DecInit, HwBufs
  <2> QED BY <2>1
<1>3. DecInPool = OutBuffers /\ IsInjective(outPool) BY DEF DecInit, DecInPool, ToSet, IsInjective
<1>4. got.buf = 0 BY FrameTypes DEF DecInit
<1>5. InHw = {} BY <1>1, <1>2 DEF InHw
<1>6. DecApart BY <1>1, <1>2, <1>3, <1>4, <1>5, DecConstants DEF DecInit, DecApart
<1>7. DecComplete BY <1>3 DEF DecComplete
<1>8. Written BY <1>1, <1>4 DEF DecInit, Written
<1> QED BY <1>6, <1>7, <1>8, DecInitTyped DEF OwnInv

(* A place that holds at most one buffer, as a list. *)
LEMMA DecOneItem ==
  ASSUME NEW b \in Places
  PROVE  Single(b) \in Seq(Places) /\ ToSet(Single(b)) = {b} \ {0} /\ IsInjective(Single(b))
<1>1. <<>> \in Seq(Places) /\ ToSet(<<>>) = {} /\ IsInjective(<<>>) BY SetOf, Concat
<1>2. <<b>> \in Seq(Places) /\ ToSet(<<b>>) = {b} /\ IsInjective(<<b>>) BY SetOf
<1> QED BY <1>1, <1>2 DEF Single

LEMMA OwnedBuffers ==
  OwnInv => OutBuffersOwned
<1> SUFFICES ASSUME OwnInv PROVE OutBuffersOwned OBVIOUS
<1> USE DEF OwnInv
<1> DEFINE a == Single(address)
           g == Single(got.buf)
           p == outPool
           h == HwBufs
<1>1. address \in Places /\ got.buf \in Places BY FrameTypes DEF DecTyped, DecTypeOK, Places
<1>2. /\ a \in Seq(Places) /\ ToSet(a) = {address} \ {0} /\ IsInjective(a)
      /\ g \in Seq(Places) /\ ToSet(g) = {got.buf} \ {0} /\ IsInjective(g)
      BY <1>1, DecOneItem
<1>3. /\ h \in Seq(Places) /\ IsInjective(h) /\ ToSet(h) = InHw
      BY BufList DEF DecApart, InHw
<1>4. /\ p \in Seq(Places) /\ IsInjective(p) /\ ToSet(p) = DecInPool
      BY DEF DecApart, DecInPool, DecTyped, DecTypeOK, Places
<1>5. OutHeld = Cat(Cat(Cat(p, a), h), g) BY DEF OutHeld, Cat
<1> HIDE DEF a, g, p, h
<1> DEFINE u == Cat(p, a)
           v == Cat(u, h)
<1>6. u \in Seq(Places) /\ IsInjective(u) /\ ToSet(u) = DecInPool \cup ({address} \ {0})
  <2>1. ToSet(p) \cap ToSet(a) = {} BY <1>2, <1>4 DEF DecApart
  <2>2. u \in Seq(Places) BY <1>2, <1>4, CatLaws
  <2> QED BY <1>2, <1>4, <2>1, <2>2, Halves
<1> HIDE DEF u
<1>7. v \in Seq(Places) /\ IsInjective(v) /\ ToSet(v) = DecInPool \cup ({address} \ {0}) \cup InHw
  <2>1. ToSet(u) \cap ToSet(h) = {} BY <1>3, <1>6 DEF DecApart
  <2>2. v \in Seq(Places) BY <1>3, <1>6, CatLaws
  <2> QED BY <1>3, <1>6, <2>1, <2>2, Halves
<1> HIDE DEF v
<1>8. /\ IsInjective(Cat(v, g))
      /\ ToSet(Cat(v, g)) = DecInPool \cup ({address} \ {0}) \cup InHw \cup ({got.buf} \ {0})
  <2>1. ToSet(v) \cap ToSet(g) = {} BY <1>2, <1>7 DEF DecApart
  <2> QED BY <1>2, <1>7, <2>1, Halves
<1>9. OutHeld = Cat(v, g) BY <1>5 DEF u, v
<1>10. ToSet(OutHeld) \cap astray = {} BY <1>8, <1>9 DEF DecApart
<1>11. closePc # "dead" => (ToSet(OutHeld) \cup astray) \ {0} = OutBuffers
  <2>1. DecInPool \subseteq OutBuffers /\ InHw \subseteq Places /\ astray \subseteq OutBuffers
        /\ 0 \notin OutBuffers
    <3>1. ToSet(outPool) \in SUBSET OutBuffers BY SetOf DEF DecTyped, DecTypeOK
    <3>2. ToSet(HwBufs) \in SUBSET Places BY SetOf, BufList
    <3> QED BY <3>1, <3>2, DecConstants DEF DecInPool, InHw, DecTyped, DecTypeOK
  <2> QED BY <1>1, <1>8, <1>9, <2>1 DEF DecComplete, Places
<1>12. 0 \in ToSet(HwBufs) => stopping BY DEF DecApart, InHw
<1>13. \A s : ToSet(s) = ToSet(s) /\ (IsInjective(s) <=> IsInjective(s))
       BY DEF ToSet, ToSet, IsInjective, IsInjective
<1> QED BY <1>8, <1>9, <1>10, <1>11, <1>12, <1>13 DEF OutBuffersOwned, DecTyped

(***************************************************************************)
(* However the threads and the destructor interleave, whatever the         *)
(* hardware refuses and whenever abort_ is set: no buffer is ever in two   *)
(* places, none disappears but those of refused packets and those in the   *)
(* hardware at its end, and a packet without a buffer is sent only after   *)
(* abort_.                                                                 *)
(***************************************************************************)
THEOREM BuffersOwned ==
  DecSafeSpec => []OutBuffersOwned
<1> QED BY InitOwn, StepOwn, OwnedBuffers, PTL DEF DecSafeSpec

(***************************************************************************)
(* The decoder as a LossyFifo: what is inside is the picture about to be   *)
(* given, the packets in the hardware, the one in hand and those waiting.  *)
(***************************************************************************)
Emitting == IF getPc = "emit" THEN <<outMem[got.buf]>> ELSE <<>>
DecCoded == [i \in DOMAIN hw |-> hw[i].pic]
DecWaiting == Cat(Single(sending), es)
Owed == Cat(DecCoded, DecWaiting)
DecInside == Emitting \o DecCoded \o Single(sending) \o es

DecPicOf == [f \in Sent |-> f.pic]

DecFlowParts ==
  /\ Emitting \in Seq(PacketNo) /\ DecCoded \in Seq(PacketNo) /\ Single(sending) \in Seq(PacketNo)
  /\ es \in Seq(PacketNo) /\ DecWaiting \in Seq(PacketNo) /\ Owed \in Seq(PacketNo)
  /\ DecInside \in Seq(PacketNo) /\ DecInside = Cat(Emitting, Owed)
  /\ Emitting = (IF getPc = "emit" THEN <<got.pic>> ELSE <<>>)
  /\ getPc = "emit" => outMem[got.buf] = got.pic /\ got.pic \in PacketNo
  /\ DecCoded = Mapped(hw, DecPicOf)

LEMMA DecPicMap ==
  DecPicOf \in Maps(Sent, PacketNo) /\ \A f \in Sent : DecPicOf[f] = f.pic
BY FrameTypes DEF DecPicOf, Maps

LEMMA DecParts ==
  OwnInv => DecFlowParts
<1> SUFFICES ASSUME OwnInv PROVE DecFlowParts OBVIOUS
<1> USE DEF OwnInv, DecTyped
<1>1. hw \in Seq(Sent) /\ es \in Seq(PacketNo) /\ sending \in 0..MaxPackets
      BY DEF DecInHand, DecTypeOK
<1>2. getPc = "emit" => outMem[got.buf] = got.pic /\ got.pic \in PacketNo
  <2>1. got \in Frames BY DEF DecTypeOK
  <2>2. getPc = "emit" => got # Nothing /\ got.buf # 0 BY DEF DecInHand, Good
  <2> QED BY <2>1, <2>2, FrameTypes DEF Written
<1>3. Emitting = (IF getPc = "emit" THEN <<got.pic>> ELSE <<>>) BY <1>2 DEF Emitting
<1>4. <<>> \in Seq(PacketNo) BY Concat
<1>5. Emitting \in Seq(PacketNo)
  <2>1. getPc = "emit" => <<got.pic>> \in Seq(PacketNo) BY <1>2
  <2> QED BY <1>3, <1>4, <2>1
<1>6. DecCoded = Mapped(hw, DecPicOf) /\ DecCoded \in Seq(PacketNo)
  <2>1. \A i \in DOMAIN hw : hw[i] \in Sent BY <1>1, ElementOfSeq
  <2>2. DecCoded = Mapped(hw, DecPicOf) BY <2>1, DecPicMap DEF DecCoded, Mapped
  <2>3. Mapped(hw, DecPicOf) \in Seq(PacketNo) BY <1>1, DecPicMap, MappedSeq
  <2> QED BY <2>2, <2>3
<1>7. Single(sending) \in Seq(PacketNo)
  <2>1. sending # 0 => <<sending>> \in Seq(PacketNo) BY <1>1, DecConstants
  <2> QED BY <1>4, <2>1 DEF Single
<1>8. DecWaiting \in Seq(PacketNo) BY <1>1, <1>7, CatLaws DEF DecWaiting
<1>9. Owed \in Seq(PacketNo) BY <1>6, <1>8, CatLaws DEF Owed
<1>10. DecInside = Cat(Emitting, Owed)
  <2>1. DecInside = Cat(Cat(Cat(Emitting, DecCoded), Single(sending)), es) BY DEF DecInside, Cat
  <2>2. Cat(Emitting, DecCoded) \in Seq(PacketNo) BY <1>5, <1>6, CatLaws
  <2>3. Cat(Cat(Cat(Emitting, DecCoded), Single(sending)), es)
          = Cat(Cat(Emitting, DecCoded), Cat(Single(sending), es))
        BY <1>1, <1>7, <2>2, CatAssociative
  <2>4. Cat(Cat(Emitting, DecCoded), DecWaiting) = Cat(Emitting, Cat(DecCoded, DecWaiting))
        BY <1>5, <1>6, <1>8, CatAssociative
  <2> QED BY <2>1, <2>3, <2>4 DEF DecWaiting, Owed
<1>11. DecInside \in Seq(PacketNo) BY <1>5, <1>9, <1>10, CatLaws
<1> QED BY <1>1, <1>2, <1>3, <1>5, <1>6, <1>7, <1>8, <1>9, <1>10, <1>11 DEF DecFlowParts

LEMMA DecPartsNext ==
  OwnInv' => DecFlowParts'
BY DecParts, PTL

DecLoseStep == Lossy(DecInside, DecInside') /\ UNCHANGED <<pictures, arrived>>
DecPutStep == Joined(DecInside, DecInside', arrived + 1) /\ arrived' = arrived + 1 /\ UNCHANGED pictures
DecGiveStep ==
  /\ DecInside # <<>>
  /\ pictures' = Append(pictures, Head(DecInside))
  /\ DecInside' = Tail(DecInside)
  /\ UNCHANGED arrived
DecFifoStep == DecLoseStep \/ DecPutStep \/ DecGiveStep \/ UNCHANGED <<DecInside, pictures, arrived>>

LEMMA DecFifoStutter ==
  ASSUME UNCHANGED <<Emitting, hw, sending, es, pictures, arrived>>
  PROVE  DecFifoStep
<1>1. DecCoded' = DecCoded BY DEF DecCoded
<1> QED BY <1>1 DEF DecFifoStep, DecInside

LEMMA FifoSend ==
  ASSUME DecFlowParts, DecFlowParts', OwnInv, Send
  PROVE  DecFifoStep
<1> USE DEF SendStep, getVars, ownVars, outVars
<1>1. CASE SendTop \/ SendIdle \/ SendCopy \/ SendAddr \/ SendStarved \/ SendTake \/ SendEnd
  <2>1. UNCHANGED <<outMem, got, getPc, hw, sending, es, pictures, arrived>>
        BY <1>1
        DEF SendTop, SendIdle, SendCopy, SendAddr, SendStarved, SendTake, SendEnd
  <2> QED BY <2>1, DecFifoStutter DEF Emitting
<1>2. CASE SendPop
  <2>1. es # <<>> /\ sending = 0 /\ sending' = Head(es) /\ es' = Tail(es)
        /\ UNCHANGED <<outMem, got, getPc, hw, pictures, arrived>>
        BY <1>2 DEF SendPop, OwnInv, DecTyped, DecInHand
  <2>2. Head(es) \in PacketNo BY <2>1, Concat DEF DecFlowParts
  <2>3. Head(es) # 0 BY <2>2, DecConstants
  <2>4. Single(sending) = <<>> /\ Single(sending)' = <<Head(es)>> BY <2>1, <2>3 DEF Single
  <2>5. DecWaiting' = DecWaiting BY <2>1, <2>4, CatLaws DEF DecWaiting, DecFlowParts
  <2>6. DecCoded' = DecCoded /\ Emitting' = Emitting BY <2>1 DEF DecCoded, Emitting
  <2>7. DecInside' = DecInside BY <2>5, <2>6 DEF DecFlowParts, Owed
  <2> QED BY <2>1, <2>7 DEF DecFifoStep
<1>3. CASE SendAccepted
  <2>1. /\ hw' = Append(hw, [pic |-> sending, buf |-> address])
        /\ sending' = 0 /\ sendPc = "send"
        /\ UNCHANGED <<got, getPc, es, pictures, arrived>>
        BY <1>3 DEF SendAccepted
  <2>2. sending \in PacketNo /\ sending # 0 /\ address \in {0} \cup OutBuffers
        BY <2>1, DecConstants DEF OwnInv, DecTyped, DecTypeOK, DecInHand
  <2>3. Single(sending) = <<sending>> /\ Single(sending)' = <<>> BY <2>1, <2>2 DEF Single
  <2>4. Emitting' = Emitting BY <2>1 DEF DecFlowParts
  <2>5. DecCoded' = Cat(DecCoded, Single(sending))
    <3> DEFINE f == [pic |-> sending, buf |-> address]
    <3>1. f \in Sent /\ DecPicOf[f] = sending BY <2>2, FrameTypes, DecPicMap
    <3>2. hw \in Seq(Sent) BY DEF OwnInv, DecTyped, DecInHand
    <3>3. hw' = Append(hw, f) BY <2>1
    <3> HIDE DEF f
    <3>4. Mapped(Append(hw, f), DecPicOf) = Append(Mapped(hw, DecPicOf), DecPicOf[f])
          BY <3>1, <3>2, DecPicMap, MappedAppend
    <3>5. DecCoded' = Append(DecCoded, sending) BY <3>1, <3>3, <3>4 DEF DecFlowParts
    <3> QED BY <2>2, <2>3, <3>5, CatLaws DEF DecFlowParts
  <2>6. DecWaiting' = es BY <2>1, <2>3, CatLaws DEF DecWaiting, DecFlowParts
  <2>7. Owed' = Owed BY <2>5, <2>6, CatAssociative DEF Owed, DecWaiting, DecFlowParts
  <2>8. DecInside' = DecInside BY <2>4, <2>7 DEF DecFlowParts
  <2> QED BY <2>1, <2>8 DEF DecFifoStep
<1>4. CASE SendRefused
  <2>1. sending' = 0 /\ sendPc = "send"
        /\ UNCHANGED <<outMem, got, getPc, hw, es, pictures, arrived>>
        BY <1>4 DEF SendRefused
  <2>2. sending \in PacketNo /\ sending # 0
        BY <2>1, DecConstants DEF OwnInv, DecTyped, DecTypeOK, DecInHand
  <2>3. Single(sending) = <<sending>> /\ Single(sending)' = <<>> BY <2>1, <2>2 DEF Single
  <2>4. DecWaiting' = es BY <2>1, <2>3, CatLaws DEF DecWaiting, DecFlowParts
  <2>5. Lossy(DecWaiting, DecWaiting')
      BY <2>2, <2>3, <2>4, CatLossy DEF DecWaiting, DecFlowParts
  <2>6. DecCoded' = DecCoded /\ Emitting' = Emitting BY <2>1 DEF DecCoded, Emitting
  <2>7. Lossy(Owed, Owed') BY <2>5, <2>6, CatLossy DEF Owed, DecFlowParts
  <2>8. Lossy(DecInside, DecInside') BY <2>6, <2>7, CatLossy DEF DecFlowParts
  <2> QED BY <2>1, <2>8 DEF DecFifoStep, DecLoseStep
<1> QED BY <1>1, <1>2, <1>3, <1>4 DEF Send

LEMMA FifoGet ==
  ASSUME DecFlowParts, DecFlowParts', OwnInv, Get
  PROVE  DecFifoStep
<1> USE DEF GetStep, sendVars, ownVars
<1>1. CASE GetTop \/ GetTimeout \/ GetPut
  <2>1. UNCHANGED <<hw, sending, es, pictures, arrived>> /\ getPc # "emit" /\ getPc' # "emit"
        BY <1>1 DEF GetTop, GetTimeout, GetPut
  <2> QED BY <2>1, DecFifoStutter DEF Emitting
<1>2. CASE GetFrame
  <2>1. /\ got' = Head(hw) /\ hw' = Tail(hw) /\ getPc = "get"
        /\ getPc' = IF Good(Head(hw)) THEN "emit" ELSE "put"
        /\ UNCHANGED <<sending, es, pictures, arrived>>
        BY <1>2 DEF GetFrame
  <2>2. hw # <<>>
    <3>1. Len(hw) > 0 BY <1>2, DecConstants DEF GetFrame, HardwareGives
    <3> QED BY <3>1
  <2> DEFINE x == Head(hw).pic
  <2>3. x \in PacketNo /\ DecCoded = Cat(<<x>>, DecCoded')
    <3>1. hw \in Seq(Sent) BY DEF OwnInv, DecTyped, DecInHand
    <3>2. Head(hw) \in Sent BY <2>2, <3>1, Concat
    <3>3. DecPicOf[Head(hw)] = x /\ x \in PacketNo BY <3>2, DecPicMap, FrameTypes
    <3>4. /\ Mapped(hw, DecPicOf) # <<>> /\ Head(Mapped(hw, DecPicOf)) = DecPicOf[Head(hw)]
          /\ Mapped(Tail(hw), DecPicOf) = Tail(Mapped(hw, DecPicOf))
          BY <2>2, <3>1, DecPicMap, MappedPop
    <3> HIDE DEF x
    <3>5. DecCoded # <<>> /\ Head(DecCoded) = x /\ DecCoded' = Tail(DecCoded)
          BY <2>1, <3>3, <3>4 DEF DecFlowParts
    <3> QED BY <3>3, <3>5, CatLaws DEF DecFlowParts
  <2>4. Emitting = <<>> BY <2>1 DEF Emitting
  <2>5. DecWaiting' = DecWaiting BY <2>1 DEF DecWaiting
  <2>6. DecInside = Owed BY <2>4, CatLaws DEF DecFlowParts
  <2>7. <<x>> \in Seq(PacketNo) BY <2>3, Concat
  <2>8. Owed = Cat(<<x>>, Owed')
    <3> DEFINE c == DecCoded'
               e == <<x>>
    <3>1. /\ e \in Seq(PacketNo) /\ c \in Seq(PacketNo) /\ DecWaiting \in Seq(PacketNo)
          /\ Owed = Cat(Cat(e, c), DecWaiting) /\ Owed' = Cat(c, DecWaiting)
          BY <2>3, <2>5, <2>7 DEF Owed, DecFlowParts
    <3> HIDE DEF c, e
    <3>2. Cat(Cat(e, c), DecWaiting) = Cat(e, Cat(c, DecWaiting)) BY <3>1, CatAssociative
    <3>3. Owed = Cat(e, Owed') BY <3>1, <3>2
    <3> QED BY <3>3 DEF e
  <2>9. CASE Good(Head(hw))
    <3>1. Emitting' = <<x>> BY <2>1, <2>9 DEF DecFlowParts
    <3>2. DecInside' = DecInside BY <2>6, <2>8, <3>1 DEF DecFlowParts
    <3> QED BY <2>1, <3>2 DEF DecFifoStep
  <2>10. CASE ~Good(Head(hw))
    <3>1. Emitting' = <<>> BY <2>1, <2>10 DEF Emitting
    <3>2. DecInside' = Owed' BY <3>1, CatLaws DEF DecFlowParts
    <3> HIDE DEF x
    <3>3. Lossy(DecInside, DecInside') BY <2>3, <2>6, <2>8, <3>2, CatLossy DEF DecFlowParts
    <3> QED BY <2>1, <3>3 DEF DecFifoStep, DecLoseStep
  <2> QED BY <2>9, <2>10
<1>3. CASE GetEmit
  <2>1. /\ pictures' = Append(pictures, outMem[got.buf])
        /\ getPc = "emit" /\ getPc' = "put" /\ UNCHANGED <<hw, sending, es, arrived>>
        BY <1>3 DEF GetEmit
  <2> DEFINE x == got.pic
  <2>2. x \in PacketNo /\ Emitting = <<x>> /\ pictures' = Append(pictures, x)
        BY <2>1 DEF DecFlowParts
  <2>3. Emitting' = <<>> BY <2>1 DEF Emitting
  <2>4. Owed' = Owed BY <2>1 DEF Owed, DecWaiting, DecCoded
  <2> HIDE DEF x
  <2>5. DecInside' = Owed BY <2>3, <2>4, CatLaws DEF DecFlowParts
  <2>6. DecInside # <<>> /\ Head(DecInside) = x /\ Tail(DecInside) = Owed
        BY <2>2, CatFirst DEF DecFlowParts
  <2> QED BY <2>1, <2>2, <2>5, <2>6 DEF DecFifoStep, DecGiveStep
<1> QED BY <1>1, <1>2, <1>3 DEF Get

LEMMA DecFifoOwner ==
  ASSUME DecFlowParts, DecFlowParts', OwnInv, Caller
  PROVE  DecFifoStep
<1> USE DEF CallerStep, getVars
<1>1. CASE Stop \/ JoinSend
  <2>1. UNCHANGED <<outMem, got, getPc, hw, sending, es, pictures, arrived>>
        BY <1>1 DEF Stop, JoinSend
  <2> QED BY <2>1, DecFifoStutter DEF Emitting
<1>2. CASE InputVideoData
  <2>1. /\ es' = Append(es, arrived + 1) /\ arrived' = arrived + 1
        /\ UNCHANGED <<outMem, got, getPc, hw, sending, pictures>>
        BY <1>2 DEF InputVideoData, Push
  <2>2. arrived + 1 \in PacketNo
        BY <1>2, DecConstants DEF InputVideoData, OwnInv, DecTyped, DecTypeOK, PacketNo
  <2>3. Joined(es, es', arrived + 1) BY <2>1, JoinedLast DEF DecFlowParts
  <2>4. Joined(DecWaiting, DecWaiting', arrived + 1)
        BY <2>1, <2>2, <2>3, CatJoined DEF DecWaiting, DecFlowParts
  <2>5. DecCoded' = DecCoded /\ Emitting' = Emitting BY <2>1 DEF DecCoded, Emitting
  <2>6. Joined(Owed, Owed', arrived + 1) BY <2>2, <2>4, <2>5, CatJoined DEF Owed, DecFlowParts
  <2>7. Joined(DecInside, DecInside', arrived + 1) BY <2>2, <2>5, <2>6, CatJoined DEF DecFlowParts
  <2> QED BY <2>1, <2>7 DEF DecFifoStep, DecPutStep
<1>3. CASE JoinGet
  <2>1. /\ sending = 0 /\ getPc = "done" /\ es' = <<>> /\ hw' = <<>>
        /\ UNCHANGED <<sending, getPc, pictures, arrived>>
        BY <1>3 DEF JoinGet, OwnInv, DecTyped, DecInHand
  <2>2. Single(sending)' = <<>> /\ Emitting' = <<>> BY <2>1 DEF Single, Emitting
  <2>3. DecCoded' = <<>>
    <3>1. DOMAIN <<>> = {} OBVIOUS
    <3>2. DecCoded' = [i \in {} |-> hw'[i].pic] BY <2>1, <3>1 DEF DecCoded
    <3> QED BY <3>2
  <2>4. DecWaiting' = <<>> BY <2>1, <2>2, CatLaws DEF DecWaiting, DecFlowParts
  <2>5. Owed' = <<>> BY <2>3, <2>4, CatLaws DEF Owed, DecFlowParts
  <2>6. DecInside' = <<>> BY <2>2, <2>5, CatLaws DEF DecFlowParts
  <2>7. DecInside # <<>> => Lossy(DecInside, <<>>) BY LossyAll DEF DecFlowParts
  <2> QED BY <2>1, <2>6, <2>7 DEF DecFifoStep, DecLoseStep
<1> QED BY <1>1, <1>2, <1>3 DEF Caller, Join

LEMMA DecStepFifo ==
  OwnInv /\ OwnInv' /\ [DecNext]_decVars => [DLF!Next]_(DLF!vars)
<1> SUFFICES ASSUME OwnInv, OwnInv', [DecNext]_decVars PROVE [DLF!Next]_(DLF!vars) OBVIOUS
<1>1. DecFlowParts /\ DecFlowParts' BY DecParts, DecPartsNext
<1>2. DecFifoStep
  <2>1. CASE UNCHANGED decVars
    <3>1. UNCHANGED <<Emitting, hw, sending, es, pictures, arrived>>
          BY <2>1 DEF decVars, sendVars, getVars, outVars, ownVars, Emitting
    <3> QED BY <3>1, DecFifoStutter
  <2> QED BY <1>1, <2>1, FifoSend, FifoGet, DecFifoOwner DEF DecNext
<1>3. UNCHANGED <<DecInside, pictures, arrived>> => UNCHANGED DLF!vars
      BY DEF DLF!vars, DecInside, Emitting, DecCoded
<1>4. DecLoseStep => DLF!Lose
      BY DEF DecLoseStep, Lossy, DLF!Lose, DLF!Without, DecInside, Emitting, DecCoded
<1>5. DecPutStep => DLF!Put BY DEF DecPutStep, Joined, DLF!Put, DecInside, Emitting, DecCoded
<1>6. DecGiveStep => DLF!Get BY DEF DecGiveStep, DLF!Get, DecInside, Emitting, DecCoded
<1> QED BY <1>2, <1>3, <1>4, <1>5, <1>6 DEF DecFifoStep, DLF!Next

LEMMA DecInitFifo ==
  DecInit => DLF!Init
<1> SUFFICES ASSUME DecInit PROVE DLF!Init OBVIOUS
<1>1. DecFlowParts BY InitOwn, DecParts
<1>2. Single(sending) = <<>> /\ Emitting = <<>> BY DEF DecInit, Single, Emitting
<1>3. DecCoded = <<>>
  <2>1. DOMAIN <<>> = {} OBVIOUS
  <2>2. DecCoded = [i \in {} |-> hw[i].pic] BY <2>1 DEF DecInit, DecCoded
  <2> QED BY <2>2
<1>4. DecWaiting = <<>> BY <1>1, <1>2, CatLaws DEF DecInit, DecWaiting, DecFlowParts
<1>5. Owed = <<>> BY <1>1, <1>3, <1>4, CatLaws DEF Owed, DecFlowParts
<1>6. DecInside = <<>> BY <1>1, <1>2, <1>5, CatLaws DEF DecFlowParts
<1> QED BY <1>6 DEF DecInit, DLF!Init, DecInside, Emitting, DecCoded

(***************************************************************************)
(* Whatever the hardware refuses, delays or marks as bad: the listener     *)
(* gets the pictures in the order their packets were put in, each at most  *)
(* once and with the content of its own packet, although the hardware      *)
(* writes the same few buffers again and again.                            *)
(***************************************************************************)
THEOREM DecoderImplementsFifo ==
  DecSafeSpec => DecoderIsFifo
<1> QED
    BY InitOwn, StepOwn, DecInitFifo, DecStepFifo, PTL
    DEF DecSafeSpec, DecoderIsFifo, DLF!Spec
=============================================================================
