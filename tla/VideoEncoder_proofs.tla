------------------------ MODULE VideoEncoder_proofs -------------------------
(***************************************************************************)
(* Proofs about VideoEncoder, for any number of pictures of any sizes, any *)
(* limit of the lists, any latency of the codec and any resolution of the  *)
(* clock.                                                                  *)
(***************************************************************************)
EXTENDS VideoEncoder, FifoLemmas

(***************************************************************************)
(* The invariant: what each thread has in hand where it is; the codec is   *)
(* empty once the encode thread has ended, unless its flush was cut short; *)
(* the packet before was not later than now; every frame the codec has     *)
(* accepted is in it, or came out, or fell to an error, one for each; the  *)
(* destructor frees what a flush cut short has left.                       *)
(***************************************************************************)
InHand ==
  /\ scaling # 0 <=> scalePc \in {"size", "convert", "push"}
  /\ encoding # 0 <=> encPc \in {"send", "receive"}
  /\ encPc = "done" => codec = <<>> \/ cut
  /\ opc \in {"joinScale", "dead"} => encPc = "done"
  /\ opc = "dead" => scalePc = "done"

Timed ==
  /\ pre <= clock
  /\ Len(packets) + Len(codec) <= count
  /\ count <= Len(packets) + Len(codec) + errors \/ cut

Typed == TypeOK /\ InHand /\ Timed

LEMMA Constants ==
  /\ NumFrames \in Nat
  /\ \A f \in FrameNo : Sizes[f] \in [w : Nat, h : Nat] /\ Sizes[f] \in SizeSet
                        /\ Sizes[f].w \in {z.w : z \in SizeSet}
  /\ NoSize \in SizeSet /\ 0 \in {z.w : z \in SizeSet}
<1>1. NumFrames \in Nat BY EncoderAssumption DEF NumFrames
<1>2. \A f \in FrameNo : Sizes[f] \in [w : Nat, h : Nat]
      BY EncoderAssumption, ElementOfSeq DEF FrameNo, NumFrames
<1>3. NoSize \in SizeSet /\ NoSize.w = 0 BY DEF SizeSet, NoSize
<1> QED BY <1>1, <1>2, <1>3 DEF SizeSet

LEMMA InitTyped == Init => Typed
<1> SUFFICES ASSUME Init PROVE Typed OBVIOUS
<1> DEFINE Packet == [frame : FrameNo, pts : Nat, at : Nat]
<1>1. <<>> \in Seq(FrameNo) /\ <<>> \in Seq(Packet) BY Concat
<1>2. /\ bgr \in Seq(FrameNo) /\ yuv \in Seq(FrameNo) /\ codec \in Seq(FrameNo)
      /\ packets \in Seq(Packet)
      BY <1>1 DEF Init
<1>3. context \in SizeSet /\ lastWidth \in {z.w : z \in SizeSet} BY Constants DEF Init
<1>4. heap \in SUBSET FrameNo /\ 0 \in 0..NumFrames BY Constants DEF Init
<1>5. TypeOK
  <2> HIDE DEF Packet
  <2>1. /\ added \in 0..NumFrames /\ scaling \in 0..NumFrames /\ encoding \in 0..NumFrames
        /\ errors \in Nat /\ cut \in BOOLEAN
        /\ count \in Nat /\ accum \in Nat /\ pre \in Nat /\ clock \in Nat
        /\ abort \in BOOLEAN
        /\ scalePc \in ScalePc /\ encPc \in EncPc /\ opc \in OwnerPc
        BY <1>4 DEF Init, ScalePc, EncPc, OwnerPc
  <2> QED BY <1>2, <1>3, <1>4, <2>1 DEF TypeOK, Packet
<1>6. Len(<<>>) = 0 BY EmptySeq
<1>7. InHand /\ Timed BY <1>6 DEF Init, InHand, Timed
<1> QED BY <1>5, <1>7 DEF Typed

LEMMA PushType ==
  \A q \in Seq(FrameNo), f \in FrameNo : DropPush(q, f) \in Seq(FrameNo)
BY Concat DEF DropPush

LEMMA StepScale ==
  ASSUME Typed, Scale
  PROVE  Typed'
<1> USE DEF Typed, InHand, Timed, TypeOK, ScalePc, EncPc, OwnerPc, timing, failures
<1>1. CASE ScaleTop BY <1>1 DEF ScaleTop
<1>2. CASE ScalePop
  <2>1. Head(bgr) \in FrameNo /\ Tail(bgr) \in Seq(FrameNo) BY <1>2, Concat DEF ScalePop
  <2>2. scaling' \in FrameNo /\ bgr' \in Seq(FrameNo) BY <1>2, <2>1 DEF ScalePop
  <2>3. scaling' \in 0..NumFrames /\ scaling' # 0 BY <2>2 DEF FrameNo
  <2> QED BY <1>2, <2>2, <2>3 DEF ScalePop
<1>3. CASE ScaleWait BY <1>3 DEF ScaleWait
<1>4. CASE ScaleWake BY <1>4 DEF ScaleWake
<1>5. CASE ScaleSize
  <2>1. scaling \in FrameNo BY <1>5 DEF ScaleSize, FrameNo
  <2>2. context' \in SizeSet /\ lastWidth' \in {z.w : z \in SizeSet}
        BY <1>5, <2>1, Constants DEF ScaleSize
  <2> QED BY <1>5, <2>2 DEF ScaleSize
<1>6. CASE ScaleConvert
  <2>1. scaling \in FrameNo BY <1>6 DEF ScaleConvert, FrameNo
  <2>2. heap' \in SUBSET FrameNo BY <1>6, <2>1 DEF ScaleConvert
  <2> QED BY <1>6, <2>2 DEF ScaleConvert
<1>7. CASE ScalePush
  <2>1. scaling \in FrameNo BY <1>7 DEF ScalePush, FrameNo
  <2>2. yuv' \in Seq(FrameNo) BY <1>7, <2>1, PushType DEF ScalePush
  <2>3. heap' \in SUBSET FrameNo BY <1>7 DEF ScalePush
  <2> QED BY <1>7, <2>2, <2>3, Constants DEF ScalePush
<1> QED BY <1>1, <1>2, <1>3, <1>4, <1>5, <1>6, <1>7 DEF Scale

(* What is left over when an interval is cut to whole units. *)
LEMMA Division ==
  \A a \in Nat, t \in Nat \ {0} :
    /\ a \div t \in Nat
    /\ (a \div t) * t <= a
    /\ a - (a \div t) * t <= t - 1
OBVIOUS

LEMMA Products ==
  \A a, b, t \in Int : a * t \in Int /\ (a + b) * t = a * t + b * t
OBVIOUS

(* The stamp of the next packet, and the step that delivers it. *)
LEMMA Stamp ==
  ASSUME Typed
  PROVE  Since \in Nat /\ Sum \in Nat
<1>1. clock - pre \in Nat BY DEF Typed, Timed, TypeOK
<1>2. (clock - pre) \div TicksPerMs \in Nat BY <1>1, Division, EncoderAssumption
<1> QED BY <1>2 DEF Since, Sum, Typed, TypeOK

LEMMA DeliverTyped ==
  ASSUME Typed, codec # <<>>, Deliver
  PROVE  /\ packets' \in Seq([frame : FrameNo, pts : Nat, at : Nat])
         /\ codec' \in Seq(FrameNo)
         /\ accum' \in Nat /\ pre' \in Nat /\ pre' = clock
         /\ Len(packets') + Len(codec') = Len(packets) + Len(codec)
<1> DEFINE Packet == [frame : FrameNo, pts : Nat, at : Nat]
           p == [frame |-> Head(codec), pts |-> Sum, at |-> clock]
<1>1. Head(codec) \in FrameNo /\ Tail(codec) \in Seq(FrameNo)
      BY Concat DEF Typed, TypeOK
<1>2. p \in Packet BY <1>1, Stamp DEF Typed, TypeOK
<1>3. Append(packets, p) \in Seq(Packet) BY <1>2, Concat DEF Typed, TypeOK
<1>4. Len(Append(packets, p)) = Len(packets) + 1 /\ Len(packets) \in Nat
      BY <1>2, AppendProperties DEF Typed, TypeOK
<1>5. Len(Tail(codec)) = Len(codec) - 1 /\ Len(codec) \in Nat
      BY HeadTailProperties DEF Typed, TypeOK
<1> QED BY <1>1, <1>3, <1>4, <1>5, Stamp DEF Deliver, Typed, TypeOK

LEMMA StepEnc ==
  ASSUME Typed, Enc
  PROVE  Typed'
<1> USE DEF Typed, InHand, Timed, TypeOK, ScalePc, EncPc, OwnerPc, timing, failures, scaleVars
<1>1. CASE EncTop BY <1>1 DEF EncTop
<1>2. CASE EncPop
  <2>1. Head(yuv) \in FrameNo /\ Tail(yuv) \in Seq(FrameNo) BY <1>2, Concat DEF EncPop
  <2>2. encoding' \in 0..NumFrames /\ encoding' # 0 BY <1>2, <2>1 DEF EncPop, FrameNo
  <2> QED BY <1>2, <2>1, <2>2 DEF EncPop
<1>3. CASE EncWait BY <1>3 DEF EncWait
<1>4. CASE EncWake BY <1>4 DEF EncWake
<1>5. CASE EncSend
  <2>1. encoding \in FrameNo BY <1>5 DEF EncSend, FrameNo
  <2>2. codec' \in Seq(FrameNo) /\ Len(codec') = Len(codec) + 1
        BY <1>5, <2>1, AppendProperties DEF EncSend
  <2>3. /\ count' \in Nat /\ errors' = errors /\ cut' = cut
        /\ Len(packets) + Len(codec') <= count'
        /\ count' <= Len(packets) + Len(codec') + errors \/ cut
        BY <1>5, <2>2 DEF EncSend
  <2>4. packets' = packets /\ opc' = opc /\ encPc = "send" BY <1>5 DEF EncSend
  <2> QED BY <1>5, <2>2, <2>3, <2>4 DEF EncSend
<1>6. CASE EncRefused
  <2>1. heap' \in SUBSET FrameNo BY <1>6 DEF EncRefused
  <2> QED BY <1>6, <2>1, Constants DEF EncRefused
<1>7. CASE EncReceive
  <2>1. codec # <<>> BY <1>7, EmptySeq, EncoderAssumption DEF EncReceive
  <2>2. /\ packets' \in Seq([frame : FrameNo, pts : Nat, at : Nat])
        /\ codec' \in Seq(FrameNo)
        /\ accum' \in Nat /\ pre' \in Nat /\ pre' <= clock
        /\ Len(packets') + Len(codec') = Len(packets) + Len(codec)
        BY <1>7, <2>1, DeliverTyped DEF EncReceive
  <2> QED BY <1>7, <2>2 DEF EncReceive
<1>8. CASE EncAgain
  <2>1. heap' \in SUBSET FrameNo BY <1>8 DEF EncAgain
  <2> QED BY <1>8, <2>1, Constants DEF EncAgain
<1>9. CASE EncFlush
  <2>1. codec # <<>> BY <1>9 DEF EncFlush
  <2>2. /\ packets' \in Seq([frame : FrameNo, pts : Nat, at : Nat])
        /\ codec' \in Seq(FrameNo)
        /\ accum' \in Nat /\ pre' \in Nat /\ pre' <= clock
        /\ Len(packets') + Len(codec') = Len(packets) + Len(codec)
        BY <1>9, <2>1, DeliverTyped DEF EncFlush
  <2> QED BY <1>9, <2>2 DEF EncFlush
<1>10. CASE EncEnd BY <1>10 DEF EncEnd, Flushed
<1>11. CASE EncError
  <2>1. heap' \in SUBSET FrameNo BY <1>11 DEF EncError
  <2>2. codec' \in Seq(FrameNo) /\ Len(codec') \in {Len(codec), Len(codec) - 1}
    <3>1. codec # <<>> => Tail(codec) \in Seq(FrameNo) /\ Len(Tail(codec)) = Len(codec) - 1
          BY Concat, HeadTailProperties
    <3> QED BY <1>11, <3>1 DEF EncError
  <2>3. /\ Len(packets) + Len(codec') <= count
        /\ count <= Len(packets) + Len(codec') + errors' \/ cut
        /\ errors' \in Nat
        BY <1>11, <2>2 DEF EncError
  <2> QED BY <1>11, <2>1, <2>2, <2>3, Constants DEF EncError
<1>12. CASE EncCut BY <1>12 DEF EncCut
<1> QED BY <1>1, <1>2, <1>3, <1>4, <1>5, <1>6, <1>7, <1>8, <1>9, <1>10, <1>11, <1>12 DEF Enc

LEMMA StepOwner ==
  ASSUME Typed, Owner \/ Tick
  PROVE  Typed'
<1> USE DEF Typed, InHand, Timed, TypeOK, ScalePc, EncPc, OwnerPc, timing, failures, scaleVars
<1>1. CASE Open
  <2>1. 1 \in FrameNo BY <1>1, Constants DEF Open, FrameNo
  <2>2. context' \in SizeSet BY <1>1, <2>1, Constants DEF Open
  <2> QED BY <1>1, <2>2 DEF Open
<1>2. CASE AddVideoFrame
  <2>1. added + 1 \in FrameNo /\ added + 1 \in 0..NumFrames
        BY <1>2, Constants DEF AddVideoFrame, FrameNo
  <2>2. bgr' \in Seq(FrameNo) BY <1>2, <2>1, PushType DEF AddVideoFrame
  <2> QED BY <1>2, <2>1, <2>2 DEF AddVideoFrame
<1>3. CASE Destroy BY <1>3 DEF Destroy
<1>4. CASE JoinEncode BY <1>4 DEF JoinEncode
<1>5. CASE JoinScale
  <2>1. <<>> \in Seq(FrameNo) BY Concat
  <2>2. bgr' \in Seq(FrameNo) /\ yuv' \in Seq(FrameNo) /\ heap' \in SUBSET FrameNo
        /\ codec' = <<>> /\ codec' \in Seq(FrameNo)
        BY <1>5, <2>1 DEF JoinScale
  <2>3. /\ Len(packets) + Len(codec') <= count
        /\ count <= Len(packets) + Len(codec') + errors \/ cut
        BY <1>5, <2>2 DEF JoinScale
  <2> QED BY <1>5, <2>2, <2>3 DEF JoinScale
<1>6. CASE Tick BY <1>6 DEF Tick
<1> QED BY <1>1, <1>2, <1>3, <1>4, <1>5, <1>6 DEF Owner, Teardown

LEMMA StepTyped == Typed /\ [Next]_vars => Typed'
<1> SUFFICES ASSUME Typed, [Next]_vars PROVE Typed' OBVIOUS
<1>1. CASE UNCHANGED vars
      BY <1>1 DEF vars, timing, failures, scaleVars, Typed, InHand, Timed, TypeOK
<1> QED BY <1>1, StepScale, StepEnc, StepOwner DEF Next

(***************************************************************************)
(* Every variable keeps its type; the stamps are never negative.           *)
(***************************************************************************)
THEOREM TypeCorrect == SafeSpec => []TypeOK
<1>1. Typed => TypeOK BY DEF Typed
<1> QED BY <1>1, InitTyped, StepTyped, PTL DEF SafeSpec

(***************************************************************************)
(* The stamps.  The last packet's stamp and time are those the next one is *)
(* measured from.                                                          *)
(***************************************************************************)
LastStamp ==
  packets # <<>> =>
    LET p == packets[Len(packets)] IN accum = p.pts /\ pre = p.at

Lag(p, i, first) ==
  /\ (p.pts - first.pts) * TicksPerMs <= p.at - first.at
  /\ (p.at - first.at) - (p.pts - first.pts) * TicksPerMs <= (i - 1) * (TicksPerMs - 1)

PtsInv == Typed /\ LastStamp /\ PtsLag

LEMMA DeliverPts ==
  ASSUME PtsInv, codec # <<>>, Deliver
  PROVE  LastStamp' /\ PtsLag'
<1> DEFINE Packet == [frame : FrameNo, pts : Nat, at : Nat]
           n == Len(packets)
           p == [frame |-> Head(codec), pts |-> Sum, at |-> clock]
<1> USE DEF PtsInv, Typed
<1>1. n \in Nat /\ packets \in Seq(Packet) /\ DOMAIN packets = 1..n
      BY DEF TypeOK
<1>2. p \in Packet /\ p.pts = Sum /\ p.at = clock
  <2>1. Head(codec) \in FrameNo BY Concat DEF TypeOK
  <2> QED BY <2>1, Stamp DEF TypeOK
<1>3. packets' = Append(packets, p) /\ accum' = Sum /\ pre' = clock BY DEF Deliver
<1>4. /\ Len(packets') = n + 1 /\ packets'[n + 1] = p
      /\ \A i \in 1..n : packets'[i] = packets[i]
      /\ DOMAIN packets' = 1..(n + 1)
  <2> HIDE DEF p, Packet
  <2>1. Append(packets, p) \in Seq(Packet) BY <1>1, <1>2, AppendProperties
  <2> QED BY <1>1, <1>2, <1>3, <2>1, AppendProperties
<1>5. LastStamp'
  <2> HIDE DEF p
  <2>1. packets'[Len(packets')] = p BY <1>4
  <2> QED BY <1>2, <1>3, <2>1 DEF LastStamp
<1>6. \A i \in 1..n : Lag(packets[i], i, packets[1])
      BY <1>1 DEF PtsLag, Lag
<1>7. \A i \in 1..n : packets[i] \in Packet BY <1>1, ElementOfSeq
<1>8. \A i \in 1..(n + 1) : Lag(packets'[i], i, packets'[1])
  <2> HIDE DEF p
  <2>1. CASE n = 0
    <3>1. packets'[1] = p BY <1>4, <2>1
    <3>2. (p.pts - p.pts) * TicksPerMs = 0 /\ (1 - 1) * (TicksPerMs - 1) = 0
          /\ p.at - p.at = 0
          BY <1>2, EncoderAssumption DEF Packet
    <3>3. Lag(p, 1, p) BY <3>2 DEF Lag
    <3> QED BY <2>1, <3>1, <3>3
  <2>2. CASE n # 0
    <3> DEFINE f == packets[1]
               d == clock - pre
               T == TicksPerMs
    <3>1. f \in Packet /\ f.pts \in Nat /\ f.at \in Nat /\ packets'[1] = f
          BY <1>1, <1>4, <1>7, <2>2
    <3>2. /\ accum = packets[n].pts /\ pre = packets[n].at
          /\ Lag(packets[n], n, f)
          BY <1>1, <1>6, <2>2, EmptySeq DEF LastStamp
    <3>3. ~StartsCount
      <4>1. Len(codec) \in Nat /\ Len(codec) # 0 BY EmptySeq DEF TypeOK
      <4> QED BY <1>1, <2>2, <4>1 DEF StartsCount, Timed
    <3>4. Since = d \div T /\ Sum = accum + Since BY <3>3 DEF Since, Sum
    <3>5. d \in Nat /\ T \in Nat \ {0} /\ Since \in Nat
          /\ accum \in Nat /\ pre \in Nat /\ clock \in Nat
          BY Stamp, EncoderAssumption DEF Timed, TypeOK
    <3>6. Since * T <= d /\ d - Since * T <= T - 1 BY <3>4, <3>5, Division
    <3> DEFINE s == accum - f.pts
               e == pre - f.at
    <3>7. s * T <= e /\ e - s * T <= (n - 1) * (T - 1) BY <3>2 DEF Lag
    <3>8. /\ p.pts - f.pts = s + Since /\ p.at - f.at = e + d
          /\ s \in Int /\ e \in Int
      <4> DEFINE u == f.pts
                 v == f.at
      <4>1. p.pts = accum + Since /\ p.at = clock /\ u \in Nat /\ v \in Nat
            BY <1>2, <3>1, <3>4
      <4> HIDE DEF u, v
      <4>2. /\ p.pts - u = (accum - u) + Since /\ p.at - v = (pre - v) + (clock - pre)
            /\ accum - u \in Int /\ pre - v \in Int
            BY <3>5, <4>1
      <4> QED BY <4>2 DEF u, v
    <3> HIDE DEF s, e, d, T, f
    <3>9. (s + Since) * T = s * T + Since * T /\ s * T \in Int /\ Since * T \in Int
          BY <3>5, <3>8, Products
    <3>10. ((n + 1) - 1) * (T - 1) = (n - 1) * (T - 1) + (T - 1)
           /\ (n - 1) * (T - 1) \in Int
      <4>1. n - 1 \in Int /\ 1 \in Int /\ T - 1 \in Int /\ (n + 1) - 1 = (n - 1) + 1
            BY <1>1, <3>5
      <4>2. 1 * (T - 1) = T - 1 BY <4>1
      <4> HIDE DEF n
      <4> QED BY <4>1, <4>2, Products
    <3> DEFINE a == s * T
               b == Since * T
               c == (n - 1) * (T - 1)
    <3>11. a \in Int /\ b \in Int /\ c \in Int /\ a <= e /\ e - a <= c
           /\ b <= d /\ d - b <= T - 1
           BY <3>6, <3>7, <3>9, <3>10
    <3> HIDE DEF a, b, c
    <3>12. a + b <= e + d /\ (e + d) - (a + b) <= c + (T - 1)
           BY <3>5, <3>8, <3>11
    <3>13. Lag(p, n + 1, f)
      <4>1. (p.pts - f.pts) * T = a + b BY <3>8, <3>9 DEF a, b
      <4>2. ((n + 1) - 1) * (T - 1) = c + (T - 1) BY <3>10 DEF c
      <4> QED BY <3>8, <3>12, <4>1, <4>2 DEF Lag, T
    <3>14. ASSUME NEW i \in 1..(n + 1) PROVE Lag(packets'[i], i, packets'[1])
      <4>1. CASE i = n + 1 BY <1>4, <3>1, <3>13, <4>1
      <4>2. CASE i \in 1..n BY <1>4, <1>6, <3>1, <4>2 DEF f
      <4> QED BY <1>1, <4>1, <4>2
    <3> QED BY <3>14
  <2> QED BY <2>1, <2>2
<1>9. PtsLag'
  <2> HIDE DEF n
  <2> QED BY <1>4, <1>8 DEF PtsLag, Lag
<1> QED BY <1>5, <1>9

LEMMA StepPts == PtsInv /\ [Next]_vars => PtsInv'
<1> SUFFICES ASSUME PtsInv, [Next]_vars PROVE PtsInv' OBVIOUS
<1>1. Typed' BY StepTyped DEF PtsInv
<1>2. ASSUME UNCHANGED <<packets, accum, pre>> PROVE PtsInv'
      BY <1>1, <1>2 DEF PtsInv, LastStamp, PtsLag
<1>3. CASE UNCHANGED vars BY <1>2, <1>3 DEF vars, timing
<1>4. CASE Scale
      BY <1>2, <1>4 DEF Scale, ScaleTop, ScalePop, ScaleWait, ScaleWake, ScaleSize,
                        ScaleConvert, ScalePush, timing
<1>5. CASE Owner \/ Tick
      BY <1>2, <1>5 DEF Owner, Teardown, Open, AddVideoFrame, Destroy, JoinEncode, JoinScale,
                        Tick, timing
<1>6. CASE Enc
  <2>1. CASE EncReceive \/ EncFlush
    <3>1. codec # <<>> /\ Deliver
          BY <2>1, EmptySeq, EncoderAssumption DEF EncReceive, EncFlush
    <3> QED BY <1>1, <3>1, DeliverPts DEF PtsInv
  <2>2. CASE ~(EncReceive \/ EncFlush)
        BY <1>2, <1>6, <2>2 DEF Enc, EncTop, EncPop, EncWait, EncWake, EncSend, EncRefused,
                                EncAgain, EncError, EncCut, EncEnd, timing
  <2> QED BY <2>1, <2>2
<1> QED BY <1>3, <1>4, <1>5, <1>6 DEF Next

(***************************************************************************)
(* However many packets are sent: the stamps never run ahead of the clock, *)
(* and lag behind it by less than a millisecond for each packet.           *)
(***************************************************************************)
THEOREM StampsFollowClock == SafeSpec => []PtsLag
<1>1. Init => LastStamp /\ PtsLag
  <2>1. DOMAIN <<>> = {} OBVIOUS
  <2> QED BY <2>1 DEF Init, LastStamp, PtsLag
<1>2. PtsInv => PtsLag BY DEF PtsInv
<1>3. Init => PtsInv BY <1>1, InitTyped DEF PtsInv
<1> QED BY <1>2, <1>3, StepPts, PTL DEF SafeSpec

(***************************************************************************)
(* When the destructor has returned no thread is left to call the          *)
(* listener, and every frame the codec had accepted has been given to it   *)
(* but for one for each error of avcodec_receive_packet in the encode      *)
(* loop, unless the flush itself failed.                                   *)
(***************************************************************************)
THEOREM DestructorFlushes == SafeSpec => [](opc = "dead" => FlushedAtEnd)
<1>1. Typed => (opc = "dead" => FlushedAtEnd)
  <2> SUFFICES ASSUME Typed, opc = "dead" PROVE FlushedAtEnd OBVIOUS
  <2>1. encPc = "done" /\ scalePc = "done" /\ (codec = <<>> \/ cut) BY DEF Typed, InHand
  <2>2. codec = <<>> => count - Len(packets) <= errors \/ cut
        BY EmptySeq DEF Typed, Timed, TypeOK
  <2> QED BY <2>1, <2>2 DEF FlushedAtEnd
<1> QED BY <1>1, InitTyped, StepTyped, PTL DEF SafeSpec

(***************************************************************************)
(* The encoder as a LossyFifo: what is inside is the concatenation of the  *)
(* lists and of what the threads have in hand; each step is a loss, a put, *)
(* a get, or only moves an item from one part to the next.                 *)
(***************************************************************************)
Waiting == Cat(yuv, Cat(One(scaling), bgr))
Owed == Cat(Unsent, Waiting)

FlowParts ==
  /\ codec \in Seq(FrameNo) /\ Unsent \in Seq(FrameNo) /\ yuv \in Seq(FrameNo)
  /\ One(scaling) \in Seq(FrameNo) /\ bgr \in Seq(FrameNo)
  /\ Cat(One(scaling), bgr) \in Seq(FrameNo)
  /\ Waiting \in Seq(FrameNo) /\ Owed \in Seq(FrameNo) /\ Inside \in Seq(FrameNo)
  /\ Inside = Cat(codec, Owed)

LEMMA Parts == Typed => FlowParts
<1> SUFFICES ASSUME Typed PROVE FlowParts OBVIOUS
<1>1. /\ codec \in Seq(FrameNo) /\ Unsent \in Seq(FrameNo) /\ yuv \in Seq(FrameNo)
      /\ One(scaling) \in Seq(FrameNo) /\ bgr \in Seq(FrameNo)
  <2>1. ASSUME NEW f \in 0..NumFrames PROVE One(f) \in Seq(FrameNo)
    <3>1. <<>> \in Seq(FrameNo) BY Concat
    <3>2. f # 0 => <<f>> \in Seq(FrameNo) BY Constants DEF FrameNo
    <3> QED BY <3>1, <3>2 DEF One
  <2>2. <<>> \in Seq(FrameNo) BY Concat
  <2> QED BY <2>1, <2>2 DEF Typed, TypeOK, Unsent
<1>2. Cat(One(scaling), bgr) \in Seq(FrameNo) BY <1>1, CatLaws
<1>3. Waiting \in Seq(FrameNo) BY <1>1, <1>2, CatLaws DEF Waiting
<1>4. Owed \in Seq(FrameNo) BY <1>1, <1>3, CatLaws DEF Owed
<1>5. Cat(codec, Owed) \in Seq(FrameNo) BY <1>1, <1>4, CatLaws
<1>6. Inside = Cat(codec, Owed) BY DEF Inside, Owed, Waiting, Cat
<1> QED BY <1>1, <1>2, <1>3, <1>4, <1>5, <1>6 DEF FlowParts

LEMMA PartsNext == Typed' => FlowParts'
BY Parts, PTL

(* The steps of LossyFifo, for what is inside and what was given. *)
LoseStep == Lossy(Inside, Inside') /\ UNCHANGED <<Given, added>>
PutStep == Joined(Inside, Inside', added + 1) /\ added' = added + 1 /\ UNCHANGED Given
GetStep ==
  /\ Inside # <<>>
  /\ Given' = Append(Given, Head(Inside))
  /\ Inside' = Tail(Inside)
  /\ UNCHANGED added
FifoStep == LoseStep \/ PutStep \/ GetStep \/ UNCHANGED <<Inside, Given, added>>

(* A step that changes no part of the flow. *)
LEMMA FifoStutter ==
  ASSUME UNCHANGED <<codec, Unsent, yuv, scaling, bgr, packets, added>>
  PROVE  FifoStep
<1>1. Inside' = Inside /\ Given' = Given BY DEF Inside, Given
<1> QED BY <1>1 DEF FifoStep

LEMMA FifoScale ==
  ASSUME FlowParts, FlowParts', Typed, Scale
  PROVE  FifoStep
<1> USE DEF timing
<1>1. CASE ScaleTop \/ ScaleWait \/ ScaleWake \/ ScaleSize \/ ScaleConvert
      BY <1>1, FifoStutter DEF ScaleTop, ScaleWait, ScaleWake, ScaleSize, ScaleConvert, Unsent
<1>2. CASE ScalePop
  <2>1. bgr # <<>> /\ Head(bgr) # 0
    <3>1. Head(bgr) \in FrameNo BY <1>2, Concat DEF ScalePop, Typed, TypeOK
    <3> QED BY <1>2, <3>1 DEF ScalePop, FrameNo
  <2>2. One(scaling) = <<>> /\ One(scaling)' = <<Head(bgr)>> /\ bgr' = Tail(bgr)
    <3>1. scaling = 0 /\ scaling' = Head(bgr) /\ bgr' = Tail(bgr)
          BY <1>2 DEF ScalePop, Typed, InHand
    <3>2. scaling' # 0 BY <2>1, <3>1
    <3>3. One(scaling) = <<>> /\ One(scaling)' = <<scaling'>> BY <3>1, <3>2 DEF One
    <3> QED BY <3>1, <3>3
  <2>3. UNCHANGED <<codec, Unsent, yuv, packets, added>> BY <1>2 DEF ScalePop, Unsent
  <2>4. Cat(One(scaling), bgr) = Cat(One(scaling)', bgr')
        BY <2>1, <2>2, CatLaws DEF FlowParts
  <2>5. Owed' = Owed BY <2>3, <2>4 DEF Owed, Waiting
  <2>6. Inside' = Inside BY <2>3, <2>5 DEF FlowParts
  <2> QED BY <2>3, <2>6 DEF FifoStep, Given
<1>3. CASE ScalePush
  <2>1. /\ scaling \in FrameNo /\ One(scaling) = <<scaling>> /\ One(scaling)' = <<>>
        /\ yuv' = DropPush(yuv, scaling)
        BY <1>3 DEF ScalePush, Typed, InHand, TypeOK, FrameNo, One
  <2>2. UNCHANGED <<codec, Unsent, bgr, packets, added>> BY <1>3 DEF ScalePush, Unsent
  <2>3. Waiting' = Cat(yuv', bgr) BY <2>1, <2>2, CatLaws DEF Waiting, FlowParts
  <2>4. CASE Len(yuv) > Limit
    <3>1. yuv # <<>> BY <2>4, EmptySeq, EncoderAssumption DEF Typed, TypeOK
    <3>2. yuv' = <<scaling>> BY <2>1, <2>4 DEF DropPush
    <3>3. Waiting' = Cat(One(scaling), bgr) BY <2>1, <2>3, <3>2
    <3>4. Lossy(Waiting, Waiting') BY <3>1, <3>3, CatLossy DEF Waiting, FlowParts
    <3>5. Lossy(Owed, Owed') BY <2>2, <3>4, CatLossy DEF Owed, FlowParts
    <3>6. Lossy(Inside, Inside') BY <2>2, <3>5, CatLossy DEF FlowParts
    <3> QED BY <2>2, <3>6 DEF FifoStep, LoseStep, Given
  <2>5. CASE ~(Len(yuv) > Limit)
    <3>1. yuv' = Cat(yuv, One(scaling)) BY <2>1, <2>5, CatLaws DEF DropPush, FlowParts
    <3>2. Waiting' = Waiting BY <2>3, <3>1, CatAssociative DEF Waiting, FlowParts
    <3>3. Inside' = Inside BY <2>2, <3>2 DEF Owed, FlowParts
    <3> QED BY <2>2, <3>3 DEF FifoStep, Given
  <2> QED BY <2>4, <2>5
<1> QED BY <1>1, <1>2, <1>3 DEF Scale

(* The packet given is that of the oldest frame. *)
LEMMA FifoDeliver ==
  ASSUME FlowParts, FlowParts', Typed, codec # <<>>, Deliver,
         UNCHANGED <<Unsent, yuv, scaling, bgr, added>>
  PROVE  GetStep
<1> DEFINE h == Head(codec)
           p == [frame |-> h, pts |-> Sum, at |-> clock]
           n == Len(packets)
<1>1. h \in FrameNo BY Concat DEF Typed, TypeOK
<1>2. codec = Cat(<<h>>, codec') BY CatLaws DEF Deliver, FlowParts
<1>3. Owed' = Owed BY DEF Owed, Waiting
<1>4. Inside = Cat(<<h>>, Inside')
  <2>1. <<h>> \in Seq(FrameNo) BY <1>1, Concat
  <2>2. codec' \in Seq(FrameNo) /\ Owed \in Seq(FrameNo) BY DEF FlowParts
  <2>3. Inside = Cat(codec, Owed) /\ Inside' = Cat(codec', Owed) BY <1>3 DEF FlowParts
  <2> HIDE DEF h
  <2>4. Cat(Cat(<<h>>, codec'), Owed) = Cat(<<h>>, Cat(codec', Owed))
        BY SMTT(30), <2>1, <2>2, CatAssociative
  <2> QED BY <1>2, <2>3, <2>4
<1>5. Inside # <<>> /\ Head(Inside) = h /\ Tail(Inside) = Inside'
  <2>1. Inside' \in Seq(FrameNo) BY DEF FlowParts
  <2> DEFINE q == Inside'
  <2> HIDE DEF h, q
  <2>2. Cat(<<h>>, q) # <<>> /\ Head(Cat(<<h>>, q)) = h /\ Tail(Cat(<<h>>, q)) = q
        BY <1>1, <2>1, CatFirst DEF q
  <2> QED BY <1>4, <2>2 DEF q
<1>6. Given' = Append(Given, h)
  <2>1. /\ packets' = Append(packets, p) /\ n \in Nat
        /\ DOMAIN packets = 1..n
        BY DEF Deliver, Typed, TypeOK
  <2>2. /\ DOMAIN packets' = 1..(n + 1) /\ packets'[n + 1] = p
        /\ \A i \in 1..n : packets'[i] = packets[i]
    <3> DEFINE Packet == [frame : FrameNo, pts : Nat, at : Nat]
    <3>1. packets \in Seq(Packet) /\ p \in Packet BY <1>1, Stamp DEF Typed, TypeOK
    <3> HIDE DEF p, Packet
    <3>2. Append(packets, p) \in Seq(Packet) BY <3>1, AppendProperties
    <3> QED BY <2>1, <3>1, <3>2, AppendProperties
  <2>3. p.frame = h OBVIOUS
  <2> HIDE DEF p, h
  <2>4. Given' = [i \in 1..(n + 1) |-> IF i = n + 1 THEN h ELSE packets[i].frame]
    <3>1. ASSUME NEW i \in 1..(n + 1)
          PROVE  packets'[i].frame = IF i = n + 1 THEN h ELSE packets[i].frame
          BY <2>1, <2>2, <2>3
    <3> QED BY <2>2, <3>1 DEF Given
  <2>5. /\ Given \in Seq(FrameNo) /\ Len(Given) = n
        /\ \A i \in 1..n : Given[i] = packets[i].frame
    <3>1. \A i \in 1..n : packets[i].frame \in FrameNo
      <4> DEFINE Packet == [frame : FrameNo, pts : Nat, at : Nat]
      <4>1. packets \in Seq(Packet) BY DEF Typed, TypeOK
      <4>2. \A i \in 1..n : packets[i] \in Packet BY <4>1, ElementOfSeq
      <4> QED BY <4>2
    <3>2. Given = [i \in 1..n |-> packets[i].frame] BY <2>1 DEF Given
    <3> QED BY <2>1, <3>1, <3>2
  <2>6. /\ Append(Given, h) \in Seq(FrameNo) /\ Len(Append(Given, h)) = n + 1
        /\ Append(Given, h)[n + 1] = h
        /\ \A i \in 1..n : Append(Given, h)[i] = packets[i].frame
        BY <1>1, <2>5, AppendProperties
  <2>7. /\ Given' \in Seq(FrameNo) /\ Len(Given') = n + 1
        /\ \A i \in 1..(n + 1) : Given'[i] = Append(Given, h)[i]
    <3>1. \A i \in 1..(n + 1) : (IF i = n + 1 THEN h ELSE packets[i].frame) \in FrameNo
          BY <1>1, <2>1, <2>5, ElementOfSeq
    <3> QED BY <2>1, <2>4, <2>6, <3>1
  <2> QED BY <2>6, <2>7, SeqEqual
<1> QED BY <1>5, <1>6 DEF GetStep

LEMMA FifoEnc ==
  ASSUME FlowParts, FlowParts', Typed, Enc
  PROVE  FifoStep
<1> USE DEF timing, scaleVars
<1>1. CASE EncTop \/ EncWait \/ EncWake \/ EncEnd \/ EncCut
      BY <1>1, FifoStutter DEF EncTop, EncWait, EncWake, EncEnd, EncCut, Flushed, Unsent
<1>2. CASE EncPop
  <2>1. yuv # <<>> /\ Head(yuv) # 0
    <3>1. Head(yuv) \in FrameNo BY <1>2, Concat DEF EncPop, Typed, TypeOK
    <3> QED BY <1>2, <3>1 DEF EncPop, FrameNo
  <2>2. Unsent = <<>> /\ Unsent' = <<Head(yuv)>> /\ yuv' = Tail(yuv)
    <3>1. /\ encoding = 0 /\ encPc' = "send"
          /\ encoding' = Head(yuv) /\ yuv' = Tail(yuv)
          BY <1>2 DEF EncPop, Typed, InHand
    <3>2. encoding' # 0 BY <2>1, <3>1
    <3>3. Unsent = <<>> /\ Unsent' = <<encoding'>> BY <3>1, <3>2 DEF Unsent, One
    <3> QED BY <3>1, <3>3
  <2>3. UNCHANGED <<codec, scaling, bgr, packets, added>> BY <1>2 DEF EncPop
  <2>4. yuv = Cat(Unsent', yuv') BY <2>1, <2>2, CatLaws DEF FlowParts
  <2>5. UNCHANGED Cat(One(scaling), bgr) BY <2>3
  <2>6. Waiting = Owed' BY <2>4, <2>5, CatAssociative DEF Waiting, Owed, FlowParts
  <2>7. Waiting = Owed BY <2>2, CatLaws DEF Owed, FlowParts
  <2>8. Inside' = Inside BY <2>3, <2>6, <2>7 DEF FlowParts
  <2> QED BY <2>3, <2>8 DEF FifoStep, Given
<1>3. CASE EncSend
  <2>1. /\ encoding \in FrameNo /\ Unsent = <<encoding>> /\ Unsent' = <<>>
        /\ codec' = Append(codec, encoding)
        BY <1>3 DEF EncSend, Unsent, One, Typed, InHand, TypeOK, FrameNo
  <2>2. UNCHANGED <<yuv, scaling, bgr, packets, added>> BY <1>3 DEF EncSend
  <2>3. codec' = Cat(codec, Unsent) BY <2>1, CatLaws DEF FlowParts
  <2>4. Waiting' = Waiting BY <2>2 DEF Waiting
  <2>5. Owed' = Waiting BY <2>1, <2>4, CatLaws DEF Owed, FlowParts
  <2>6. Inside' = Inside BY <2>3, <2>5, CatAssociative DEF Owed, FlowParts
  <2> QED BY <2>2, <2>6 DEF FifoStep, Given
<1>4. CASE EncRefused
  <2>1. encoding \in FrameNo /\ Unsent = <<encoding>> /\ Unsent' = <<>>
        BY <1>4 DEF EncRefused, Unsent, One, Typed, InHand, TypeOK, FrameNo
  <2>2. UNCHANGED <<codec, yuv, scaling, bgr, packets, added>> BY <1>4 DEF EncRefused
  <2>3. Waiting' = Waiting BY <2>2 DEF Waiting
  <2>4. Owed' = Waiting BY <2>1, <2>3, CatLaws DEF Owed, FlowParts
  <2>5. Lossy(Owed, Owed') BY <2>1, <2>4, CatLossy DEF Owed, FlowParts
  <2>6. Lossy(Inside, Inside') BY <2>2, <2>5, CatLossy DEF FlowParts
  <2> QED BY <2>2, <2>6 DEF FifoStep, LoseStep, Given
<1>5. CASE EncAgain
  <2>1. Unsent' = Unsent BY <1>5 DEF EncAgain, Unsent, One
  <2> QED BY <1>5, <2>1, FifoStutter DEF EncAgain
<1>6. CASE EncReceive \/ EncFlush
  <2>1. codec # <<>> /\ Deliver
        BY <1>6, EmptySeq, EncoderAssumption DEF EncReceive, EncFlush
  <2>2. UNCHANGED <<Unsent, yuv, scaling, bgr, added>>
        BY <1>6 DEF EncReceive, EncFlush, Unsent
  <2> QED BY <2>1, <2>2, FifoDeliver DEF FifoStep
<1>7. CASE EncError
  <2>1. UNCHANGED <<yuv, scaling, bgr, packets, added>> BY <1>7 DEF EncError
  <2>2. Unsent = <<>> /\ Unsent' = <<>> BY <1>7 DEF EncError, Unsent, One
  <2>3. CASE codec' = codec
    <3>1. UNCHANGED Unsent BY <2>2
    <3> QED BY <2>1, <2>3, <3>1, FifoStutter
  <2>4. CASE codec # <<>> /\ codec' = Tail(codec)
    <3> DEFINE h == Head(codec)
    <3>1. h \in FrameNo /\ <<h>> \in Seq(FrameNo) BY <2>4, Concat DEF Typed, TypeOK
    <3>2. codec = Cat(<<h>>, codec') BY <2>4, CatLaws DEF FlowParts
    <3>3. Waiting' = Waiting BY <2>1 DEF Waiting
    <3>4. Owed' = Owed BY <2>2, <3>3 DEF Owed
    <3>5. Inside = Cat(codec, Owed) /\ Inside' = Cat(codec', Owed)
          /\ codec' \in Seq(FrameNo) /\ Owed \in Seq(FrameNo) /\ Inside' \in Seq(FrameNo)
          BY <3>4 DEF FlowParts
    <3> DEFINE l == <<h>>
               c == codec'
               o == Owed
    <3>6. l \in Seq(FrameNo) /\ c \in Seq(FrameNo) /\ o \in Seq(FrameNo) BY <3>1, <3>5
    <3> HIDE DEF h, l, c, o
    <3>7. Cat(Cat(l, c), o) = Cat(l, Cat(c, o)) BY ONLY <3>6, CatAssociative
    <3>8. Inside = Cat(<<h>>, Inside') BY <3>2, <3>5, <3>7 DEF l, c, o
    <3>9. Lossy(Cat(<<h>>, Inside'), Inside') BY <3>1, <3>5, CatLossy
    <3>10. Lossy(Inside, Inside') BY <3>8, <3>9
    <3> QED BY <2>1, <3>10 DEF FifoStep, LoseStep, Given
  <2> QED BY <1>7, <2>3, <2>4 DEF EncError
<1> QED BY <1>1, <1>2, <1>3, <1>4, <1>5, <1>6, <1>7 DEF Enc

LEMMA FifoOwner ==
  ASSUME FlowParts, FlowParts', Typed, Owner \/ Tick
  PROVE  FifoStep
<1> USE DEF timing, scaleVars
<1>1. CASE Open \/ Destroy \/ JoinEncode \/ Tick
      BY <1>1, FifoStutter DEF Open, Destroy, JoinEncode, Tick, Unsent
<1>2. CASE AddVideoFrame
  <2>1. added + 1 \in FrameNo
        BY <1>2, Constants DEF AddVideoFrame, Typed, TypeOK, FrameNo
  <2>2. bgr' = DropPush(bgr, added + 1) /\ added' = added + 1
        /\ UNCHANGED <<codec, Unsent, yuv, scaling, packets>>
        BY <1>2 DEF AddVideoFrame, Unsent
  <2>3. Joined(bgr, bgr', added + 1)
        BY <2>1, <2>2, JoinedLast DEF DropPush, FlowParts
  <2>4. Joined(Cat(One(scaling), bgr), Cat(One(scaling)', bgr'), added + 1)
        BY <2>1, <2>2, <2>3, CatJoined DEF FlowParts
  <2>5. Joined(Waiting, Waiting', added + 1)
        BY <2>1, <2>2, <2>4, CatJoined DEF Waiting, FlowParts
  <2>6. Joined(Owed, Owed', added + 1)
        BY <2>1, <2>2, <2>5, CatJoined DEF Owed, FlowParts
  <2>7. Joined(Inside, Inside', added + 1) BY <2>1, <2>2, <2>6, CatJoined DEF FlowParts
  <2> QED BY <2>2, <2>7 DEF FifoStep, PutStep, Given
<1>3. CASE JoinScale
  <2>1. /\ scaling = 0 /\ encoding = 0
        /\ UNCHANGED <<scaling, encoding, packets, added>>
        /\ bgr' = <<>> /\ yuv' = <<>> /\ codec' = <<>>
        BY <1>3 DEF JoinScale, Typed, InHand
  <2>2. Unsent' = <<>> /\ One(scaling)' = <<>> BY <2>1 DEF Unsent, One
  <2>3. Waiting' = <<>> BY <2>1, <2>2, CatLaws DEF Waiting, FlowParts
  <2>4. Owed' = <<>> BY <2>2, <2>3, CatLaws DEF Owed, FlowParts
  <2>5. Inside' = <<>> BY <2>1, <2>4, CatLaws DEF FlowParts
  <2>6. Inside # <<>> => Lossy(Inside, <<>>) BY LossyAll DEF FlowParts
  <2> QED BY <2>1, <2>5, <2>6 DEF FifoStep, LoseStep, Given
<1> QED BY <1>1, <1>2, <1>3 DEF Owner, Teardown

LEMMA StepFifo == Typed /\ Typed' /\ [Next]_vars => [LF!Next]_(LF!vars)
<1> SUFFICES ASSUME Typed, Typed', [Next]_vars PROVE [LF!Next]_(LF!vars) OBVIOUS
<1>1. FlowParts /\ FlowParts' BY Parts, PartsNext
<1>2. CASE UNCHANGED vars
  <2>1. UNCHANGED <<Inside, Given, added>>
        BY <1>2 DEF vars, timing, failures, scaleVars, Inside, Given, Unsent
  <2> QED BY <2>1 DEF LF!vars
<1>3. CASE Next
  <2>1. FifoStep BY <1>1, <1>3, FifoScale, FifoEnc, FifoOwner DEF Next
  <2>2. LoseStep => LF!Lose BY DEF LoseStep, Lossy, LF!Lose, LF!Without
  <2>3. PutStep => LF!Put BY DEF PutStep, Joined, LF!Put
  <2>4. GetStep => LF!Get BY DEF GetStep, LF!Get
  <2> QED BY <2>1, <2>2, <2>3, <2>4 DEF FifoStep, LF!Next, LF!vars
<1> QED BY <1>2, <1>3

LEMMA InitFifo == Init => LF!Init
<1> SUFFICES ASSUME Init PROVE LF!Init OBVIOUS
<1>1. FlowParts BY InitTyped, Parts
<1>2. Unsent = <<>> /\ One(scaling) = <<>> BY DEF Init, Unsent, One
<1>3. Waiting = <<>> BY <1>1, <1>2, CatLaws DEF Init, Waiting, FlowParts
<1>4. Owed = <<>> BY <1>1, <1>2, <1>3, CatLaws DEF Owed, FlowParts
<1>5. Inside = <<>> BY <1>1, <1>4, CatLaws DEF Init, FlowParts
<1>6. Given = <<>>
  <2>1. DOMAIN <<>> = {} OBVIOUS
  <2> QED BY <2>1 DEF Init, Given
<1> QED BY <1>5, <1>6 DEF Init, LF!Init

(***************************************************************************)
(* Whatever is dropped from the lists and whatever the codec refuses, and  *)
(* however the threads and the destructor interleave: packets come out in  *)
(* the order their pictures were added, each at most once.                 *)
(***************************************************************************)
THEOREM EncoderImplementsFifo == SafeSpec => EncoderIsFifo
<1> QED BY InitTyped, StepTyped, InitFifo, StepFifo, PTL DEF SafeSpec, EncoderIsFifo, LF!Spec

(***************************************************************************)
(* Who owns the frames.  A picture is in one place only until its frame    *)
(* has been freed, so the frame made for it is a new one.                  *)
(***************************************************************************)
Apart ==
  /\ IsInjective(bgr) /\ IsInjective(yuv) /\ ToSet(yuv) \cap ToSet(bgr) = {}
  /\ scaling \notin ToSet(bgr) \cup ToSet(yuv)
  /\ encoding \notin ToSet(bgr) \cup ToSet(yuv)
  /\ scaling = encoding => scaling = 0
  /\ ToSet(bgr) \cup ToSet(yuv) \cup {scaling, encoding} \subseteq 0..added

Allocated ==
  heap = ToSet(yuv) \cup ({encoding} \ {0}) \cup (IF scalePc = "push" THEN {scaling} ELSE {})

Short == Len(bgr) <= Limit + 1 /\ Len(yuv) <= Limit + 1

OwnInv == Typed /\ Apart /\ Allocated /\ Short

(* A push puts one new item on the list, or empties it first. *)
LEMMA PushItems ==
  ASSUME NEW q \in Seq(FrameNo), NEW f \in FrameNo
  PROVE  /\ \/ /\ ToSet(DropPush(q, f)) = ToSet(q) \cup {f}
               /\ FreedByPush(q) = {}
            \/ /\ ToSet(DropPush(q, f)) = {f}
               /\ FreedByPush(q) = ToSet(q)
         /\ IsInjective(q) /\ f \notin ToSet(q) => IsInjective(DropPush(q, f))
         /\ Len(DropPush(q, f)) <= Limit + 1
<1>1. CASE Len(q) > Limit
  <2>1. DropPush(q, f) = <<f>> /\ FreedByPush(q) = ToSet(q) BY <1>1 DEF DropPush, FreedByPush
  <2>2. ToSet(<<f>>) = {f} /\ IsInjective(<<f>>) BY SetOf
  <2>3. Len(<<f>>) = 1 OBVIOUS
  <2> QED BY <2>1, <2>2, <2>3, EncoderAssumption
<1>2. CASE ~(Len(q) > Limit)
  <2>1. DropPush(q, f) = Append(q, f) /\ FreedByPush(q) = {} BY <1>2 DEF DropPush, FreedByPush
  <2>2. Len(Append(q, f)) = Len(q) + 1 /\ Len(q) \in Nat BY AppendProperties
  <2>3. /\ ToSet(Append(q, f)) = ToSet(q) \cup {f}
        /\ IsInjective(q) /\ f \notin ToSet(q) => IsInjective(Append(q, f))
        BY ItemsAppend
  <2> QED BY <1>2, <2>1, <2>2, <2>3, EncoderAssumption
<1> QED BY <1>1, <1>2

LEMMA NoZero == \A q \in Seq(FrameNo) : 0 \notin ToSet(q)
<1>1. \A q \in Seq(FrameNo) : ToSet(q) \in SUBSET FrameNo BY SetOf
<1>2. 0 \notin FrameNo BY DEF FrameNo
<1> QED BY <1>1, <1>2

LEMMA PopItems ==
  ASSUME NEW q \in Seq(FrameNo), q # <<>>, IsInjective(q)
  PROVE  /\ Head(q) \in ToSet(q) /\ IsInjective(Tail(q))
         /\ ToSet(Tail(q)) = ToSet(q) \ {Head(q)}
         /\ Head(q) # 0 /\ Len(Tail(q)) <= Len(q)
<1>1. Head(q) \in FrameNo BY Concat
<1>2. Len(Tail(q)) = Len(q) - 1 /\ Len(q) \in Nat BY HeadTailProperties
<1>3. Head(q) # 0 BY <1>1 DEF FrameNo
<1> QED BY <1>2, <1>3, ItemsPop

LEMMA OwnScale ==
  ASSUME OwnInv, Scale
  PROVE  Apart' /\ Allocated' /\ Short'
<1> USE DEF OwnInv
<1>1. CASE ScaleTop \/ ScaleWait \/ ScaleWake \/ ScaleSize
  <2>1. UNCHANGED <<added, bgr, yuv, heap, encoding, scaling>>
        /\ scalePc # "push" /\ scalePc' # "push"
        BY <1>1 DEF ScaleTop, ScaleWait, ScaleWake, ScaleSize
  <2> QED BY <2>1 DEF Apart, Allocated, Short
<1>2. CASE ScalePop
  <2>1. /\ bgr # <<>> /\ scaling' = Head(bgr) /\ bgr' = Tail(bgr)
        /\ UNCHANGED <<added, yuv, heap, encoding>>
        /\ scalePc # "push" /\ scalePc' # "push"
        BY <1>2 DEF ScalePop
  <2>2. /\ scaling' \in ToSet(bgr) /\ IsInjective(bgr') /\ scaling' # 0
        /\ ToSet(bgr') = ToSet(bgr) \ {scaling'} /\ Len(bgr') <= Len(bgr)
        BY <2>1, PopItems DEF Apart, Typed, TypeOK
  <2>3. Apart' BY <2>1, <2>2 DEF Apart
  <2>4. Len(bgr) \in Nat /\ Len(bgr') \in Nat BY <2>1, Concat DEF Typed, TypeOK
  <2>5. Short' BY <2>1, <2>2, <2>4, EncoderAssumption DEF Short
  <2> QED BY <2>1, <2>3, <2>5 DEF Allocated
<1>3. CASE ScaleConvert
  <2>1. UNCHANGED <<added, bgr, yuv, encoding, scaling>>
        /\ heap' = heap \cup {scaling} /\ scalePc = "convert" /\ scalePc' = "push"
        BY <1>3 DEF ScaleConvert
  <2> QED BY <2>1 DEF Apart, Allocated, Short
<1>4. CASE ScalePush
  <2>1. /\ scaling \in FrameNo /\ scalePc = "push" /\ scalePc' = "top"
        /\ yuv' = DropPush(yuv, scaling) /\ heap' = heap \ FreedByPush(yuv)
        /\ scaling' = 0 /\ UNCHANGED <<added, bgr, encoding>>
        BY <1>4 DEF ScalePush, Typed, InHand, TypeOK, FrameNo
  <2>2. yuv \in Seq(FrameNo) /\ bgr \in Seq(FrameNo) BY DEF Typed, TypeOK
  <2>3. scaling # 0 /\ 0 \notin ToSet(bgr)
    <3>1. scaling # 0 BY <2>1 DEF FrameNo
    <3> QED BY <2>2, <3>1, NoZero
  <2>4. IsInjective(yuv') /\ Len(yuv') <= Limit + 1
        BY <2>1, <2>2, PushItems DEF Apart
  <2>5. \/ ToSet(yuv') = ToSet(yuv) \cup {scaling} /\ FreedByPush(yuv) = {}
        \/ ToSet(yuv') = {scaling} /\ FreedByPush(yuv) = ToSet(yuv)
        BY <2>1, <2>2, PushItems
  <2>6. 0 \notin ToSet(yuv')
    <3>1. 0 \notin ToSet(yuv) BY <2>2, NoZero
    <3> QED BY <2>3, <2>5, <3>1
  <2>7. added \in Nat /\ 0 \in 0..added BY Constants DEF Typed, TypeOK
  <2>8. Apart' BY <2>1, <2>3, <2>4, <2>5, <2>6, <2>7 DEF Apart
  <2>9. Allocated' BY <2>1, <2>3, <2>5 DEF Allocated, Apart
  <2> QED BY <2>1, <2>4, <2>8, <2>9 DEF Short
<1> QED BY <1>1, <1>2, <1>3, <1>4 DEF Scale

LEMMA OwnEnc ==
  ASSUME OwnInv, Enc
  PROVE  Apart' /\ Allocated' /\ Short'
<1> USE DEF OwnInv, scaleVars
<1>1. added \in Nat /\ 0 \in 0..added BY Constants DEF Typed, TypeOK
<1>2. 0 \notin ToSet(bgr) /\ 0 \notin ToSet(yuv)
  <2>1. bgr \in Seq(FrameNo) /\ yuv \in Seq(FrameNo) BY DEF Typed, TypeOK
  <2> QED BY <2>1, NoZero
<1>3. CASE EncTop \/ EncWait \/ EncWake \/ EncSend \/ EncReceive \/ EncFlush \/ EncEnd
          \/ EncCut
  <2>1. UNCHANGED <<added, bgr, yuv, heap, encoding, scaling, scalePc>>
        BY <1>3 DEF EncTop, EncWait, EncWake, EncSend, EncReceive, EncFlush, EncEnd, EncCut
  <2> QED BY <2>1 DEF Apart, Allocated, Short
<1>4. CASE EncPop
  <2>1. /\ yuv # <<>> /\ encoding' = Head(yuv) /\ yuv' = Tail(yuv) /\ encoding = 0
        /\ UNCHANGED <<added, bgr, heap, scaling, scalePc>>
        BY <1>4 DEF EncPop, Typed, InHand
  <2>2. /\ encoding' \in ToSet(yuv) /\ IsInjective(yuv') /\ encoding' # 0
        /\ ToSet(yuv') = ToSet(yuv) \ {encoding'} /\ Len(yuv') <= Len(yuv)
        BY <2>1, PopItems DEF Apart, Typed, TypeOK
  <2>3. Apart' BY <2>1, <2>2 DEF Apart
  <2>4. Len(yuv) \in Nat /\ Len(yuv') \in Nat BY <2>1, Concat DEF Typed, TypeOK
  <2>5. Short' BY <2>1, <2>2, <2>4, EncoderAssumption DEF Short
  <2>6. Allocated' BY <2>1, <2>2 DEF Allocated
  <2> QED BY <2>3, <2>5, <2>6
<1>5. CASE EncRefused \/ EncAgain \/ EncError
  <2>1. /\ heap' = heap \ {encoding} /\ encoding' = 0 /\ encoding # 0
        /\ UNCHANGED <<added, bgr, yuv, scaling, scalePc>>
        BY <1>5 DEF EncRefused, EncAgain, EncError, Typed, InHand
  <2>2. Apart' BY <1>1, <1>2, <2>1 DEF Apart
  <2>3. scalePc = "push" => scaling # 0 BY DEF Typed, InHand
  <2>4. Allocated' BY <2>1, <2>3 DEF Allocated, Apart
  <2> QED BY <2>1, <2>2, <2>4 DEF Short
<1> QED BY <1>3, <1>4, <1>5 DEF Enc

LEMMA OwnOwner ==
  ASSUME OwnInv, Owner \/ Tick
  PROVE  Apart' /\ Allocated' /\ Short'
<1> USE DEF OwnInv, scaleVars
<1>1. CASE Open \/ Destroy \/ JoinEncode \/ Tick
  <2>1. UNCHANGED <<added, bgr, yuv, heap, encoding, scaling, scalePc>>
        BY <1>1 DEF Open, Destroy, JoinEncode, Tick
  <2> QED BY <2>1 DEF Apart, Allocated, Short
<1>2. CASE AddVideoFrame
  <2>1. /\ bgr' = DropPush(bgr, added + 1) /\ added' = added + 1
        /\ UNCHANGED <<yuv, heap, encoding, scaling, scalePc>>
        BY <1>2 DEF AddVideoFrame
  <2>2. added \in Nat /\ added + 1 \in FrameNo /\ bgr \in Seq(FrameNo)
        BY <1>2, Constants DEF AddVideoFrame, Typed, TypeOK, FrameNo
  <2>3. added + 1 \notin ToSet(bgr) \cup ToSet(yuv) \cup {scaling, encoding}
    <3>1. added + 1 \notin 0..added BY <2>2
    <3> QED BY <3>1 DEF Apart
  <2> DEFINE f == added + 1
  <2>4. f \in FrameNo /\ f \notin ToSet(bgr) BY <2>2, <2>3
  <2> HIDE DEF f
  <2>5. IsInjective(DropPush(bgr, f)) /\ Len(DropPush(bgr, f)) <= Limit + 1
        BY <2>2, <2>4, PushItems DEF Apart
  <2>6. ToSet(DropPush(bgr, f)) \subseteq ToSet(bgr) \cup {f}
        BY <2>2, <2>4, PushItems
  <2>7. ToSet(bgr') \subseteq ToSet(bgr) \cup {added'} /\ IsInjective(bgr')
        BY <2>1, <2>5, <2>6 DEF f
  <2>8. 0..added \subseteq 0..added' /\ added' \in 0..added' BY <2>1, <2>2
  <2>9. Apart' BY <2>1, <2>3, <2>7, <2>8 DEF Apart
  <2>10. Short' BY <2>1, <2>5 DEF Short, f
  <2> QED BY <2>1, <2>9, <2>10 DEF Allocated
<1>3. CASE JoinScale
  <2>1. /\ encoding = 0 /\ scaling = 0 /\ scalePc = "done"
        /\ bgr' = <<>> /\ yuv' = <<>> /\ heap' = heap \ ToSet(yuv)
        /\ UNCHANGED <<added, encoding, scaling, scalePc>>
        BY <1>3 DEF JoinScale, Typed, InHand
  <2>2. ToSet(<<>>) = {} /\ IsInjective(<<>>) /\ Len(<<>>) = 0 BY SetOf, EmptySeq
  <2>3. Apart' BY <2>1, <2>2 DEF Apart
  <2>4. Allocated' BY <2>1, <2>2 DEF Allocated
  <2>5. Short' BY <2>1, <2>2, EncoderAssumption DEF Short
  <2> QED BY <2>3, <2>4, <2>5
<1> QED BY <1>1, <1>2, <1>3 DEF Owner, Teardown

LEMMA StepOwn == OwnInv /\ [Next]_vars => OwnInv'
<1> SUFFICES ASSUME OwnInv, [Next]_vars PROVE OwnInv' OBVIOUS
<1>1. Typed' BY StepTyped DEF OwnInv
<1>2. Apart' /\ Allocated' /\ Short'
  <2>1. CASE UNCHANGED vars
        BY <2>1 DEF vars, scaleVars, OwnInv, Apart, Allocated, Short
  <2> QED BY <2>1, OwnScale, OwnEnc, OwnOwner DEF Next
<1> QED BY <1>1, <1>2 DEF OwnInv

LEMMA InitOwn == Init => OwnInv
<1> SUFFICES ASSUME Init PROVE OwnInv OBVIOUS
<1>1. ToSet(<<>>) = {} /\ IsInjective(<<>>) /\ Len(<<>>) = 0 BY SetOf, EmptySeq
<1>2. Apart /\ Allocated BY <1>1 DEF Init, Apart, Allocated
<1>3. Short BY <1>1, EncoderAssumption DEF Init, Short
<1> QED BY <1>2, <1>3, InitTyped DEF OwnInv

LEMMA OwnedFrames == OwnInv => FramesOwned
<1> SUFFICES ASSUME OwnInv PROVE FramesOwned OBVIOUS
<1> USE DEF OwnInv
<1> DEFINE a == yuv
           b == One(encoding)
           c == IF scalePc = "push" THEN <<scaling>> ELSE <<>>
<1>1. /\ a \in Seq(FrameNo)
      /\ b \in Seq(FrameNo) /\ ToSet(b) = {encoding} \ {0} /\ IsInjective(b) /\ Len(b) <= 1
      /\ c \in Seq(FrameNo) /\ IsInjective(c) /\ Len(c) <= 1
      /\ ToSet(c) = IF scalePc = "push" THEN {scaling} ELSE {}
  <2>1. /\ <<>> \in Seq(FrameNo) /\ ToSet(<<>>) = {} /\ IsInjective(<<>>) /\ Len(<<>>) = 0
        BY SetOf, EmptySeq, Concat
  <2>2. ASSUME NEW f \in FrameNo
        PROVE  <<f>> \in Seq(FrameNo) /\ ToSet(<<f>>) = {f} /\ IsInjective(<<f>>)
               /\ Len(<<f>>) = 1
        BY SetOf
  <2>3. encoding = 0 \/ (encoding \in FrameNo /\ encoding # 0) BY DEF Typed, TypeOK, FrameNo
  <2>4. scalePc = "push" => scaling \in FrameNo BY DEF Typed, TypeOK, InHand, FrameNo
  <2>5. b \in Seq(FrameNo) /\ ToSet(b) = {encoding} \ {0} /\ IsInjective(b) /\ Len(b) <= 1
        BY <2>1, <2>2, <2>3 DEF One
  <2>6. /\ c \in Seq(FrameNo) /\ IsInjective(c) /\ Len(c) <= 1
        /\ ToSet(c) = IF scalePc = "push" THEN {scaling} ELSE {}
    <3>1. CASE scalePc = "push"
      <4>1. c = <<scaling>> /\ scaling \in FrameNo BY <2>4, <3>1
      <4> QED BY <2>2, <3>1, <4>1
    <3>2. CASE scalePc # "push"
      <4>1. c = <<>> BY <3>2
      <4> QED BY <2>1, <3>2, <4>1
    <3> QED BY <3>1, <3>2
  <2> QED BY <2>5, <2>6 DEF Typed, TypeOK
<1>2. /\ ToSet(a) \cap ToSet(b) = {} /\ ToSet(a) \cap ToSet(c) = {}
      /\ ToSet(b) \cap ToSet(c) = {} /\ IsInjective(a)
      /\ heap = ToSet(a) \cup ToSet(b) \cup ToSet(c)
      BY <1>1 DEF Apart, Allocated
<1>3. Held = Cat(Cat(a, b), c) /\ Len(a) <= Limit + 1 BY DEF Held, Cat, Short
<1> HIDE DEF a, b, c
<1>4. /\ Cat(a, b) \in Seq(FrameNo) /\ IsInjective(Cat(a, b))
      /\ ToSet(Cat(a, b)) = ToSet(a) \cup ToSet(b)
      BY <1>1, <1>2, CatLaws, Halves
<1> DEFINE d == Cat(a, b)
<1>5. d \in Seq(FrameNo) /\ IsInjective(d) /\ ToSet(d) = ToSet(a) \cup ToSet(b) BY <1>4
<1>6. Len(d) = Len(a) + Len(b) BY <1>1, ConcatProperties DEF Cat
<1> HIDE DEF d
<1>7. /\ Cat(d, c) \in Seq(FrameNo) /\ IsInjective(Cat(d, c))
      /\ ToSet(Cat(d, c)) = ToSet(d) \cup ToSet(c)
  <2>1. Cat(d, c) \in Seq(FrameNo) BY <1>1, <1>5, CatLaws
  <2>2. ToSet(d) \cap ToSet(c) = {} BY <1>2, <1>5
  <2>3. /\ ToSet(Cat(d, c)) = ToSet(d) \cup ToSet(c)
        /\ IsInjective(Cat(d, c)) <=>
             IsInjective(d) /\ IsInjective(c) /\ ToSet(d) \cap ToSet(c) = {}
        BY <1>1, <1>5, Halves
  <2>4. IsInjective(Cat(d, c)) BY <1>1, <1>5, <2>2, <2>3
  <2> QED BY <2>1, <2>3, <2>4
<1>8. Len(Cat(d, c)) = Len(d) + Len(c) BY <1>1, <1>5, ConcatProperties DEF Cat
<1>9. heap = ToSet(Held) /\ IsInjective(Held) BY <1>2, <1>3, <1>5, <1>7 DEF d
<1>10. Cardinality(heap) <= Limit + 3
  <2>1. /\ Held \in Seq(FrameNo) /\ Len(Held) = Len(a) + Len(b) + Len(c)
        BY <1>3, <1>6, <1>7, <1>8 DEF d
  <2>2. IsFiniteSet(heap) /\ Cardinality(heap) <= Len(Held) BY <1>9, <2>1, HowMany
  <2>3. Len(a) \in Nat /\ Len(b) \in Nat /\ Len(c) \in Nat BY <1>1
  <2>4. Cardinality(heap) \in Nat BY <2>2, FS_CardinalityType
  <2> QED BY <1>1, <1>3, <2>1, <2>2, <2>3, <2>4, EncoderAssumption
<1> QED BY <1>9, <1>10 DEF FramesOwned, Typed, Short

(***************************************************************************)
(* However the threads interleave, whatever is dropped or refused and      *)
(* whenever the encoder is destroyed: every frame has one owner, and the   *)
(* lists and the frames allocated stay within their bounds.                *)
(***************************************************************************)
THEOREM NoFrameLost == SafeSpec => []FramesOwned
<1> QED BY InitOwn, StepOwn, OwnedFrames, PTL DEF SafeSpec

(***************************************************************************)
(* The conversion context.  It was made for some picture, of the width     *)
(* that the scale thread remembers, or of the codec's width while it       *)
(* remembers none; before Init there is no picture to convert.  No picture *)
(* on its way to the scale thread was added before the one it was made     *)
(* for, since they are taken in the order they were added.                 *)
(***************************************************************************)
InOrder ==
  /\ \A i, j \in DOMAIN bgr : i <= j => bgr[i] <= bgr[j]
  /\ \A i \in DOMAIN bgr : scaling <= bgr[i] /\ bgr[i] <= added
  /\ scaling <= added

Ahead(f) ==
  /\ f <= added
  /\ scaling # 0 => f <= scaling
  /\ \A i \in DOMAIN bgr : f <= bgr[i]

ContextInv ==
  /\ opc = "ctor" => bgr = <<>> /\ scaling = 0 /\ lastWidth = 0 /\ added = 0
  /\ opc # "ctor" =>
       /\ NumFrames > 0
       /\ context.w = LastWidth
       /\ context = Sizes[1] \/ \E f \in FrameNo : context = Sizes[f] /\ Ahead(f)
  /\ scalePc = "convert" => lastWidth = Sizes[scaling].w

(* A push at the end of a list keeps what holds of it and of the new one.  *)
LEMMA PushPlaces ==
  ASSUME NEW q \in Seq(FrameNo), NEW f \in FrameNo,
         NEW i \in DOMAIN DropPush(q, f)
  PROVE  \/ DropPush(q, f)[i] = f /\ i = Len(DropPush(q, f))
         \/ i \in DOMAIN q /\ DropPush(q, f)[i] = q[i]
<1>1. CASE Len(q) > Limit BY <1>1 DEF DropPush
<1>2. CASE ~(Len(q) > Limit) BY <1>2, AppendProperties DEF DropPush
<1> QED BY <1>1, <1>2

LEMMA PicturesAreNumbers == \A q \in Seq(FrameNo) : \A i \in DOMAIN q : q[i] \in Nat
<1>1. \A q \in Seq(FrameNo) : \A i \in DOMAIN q : q[i] \in FrameNo OBVIOUS
<1> QED BY <1>1 DEF FrameNo

LEMMA StepInOrder == Typed /\ Typed' /\ InOrder /\ [Next]_vars => InOrder'
<1> SUFFICES ASSUME Typed, Typed', InOrder, [Next]_vars PROVE InOrder' OBVIOUS
<1> USE DEF InOrder
<1>1. bgr \in Seq(FrameNo) /\ scaling \in Nat /\ added \in Nat /\ scaling' \in Nat
      BY Constants DEF Typed, TypeOK
<1>2. ASSUME UNCHANGED <<bgr, added>>, scaling' = scaling \/ scaling' = 0
      PROVE  InOrder'
  <2>1. \A i \in DOMAIN bgr : bgr[i] \in Nat BY <1>1, PicturesAreNumbers
  <2> QED BY <1>1, <1>2, <2>1
<1>3. CASE UNCHANGED vars BY <1>2, <1>3 DEF vars, scaleVars
<1>4. CASE ScalePop
  <2>1. /\ bgr # <<>> /\ scaling' = bgr[1] /\ bgr' = Tail(bgr) /\ added' = added
        BY <1>4 DEF ScalePop
  <2>2. /\ Len(bgr) \in Nat \ {0} /\ DOMAIN bgr = 1..Len(bgr)
        /\ DOMAIN bgr' = 1..(Len(bgr) - 1)
        /\ \A i \in DOMAIN bgr' : bgr'[i] = bgr[i + 1]
        BY <1>1, <2>1, HeadTailProperties, EmptySeq
  <2>3. \A i \in DOMAIN bgr : bgr[i] \in Nat BY <1>1, PicturesAreNumbers
  <2> QED BY <2>1, <2>2, <2>3
<1>5. CASE Scale /\ ~ScalePop
      BY <1>2, <1>5 DEF Scale, ScaleTop, ScaleWait, ScaleWake, ScaleSize, ScaleConvert, ScalePush
<1>6. CASE Enc
      BY <1>2, <1>6 DEF Enc, EncTop, EncPop, EncWait, EncWake, EncSend, EncRefused, EncError,
                        EncCut, EncReceive, EncAgain, EncFlush, EncEnd, Flushed, scaleVars
<1>7. CASE AddVideoFrame
  <2> DEFINE f == added + 1
             q == DropPush(bgr, f)
  <2>1. f \in FrameNo /\ bgr' = q /\ added' = f /\ scaling' = scaling
        BY <1>7, Constants DEF AddVideoFrame, scaleVars, Typed, TypeOK, FrameNo
  <2>2. \A i \in DOMAIN q : \/ q[i] = f /\ i = Len(q)
                            \/ i \in DOMAIN bgr /\ q[i] = bgr[i]
        BY <1>1, <2>1, PushPlaces
  <2>3. q \in Seq(FrameNo) /\ DOMAIN q = 1..Len(q) /\ Len(q) \in Nat
        BY <1>1, <2>1, PushType, LenProperties
  <2>4. \A i \in DOMAIN bgr : bgr[i] \in Nat BY <1>1, PicturesAreNumbers
  <2>5. f \in Nat /\ f = added + 1 BY <1>1
  <2> HIDE DEF f, q
  <2>6. ASSUME NEW i \in DOMAIN q PROVE scaling <= q[i] /\ q[i] <= f
        BY <1>1, <2>2, <2>4, <2>5
  <2>7. ASSUME NEW i \in DOMAIN q, NEW j \in DOMAIN q, i <= j PROVE q[i] <= q[j]
    <3>1. CASE q[j] = f /\ j = Len(q) BY <2>6, <3>1
    <3>2. CASE j \in DOMAIN bgr /\ q[j] = bgr[j]
      <4>1. CASE i \in DOMAIN bgr /\ q[i] = bgr[i] BY <2>7, <3>2, <4>1
      <4>2. CASE q[i] = f /\ i = Len(q)
        <5>1. i = j BY <2>3, <2>7, <4>2
        <5> QED BY <2>5, <4>2, <5>1
      <4> QED BY <2>2, <4>1, <4>2
    <3> QED BY <2>2, <3>1, <3>2
  <2>8. scaling <= f BY <1>1, <2>5
  <2> QED BY <2>1, <2>6, <2>7, <2>8
<1>8. CASE JoinScale
  <2>1. bgr' = <<>> /\ UNCHANGED <<scaling, added>> BY <1>8 DEF JoinScale, scaleVars
  <2>2. DOMAIN <<>> = {} OBVIOUS
  <2> QED BY <2>1, <2>2
<1>9. CASE Open \/ Destroy \/ JoinEncode \/ Tick
      BY <1>2, <1>9 DEF Open, Destroy, JoinEncode, Tick, scaleVars
<1> QED BY <1>3, <1>4, <1>5, <1>6, <1>7, <1>8, <1>9 DEF Next, Owner, Teardown

(* What is ahead of every picture on the way stays there.                  *)
LEMMA StaysAhead ==
  ASSUME Typed, Typed', InOrder, [Next]_vars, NEW f \in FrameNo, Ahead(f)
  PROVE  Ahead(f)'
<1> USE DEF Ahead
<1>1. /\ bgr \in Seq(FrameNo) /\ added \in Nat /\ f \in Nat
      BY Constants DEF Typed, TypeOK, FrameNo
<1>2. ASSUME UNCHANGED <<bgr, added>>, scaling' = scaling \/ scaling' = 0 PROVE Ahead(f)'
      BY <1>2
<1>3. CASE UNCHANGED vars BY <1>2, <1>3 DEF vars, scaleVars
<1>4. CASE ScalePop
  <2>1. /\ bgr # <<>> /\ scaling' = bgr[1] /\ bgr' = Tail(bgr) /\ added' = added
        BY <1>4 DEF ScalePop
  <2>2. /\ Len(bgr) \in Nat \ {0} /\ DOMAIN bgr = 1..Len(bgr)
        /\ DOMAIN bgr' = 1..(Len(bgr) - 1)
        /\ \A i \in DOMAIN bgr' : bgr'[i] = bgr[i + 1]
        BY <1>1, <2>1, HeadTailProperties, EmptySeq
  <2> QED BY <2>1, <2>2
<1>5. CASE Scale /\ ~ScalePop
      BY <1>2, <1>5 DEF Scale, ScaleTop, ScaleWait, ScaleWake, ScaleSize, ScaleConvert, ScalePush
<1>6. CASE Enc
      BY <1>2, <1>6 DEF Enc, EncTop, EncPop, EncWait, EncWake, EncSend, EncRefused, EncError,
                        EncCut, EncReceive, EncAgain, EncFlush, EncEnd, Flushed, scaleVars
<1>7. CASE AddVideoFrame
  <2>1. /\ added + 1 \in FrameNo /\ bgr' = DropPush(bgr, added + 1) /\ added' = added + 1
        /\ scaling' = scaling
        BY <1>7, Constants DEF AddVideoFrame, scaleVars, Typed, TypeOK, FrameNo
  <2>2. \A i \in DOMAIN bgr' : bgr'[i] = added + 1 \/ (i \in DOMAIN bgr /\ bgr'[i] = bgr[i])
        BY <1>1, <2>1, PushPlaces
  <2> QED BY <1>1, <2>1, <2>2
<1>8. CASE JoinScale
  <2>1. bgr' = <<>> /\ UNCHANGED <<scaling, added>> BY <1>8 DEF JoinScale, scaleVars
  <2>2. DOMAIN <<>> = {} OBVIOUS
  <2> QED BY <2>1, <2>2
<1>9. CASE Open \/ Destroy \/ JoinEncode \/ Tick
      BY <1>2, <1>9 DEF Open, Destroy, JoinEncode, Tick, scaleVars
<1> QED BY <1>3, <1>4, <1>5, <1>6, <1>7, <1>8, <1>9 DEF Next, Owner, Teardown

LEMMA ContextSize ==
  ASSUME Typed, InOrder, ContextInv, ScaleSize, \A f \in FrameNo : Sizes[f].w # 0,
         \A f \in FrameNo : Ahead(f) => Ahead(f)'
  PROVE  ContextInv'
<1>1. scaling \in FrameNo /\ opc # "ctor" /\ opc' = opc /\ scaling' = scaling
      BY DEF ScaleSize, Typed, TypeOK, InHand, FrameNo, ContextInv
<1>2. lastWidth' = Sizes[scaling].w /\ Sizes[scaling].w # 0 BY <1>1 DEF ScaleSize
<1>3. LastWidth' = Sizes[scaling].w BY <1>2 DEF LastWidth
<1>4. Ahead(scaling) BY <1>1 DEF Ahead, InOrder, FrameNo
<1>5. \/ context' = Sizes[scaling] /\ Ahead(scaling)'
      \/ context' = context /\ LastWidth = Sizes[scaling].w
      BY <1>1, <1>4 DEF ScaleSize
<1>6. context' = Sizes[1] \/ \E f \in FrameNo : context' = Sizes[f] /\ Ahead(f)'
      BY <1>1, <1>5 DEF ContextInv
<1>7. context'.w = Sizes[scaling].w BY <1>1, <1>5 DEF ContextInv
<1> QED BY <1>1, <1>2, <1>3, <1>6, <1>7 DEF ContextInv

LEMMA StepContext ==
  ASSUME Typed, Typed', InOrder, ContextInv, [Next]_vars, \A f \in FrameNo : Sizes[f].w # 0
  PROVE  ContextInv'
<1>0. \A f \in FrameNo : Ahead(f) => Ahead(f)' BY StaysAhead
<1>1. CASE UNCHANGED vars
      BY <1>0, <1>1 DEF vars, scaleVars, ContextInv, LastWidth
<1>2. CASE ScaleSize BY <1>0, <1>2, ContextSize
<1>3. ASSUME UNCHANGED <<context, lastWidth, opc, added>>,
             bgr' = bgr \/ (bgr # <<>> /\ opc # "ctor"),
             scaling' = scaling \/ opc # "ctor", scalePc' # "convert" \/ UNCHANGED <<scaling, scalePc>>
      PROVE  ContextInv'
      BY <1>0, <1>3 DEF ContextInv, LastWidth
<1>4. CASE Scale
  <2>1. CASE ScalePop
    <3>1. bgr # <<>> /\ opc # "ctor" BY <2>1 DEF ScalePop, ContextInv
    <3> QED BY <1>3, <2>1, <3>1 DEF ScalePop
  <2>2. CASE ScalePush
    <3>1. opc # "ctor" BY <2>2 DEF ScalePush, ContextInv, Typed, InHand
    <3> QED BY <1>3, <2>2, <3>1 DEF ScalePush
  <2>3. CASE ScaleTop \/ ScaleWait \/ ScaleWake \/ ScaleConvert
        BY <1>3, <2>3 DEF ScaleTop, ScaleWait, ScaleWake, ScaleConvert
  <2> QED BY <1>2, <1>4, <2>1, <2>2, <2>3 DEF Scale
<1>5. CASE Enc
      BY <1>3, <1>5 DEF Enc, EncTop, EncPop, EncWait, EncWake, EncSend, EncRefused, EncError,
                        EncCut, EncReceive, EncAgain, EncFlush, EncEnd, Flushed, scaleVars
<1>6. CASE Open
  <2>2. /\ opc' # "ctor" /\ context' = Sizes[1] /\ LastWidth' = Sizes[1].w
        /\ UNCHANGED <<lastWidth, scaling, scalePc>> /\ NumFrames > 0
        BY <1>6 DEF Open, ContextInv, LastWidth, CodecWidth
  <2> QED BY <2>2 DEF ContextInv
<1>7. CASE AddVideoFrame \/ Destroy \/ Teardown \/ Tick
  <2>1. UNCHANGED <<context, lastWidth, scaling, scalePc>> /\ (opc' = "ctor" => opc = "ctor")
        BY <1>7 DEF AddVideoFrame, Destroy, Teardown, JoinEncode, JoinScale, Tick, scaleVars
  <2>2. opc' = "ctor" => UNCHANGED <<bgr, added>>
        BY <1>7 DEF AddVideoFrame, Destroy, Teardown, JoinEncode, JoinScale, Tick
  <2>3. opc' # "ctor" => opc # "ctor"
        BY <1>7 DEF AddVideoFrame, Destroy, Teardown, JoinEncode, JoinScale, Tick
  <2> QED BY <1>0, <2>1, <2>2, <2>3 DEF ContextInv, LastWidth
<1> QED BY <1>1, <1>4, <1>5, <1>6, <1>7 DEF Next, Owner

(***************************************************************************)
(* Whatever sizes the pictures have: the context a picture is converted    *)
(* with has its width, and is its own or that of a picture added earlier.  *)
(* So it is wrong only where the height has changed and the width has not. *)
(* A picture has at least one column: the width 0 stands for no picture.   *)
(***************************************************************************)
THEOREM ContextHasWidth ==
  ASSUME \A f \in FrameNo : Sizes[f].w # 0
  PROVE  SafeSpec => []ContextFits
<1>1. Init => ContextInv BY DEF Init, ContextInv
<1>2. Init => InOrder
  <2>1. DOMAIN <<>> = {} OBVIOUS
  <2> QED BY <2>1 DEF Init, InOrder
<1>3. Typed /\ ContextInv => ContextFits
  <2> SUFFICES ASSUME Typed, ContextInv, scalePc = "convert"
               PROVE  /\ context.w = Sizes[scaling].w
                      /\ \E f \in 1..scaling : context = Sizes[f]
      BY DEF ContextFits
  <2>1. scaling \in FrameNo /\ opc # "ctor" BY DEF Typed, TypeOK, InHand, FrameNo, ContextInv
  <2>2. Sizes[scaling].w # 0 /\ lastWidth = Sizes[scaling].w BY <2>1 DEF ContextInv
  <2>3. context.w = Sizes[scaling].w BY <2>1, <2>2 DEF ContextInv, LastWidth
  <2>4. context = Sizes[1] \/ \E f \in FrameNo : context = Sizes[f] /\ Ahead(f)
        BY <2>1 DEF ContextInv
  <2>5. 1 \in 1..scaling /\ scaling # 0 BY <2>1 DEF FrameNo
  <2>6. ASSUME NEW f \in FrameNo, Ahead(f) PROVE f \in 1..scaling
        BY <2>1, <2>5, <2>6 DEF Ahead, FrameNo
  <2> QED BY <2>3, <2>4, <2>5, <2>6
<1>4. Typed /\ Typed' /\ InOrder /\ ContextInv /\ [Next]_vars => ContextInv' BY StepContext
<1>5. Typed /\ Typed' /\ InOrder /\ [Next]_vars => InOrder' BY StepInOrder
<1> QED BY <1>1, <1>2, <1>3, <1>4, <1>5, InitTyped, StepTyped, PTL DEF SafeSpec
=============================================================================
