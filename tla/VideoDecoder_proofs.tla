------------------------ MODULE VideoDecoder_proofs -------------------------
(***************************************************************************)
(* Proofs about VideoDecoder, for any number of packets, any number that   *)
(* the codec keeps back, and failures wherever the code provides for them. *)
(***************************************************************************)
EXTENDS VideoDecoder, FifoLemmas

(***************************************************************************)
(* Type correctness needs to know what each thread has in hand where it is *)
(* and that the owner frees the lists when both threads have ended.        *)
(***************************************************************************)
InHand ==
  /\ decPc = "send" => decoding # 0
  /\ copying # 0 <=> decPc = "copy"
  /\ scaling # 0 <=> scalePc \in {"scale", "free"}
  /\ opc \in {"joinScale", "dead"} => decPc = "done"

HandInv == TypeOK /\ InHand

LEMMA InitHand == Init => HandInv
<1> SUFFICES ASSUME Init PROVE HandInv OBVIOUS
<1>1. <<>> \in Seq(PacketNo) BY Concat
<1>2. /\ es \in Seq(PacketNo) /\ codec \in Seq(PacketNo) /\ yuv \in Seq(PacketNo)
      /\ pictures \in Seq(PacketNo)
      BY <1>1 DEF Init
<1>3. /\ 0 \in 0..MaxPackets
      /\ nodes \in SUBSET PacketNo /\ heap \in SUBSET PacketNo /\ failed \in SUBSET PacketNo
      BY DecoderAssumption DEF Init
<1>4. TypeOK BY <1>2, <1>3 DEF Init, TypeOK
<1>5. InHand BY DEF Init, InHand
<1> QED BY <1>4, <1>5 DEF HandInv

LEMMA StepDec ==
  ASSUME HandInv, Dec
  PROVE  HandInv'
<1> USE DecoderAssumption DEF HandInv, InHand, TypeOK, PacketNo
<1>1. CASE DecTop BY <1>1 DEF DecTop, input, scaleVars
<1>2. CASE DecPop
  <2>1. Head(es) \in PacketNo /\ Tail(es) \in Seq(PacketNo) BY <1>2, Concat DEF DecPop
  <2> QED BY <1>2, <2>1 DEF DecPop, scaleVars
<1>3. CASE DecWait BY <1>3 DEF DecWait, input, scaleVars
<1>4. CASE DecWake BY <1>4 DEF DecWake, input, scaleVars
<1>5. CASE DecSend BY <1>5 DEF DecSend, input, scaleVars
<1>6. CASE DecRefused BY <1>6 DEF DecRefused, input, scaleVars
<1>7. CASE DecReceive
  <2>1. codec # <<>> BY <1>7 DEF DecReceive, CodecGives
  <2>2. Head(codec) \in PacketNo /\ Tail(codec) \in Seq(PacketNo) BY <2>1, Concat
  <2>3. Head(codec) \in 0..MaxPackets /\ Head(codec) # 0 BY <2>2
  <2>4. heap' \in SUBSET PacketNo BY <1>7, <2>2 DEF DecReceive
  <2>5. InHand' BY <1>7, <2>3 DEF DecReceive, scaleVars
  <2> QED BY <1>7, <2>2, <2>3, <2>4, <2>5 DEF DecReceive, input, scaleVars
<1>8. CASE CopyFails BY <1>8 DEF CopyFails, input, scaleVars
<1>9. CASE DecPush BY <1>9 DEF DecPush, Push, input, scaleVars
<1>10. CASE DecAgain BY <1>10 DEF DecAgain, input, scaleVars
<1>11. CASE DecDelete BY <1>11 DEF DecDelete, scaleVars
<1>12. CASE DecDrain BY <1>12 DEF DecDrain, input, scaleVars
<1> QED BY <1>1, <1>2, <1>3, <1>4, <1>5, <1>6, <1>7, <1>8, <1>9, <1>10, <1>11, <1>12 DEF Dec

LEMMA StepScale ==
  ASSUME HandInv, Scale
  PROVE  HandInv'
<1> USE DecoderAssumption DEF HandInv, InHand, TypeOK, PacketNo
<1>1. CASE ScaleTop BY <1>1 DEF ScaleTop, input
<1>2. CASE ScalePop
  <2>1. Head(yuv) \in PacketNo /\ Tail(yuv) \in Seq(PacketNo) BY <1>2, Concat DEF ScalePop
  <2> QED BY <1>2, <2>1 DEF ScalePop, input
<1>3. CASE ScaleWait BY <1>3 DEF ScaleWait, input
<1>4. CASE ScaleWake BY <1>4 DEF ScaleWake, input
<1>5. CASE ScaleEmit BY <1>5 DEF ScaleEmit, input
<1>6. CASE ScaleFree BY <1>6 DEF ScaleFree, input
<1> QED BY <1>1, <1>2, <1>3, <1>4, <1>5, <1>6 DEF Scale

LEMMA StepOwner ==
  ASSUME HandInv, Owner
  PROVE  HandInv'
<1> USE DecoderAssumption DEF HandInv, InHand, TypeOK, PacketNo
<1>1. CASE InputVideoData
  <2>1. added + 1 \in PacketNo BY <1>1 DEF InputVideoData
  <2>2. es' \in Seq(PacketNo) BY <1>1, <2>1 DEF InputVideoData, Push
  <2> QED BY <1>1, <2>1, <2>2 DEF InputVideoData, scaleVars
<1>2. CASE Destroy BY <1>2 DEF Destroy, input, scaleVars
<1>3. CASE JoinDecode BY <1>3 DEF JoinDecode, input, scaleVars
<1>4. CASE JoinScale
  <2>1. <<>> \in Seq(PacketNo) BY Concat
  <2>2. es' \in Seq(PacketNo) /\ yuv' \in Seq(PacketNo) /\ codec' \in Seq(PacketNo)
        BY <1>4, <2>1 DEF JoinScale
  <2>3. heap' \in SUBSET PacketNo /\ nodes' \in SUBSET PacketNo BY <1>4 DEF JoinScale
  <2>4. InHand' BY <1>4 DEF JoinScale, scaleVars
  <2>5. UNCHANGED <<added, decoding, draining, failed, copying, scaling, pictures, scalePc,
                    abort, decPc>>
        BY <1>4 DEF JoinScale, scaleVars
  <2> QED BY <1>4, <2>2, <2>3, <2>4, <2>5 DEF JoinScale
<1> QED BY <1>1, <1>2, <1>3, <1>4 DEF Owner, Teardown

LEMMA StepHand == HandInv /\ [Next]_vars => HandInv'
<1> SUFFICES ASSUME HandInv, [Next]_vars PROVE HandInv' OBVIOUS
<1>1. CASE UNCHANGED vars
      BY <1>1 DEF vars, input, scaleVars, HandInv, InHand, TypeOK
<1> QED BY <1>1, StepDec, StepScale, StepOwner DEF Next

(***************************************************************************)
(* Every variable keeps its type.                                          *)
(***************************************************************************)
THEOREM TypeCorrect == SafeSpec => []TypeOK
<1>1. HandInv => TypeOK BY DEF HandInv
<1> QED BY <1>1, InitHand, StepHand, PTL DEF SafeSpec

(***************************************************************************)
(* The decoder as a LossyFifo.  What is inside is the concatenation of the *)
(* lists and of what the threads have in hand; each step is a loss, a put, *)
(* a get, or only moves an item from one part to the next.                 *)
(***************************************************************************)
LEMMA OneIsSeq == \A n \in 0..MaxPackets : One(n) \in Seq(PacketNo)
<1> SUFFICES ASSUME NEW n \in 0..MaxPackets PROVE One(n) \in Seq(PacketNo) OBVIOUS
<1>1. <<>> \in Seq(PacketNo) BY Concat
<1>2. n # 0 => <<n>> \in Seq(PacketNo) BY DecoderAssumption DEF PacketNo
<1> QED BY <1>1, <1>2 DEF One

Coded == Cat(codec, Cat(Sending, es))
Queued == Cat(yuv, Cat(One(copying), Coded))

FlowParts ==
  /\ Scaled \in Seq(PacketNo) /\ yuv \in Seq(PacketNo)
  /\ One(copying) \in Seq(PacketNo) /\ codec \in Seq(PacketNo)
  /\ Sending \in Seq(PacketNo) /\ es \in Seq(PacketNo)
  /\ Cat(Sending, es) \in Seq(PacketNo)
  /\ Coded \in Seq(PacketNo) /\ Cat(One(copying), Coded) \in Seq(PacketNo)
  /\ Queued \in Seq(PacketNo) /\ Inside \in Seq(PacketNo)
  /\ Inside = Cat(Scaled, Queued)

LEMMA Parts == HandInv => FlowParts
<1> SUFFICES ASSUME HandInv PROVE FlowParts OBVIOUS
<1>1. /\ Scaled \in Seq(PacketNo) /\ yuv \in Seq(PacketNo)
      /\ One(copying) \in Seq(PacketNo) /\ codec \in Seq(PacketNo)
      /\ Sending \in Seq(PacketNo) /\ es \in Seq(PacketNo)
  <2>1. <<>> \in Seq(PacketNo) BY Concat
  <2> QED BY <2>1, OneIsSeq DEF HandInv, TypeOK, Scaled, Sending
<1>2. Cat(Sending, es) \in Seq(PacketNo) BY <1>1, CatLaws
<1>3. Coded \in Seq(PacketNo) BY <1>1, <1>2, CatLaws DEF Coded
<1>4. Cat(One(copying), Coded) \in Seq(PacketNo) BY <1>1, <1>3, CatLaws
<1>5. Queued \in Seq(PacketNo) BY <1>1, <1>4, CatLaws DEF Queued
<1>6. Cat(Scaled, Queued) \in Seq(PacketNo) BY <1>1, <1>5, CatLaws
<1>7. Inside = Cat(Scaled, Queued) BY DEF Inside, Queued, Coded, Cat
<1> QED BY <1>1, <1>2, <1>3, <1>4, <1>5, <1>6, <1>7 DEF FlowParts

LEMMA PartsNext == HandInv' => FlowParts'
BY Parts, PTL

(* The steps of LossyFifo, for what is inside.  Three actions lose. *)
LoseStep ==
  /\ Lossy(Inside, Inside') /\ UNCHANGED <<pictures, added>>
  /\ DecRefused \/ CopyFails \/ JoinScale
PutStep == Joined(Inside, Inside', added + 1) /\ added' = added + 1 /\ UNCHANGED pictures
GetStep ==
  /\ Inside # <<>>
  /\ pictures' = Append(pictures, Head(Inside))
  /\ Inside' = Tail(Inside)
  /\ UNCHANGED added
FifoStep == LoseStep \/ PutStep \/ GetStep \/ UNCHANGED <<Inside, pictures, added>>

(* The two threads. *)
LEMMA FifoDec ==
  ASSUME FlowParts, FlowParts', HandInv, Dec
  PROVE  FifoStep
<1>1. ASSUME UNCHANGED <<Scaled, yuv, copying, codec, Sending, es, pictures, added>>
      PROVE  FifoStep
  <2>1. Inside' = Inside BY <1>1 DEF Inside
  <2> QED BY <1>1, <2>1 DEF FifoStep
<1>2. CASE DecTop
      BY <1>1, <1>2 DEF DecTop, Scaled, Sending, input, scaleVars
<1>3. CASE DecPop
  <2>1. es # <<>> /\ Head(es) # 0
    <3>1. Head(es) \in PacketNo BY <1>3, Concat DEF DecPop, HandInv, TypeOK
    <3> QED BY <1>3, <3>1 DEF DecPop, PacketNo
  <2>2. Sending = <<>> /\ Sending' = <<Head(es)>> /\ es' = Tail(es)
    <3>1. /\ decPc = "enter" /\ decPc' = "send"
          /\ decoding' = Head(es) /\ es' = Tail(es)
          BY <1>3 DEF DecPop
    <3>2. decoding' # 0 BY <2>1, <3>1
    <3>3. Sending = <<>> /\ Sending' = <<decoding'>> BY <3>1, <3>2 DEF Sending, One
    <3> QED BY <3>1, <3>3
  <2>3. Cat(Sending', es') = Cat(Sending, es) BY <2>1, <2>2, CatLaws DEF FlowParts
  <2>4. UNCHANGED <<Scaled, yuv, copying, codec, pictures, added>>
        BY <1>3 DEF DecPop, Scaled, scaleVars
  <2>5. Coded' = Coded BY <2>3, <2>4 DEF Coded
  <2>6. Inside' = Inside BY <2>4, <2>5 DEF FlowParts, Queued
  <2> QED BY <2>4, <2>6 DEF FifoStep
<1>4. CASE DecWait
      BY <1>1, <1>4 DEF DecWait, Scaled, Sending, input, scaleVars
<1>5. CASE DecWake
      BY <1>1, <1>5 DEF DecWake, Scaled, Sending, input, scaleVars
<1>6. CASE DecSend
  <2>1. /\ decoding \in PacketNo /\ Sending = <<decoding>> /\ Sending' = <<>>
        /\ codec' = Append(codec, decoding) /\ es' = es
        BY <1>6 DEF DecSend, Sending, One, HandInv, InHand, TypeOK, PacketNo, input
  <2>2. codec' = Cat(codec, Sending) BY <2>1, CatLaws DEF FlowParts
  <2>3. Cat(Sending', es') = es BY <2>1, CatLaws DEF FlowParts
  <2>4. Coded' = Coded BY <2>2, <2>3, CatAssociative DEF Coded, FlowParts
  <2>5. UNCHANGED <<Scaled, yuv, copying, pictures, added>>
        BY <1>6 DEF DecSend, Scaled, scaleVars, input
  <2>6. Inside' = Inside BY <2>4, <2>5 DEF FlowParts, Queued
  <2> QED BY <2>5, <2>6 DEF FifoStep
<1>7. CASE DecRefused
  <2>1. /\ decoding \in PacketNo /\ Sending = <<decoding>> /\ Sending' = <<>> /\ es' = es
        BY <1>7 DEF DecRefused, Sending, One, HandInv, InHand, TypeOK, PacketNo, input
  <2>2. UNCHANGED <<Scaled, yuv, copying, codec, pictures, added>>
        BY <1>7 DEF DecRefused, Scaled, scaleVars, input
  <2>3. Cat(Sending', es') = es BY <2>1, CatLaws DEF FlowParts
  <2>4. Lossy(Cat(Sending, es), Cat(Sending', es'))
        BY <2>1, <2>3, CatLossy DEF FlowParts
  <2>5. Lossy(Coded, Coded') BY <2>2, <2>4, CatLossy DEF Coded, FlowParts
  <2>6. Lossy(Cat(One(copying), Coded), Cat(One(copying)', Coded'))
        BY <2>2, <2>5, CatLossy DEF FlowParts
  <2>7. Lossy(Queued, Queued') BY <2>2, <2>6, CatLossy DEF Queued, FlowParts
  <2>8. Lossy(Inside, Inside') BY <2>2, <2>7, CatLossy DEF FlowParts
  <2> QED BY <1>7, <2>2, <2>8 DEF FifoStep, LoseStep
<1>8. CASE DecReceive
  <2>1. codec # <<>>
        BY <1>8, DecoderAssumption DEF DecReceive, CodecGives, HandInv, TypeOK
  <2>2. Head(codec) # 0
    <3>1. Head(codec) \in PacketNo BY <2>1, Concat DEF HandInv, TypeOK
    <3> QED BY <3>1 DEF PacketNo
  <2>3. One(copying) = <<>> /\ One(copying)' = <<Head(codec)>> /\ codec' = Tail(codec)
    <3>1. copying = 0 /\ copying' = Head(codec) /\ codec' = Tail(codec)
          BY <1>8 DEF DecReceive, HandInv, InHand
    <3>2. copying' # 0 BY <2>2, <3>1
    <3>3. One(copying) = <<>> /\ One(copying)' = <<copying'>> BY <3>1, <3>2 DEF One
    <3> QED BY <3>1, <3>3
  <2>4. UNCHANGED <<Scaled, yuv, Sending, es, pictures, added>>
        BY <1>8 DEF DecReceive, Scaled, Sending, scaleVars, input
  <2>5. codec = Cat(One(copying)', codec') BY SMTT(30), <2>1, <2>3, CatLaws DEF FlowParts
  <2>6. Coded = Cat(One(copying)', Coded')
        BY <2>4, <2>5, CatAssociative DEF Coded, FlowParts
  <2>7. Cat(One(copying), Coded) = Coded BY <2>3, CatLaws DEF FlowParts
  <2>8. Queued' = Queued BY <2>4, <2>6, <2>7 DEF Queued
  <2>9. Inside' = Inside BY <2>4, <2>8 DEF FlowParts
  <2> QED BY <2>4, <2>9 DEF FifoStep
<1>9. CASE CopyFails
  <2>1. /\ copying \in PacketNo /\ One(copying) = <<copying>> /\ One(copying)' = <<>>
        BY <1>9 DEF CopyFails, One, HandInv, InHand, TypeOK, PacketNo
  <2>2. UNCHANGED <<Scaled, yuv, codec, Sending, es, pictures, added>>
        BY <1>9 DEF CopyFails, Scaled, Sending, scaleVars, input
  <2>3. Coded' = Coded BY <2>2 DEF Coded
  <2>4. Cat(One(copying)', Coded') = Coded BY <2>1, <2>3, CatLaws DEF FlowParts
  <2>5. Lossy(Cat(One(copying), Coded), Cat(One(copying)', Coded'))
        BY <2>1, <2>4, CatLossy DEF FlowParts
  <2>6. Lossy(Queued, Queued') BY <2>2, <2>5, CatLossy DEF Queued, FlowParts
  <2>7. Lossy(Inside, Inside') BY <2>2, <2>6, CatLossy DEF FlowParts
  <2> QED BY <1>9, <2>2, <2>7 DEF FifoStep, LoseStep
<1>10. CASE DecPush
  <2>1. /\ copying \in PacketNo /\ One(copying) = <<copying>> /\ One(copying)' = <<>>
        /\ yuv' = Append(yuv, copying)
        BY <1>10 DEF DecPush, Push, One, HandInv, InHand, TypeOK, PacketNo
  <2>2. UNCHANGED <<Scaled, codec, Sending, es, pictures, added>>
        BY <1>10 DEF DecPush, Scaled, Sending, scaleVars, input
  <2>3. Coded' = Coded BY <2>2 DEF Coded
  <2>4. yuv' = Cat(yuv, One(copying)) BY SMTT(30), <2>1, CatLaws DEF FlowParts
  <2>5. Cat(One(copying)', Coded') = Coded BY <2>1, <2>3, CatLaws DEF FlowParts
  <2>6. Queued' = Queued BY SMTT(30), <2>4, <2>5, CatAssociative DEF Queued, FlowParts
  <2>7. Inside' = Inside BY <2>2, <2>6 DEF FlowParts
  <2> QED BY <2>2, <2>7 DEF FifoStep
<1>11. CASE DecAgain
      BY <1>1, <1>11 DEF DecAgain, Scaled, Sending, input, scaleVars
<1>12. CASE DecDelete
      BY <1>1, <1>12 DEF DecDelete, Scaled, Sending, input, scaleVars
<1>13. CASE DecDrain
      BY <1>1, <1>13 DEF DecDrain, Scaled, Sending, input, scaleVars
<1> QED BY <1>2, <1>3, <1>4, <1>5, <1>6, <1>7, <1>8, <1>9, <1>10, <1>11, <1>12, <1>13 DEF Dec

LEMMA FifoScale ==
  ASSUME FlowParts, FlowParts', HandInv, Scale
  PROVE  FifoStep
<1>1. ASSUME UNCHANGED <<Scaled, yuv, copying, codec, Sending, es, pictures, added>>
      PROVE  FifoStep
  <2>1. Inside' = Inside BY <1>1 DEF Inside
  <2> QED BY <1>1, <2>1 DEF FifoStep
<1>2. CASE ScaleTop
      BY <1>1, <1>2 DEF ScaleTop, Scaled, Sending, input
<1>3. CASE ScalePop
  <2>1. yuv # <<>> /\ Head(yuv) # 0
    <3>1. Head(yuv) \in PacketNo BY <1>3, Concat DEF ScalePop, HandInv, TypeOK
    <3> QED BY <1>3, <3>1 DEF ScalePop, PacketNo
  <2>2. Scaled = <<>> /\ Scaled' = <<Head(yuv)>> /\ yuv' = Tail(yuv)
    <3>1. /\ scalePc = "enter" /\ scalePc' = "scale" /\ scaling = 0
          /\ scaling' = Head(yuv) /\ yuv' = Tail(yuv)
          BY <1>3 DEF ScalePop, HandInv, InHand, TypeOK
    <3>2. scaling' # 0 BY <2>1, <3>1
    <3>3. Scaled = <<>> /\ Scaled' = <<scaling'>> BY <3>1, <3>2 DEF Scaled, One
    <3> QED BY <3>1, <3>3
  <2>3. UNCHANGED <<copying, codec, Sending, es, pictures, added>>
        BY <1>3 DEF ScalePop, Sending, input
  <2>4. UNCHANGED <<Coded, One(copying)>> BY <2>3 DEF Coded
  <2>5. yuv = Cat(Scaled', yuv') BY <2>1, <2>2, CatLaws DEF FlowParts
  <2>6. Queued = Cat(Scaled', Queued')
        BY <2>4, <2>5, CatAssociative DEF Queued, FlowParts
  <2>7. Inside = Queued BY <2>2, CatLaws DEF FlowParts
  <2>8. Inside' = Inside BY <2>6, <2>7 DEF FlowParts
  <2> QED BY <2>3, <2>8 DEF FifoStep
<1>4. CASE ScaleWait
      BY <1>1, <1>4 DEF ScaleWait, Scaled, Sending, input
<1>5. CASE ScaleWake
      BY <1>1, <1>5 DEF ScaleWake, Scaled, Sending, input
<1>6. CASE ScaleEmit
  <2>1. scaling \in PacketNo /\ Scaled = <<scaling>> /\ Scaled' = <<>>
        BY <1>6 DEF ScaleEmit, Scaled, One, HandInv, InHand, TypeOK, PacketNo
  <2>2. pictures' = Append(pictures, scaling)
        /\ UNCHANGED <<yuv, copying, codec, Sending, es, added>>
        BY <1>6 DEF ScaleEmit, Sending, input
  <2>3. Queued' = Queued BY <2>2 DEF Queued, Coded
  <2>4. Inside' = Queued BY <2>1, <2>3, CatLaws DEF FlowParts
  <2>5. Inside # <<>> /\ Head(Inside) = scaling /\ Tail(Inside) = Queued
        BY <2>1, CatFirst DEF FlowParts
  <2> QED BY <2>2, <2>4, <2>5 DEF FifoStep, GetStep
<1>7. CASE ScaleFree
  <2>1. Scaled' = Scaled BY <1>7 DEF ScaleFree, Scaled, One
  <2> QED BY <1>1, <1>7, <2>1 DEF ScaleFree, Sending, input
<1> QED BY <1>2, <1>3, <1>4, <1>5, <1>6, <1>7 DEF Scale

(* The owner: a new packet joins the others, the destructor loses all. *)
LEMMA FifoOwner ==
  ASSUME FlowParts, FlowParts', HandInv, Owner
  PROVE  FifoStep
<1>1. CASE InputVideoData
  <2>1. added + 1 \in PacketNo
        BY <1>1, DecoderAssumption DEF InputVideoData, HandInv, TypeOK, PacketNo
  <2>2. es' = Append(es, added + 1) /\ added' = added + 1
        /\ UNCHANGED <<Scaled, yuv, copying, codec, Sending, pictures>>
        BY <1>1 DEF InputVideoData, Push, Scaled, Sending, scaleVars
  <2>3. Joined(es, es', added + 1) BY <2>1, <2>2, JoinedLast DEF FlowParts
  <2>4. Joined(Cat(Sending, es), Cat(Sending', es'), added + 1)
        BY <2>1, <2>2, <2>3, CatJoined DEF FlowParts
  <2>5. Joined(Coded, Coded', added + 1)
        BY <2>1, <2>2, <2>4, CatJoined DEF Coded, FlowParts
  <2>6. Joined(Cat(One(copying), Coded), Cat(One(copying)', Coded'), added + 1)
        BY <2>1, <2>2, <2>5, CatJoined DEF FlowParts
  <2>7. Joined(Queued, Queued', added + 1)
        BY <2>1, <2>2, <2>6, CatJoined DEF Queued, FlowParts
  <2>8. Joined(Inside, Inside', added + 1) BY <2>1, <2>2, <2>7, CatJoined DEF FlowParts
  <2> QED BY <2>2, <2>8 DEF FifoStep, PutStep
<1>2. CASE Destroy \/ JoinDecode
  <2>1. UNCHANGED <<Scaled, yuv, copying, codec, Sending, es, pictures, added>>
        BY <1>2 DEF Destroy, JoinDecode, Scaled, Sending, input, scaleVars
  <2>2. Inside' = Inside BY <2>1 DEF Inside
  <2> QED BY <2>1, <2>2 DEF FifoStep
<1>3. CASE JoinScale
  <2>1. decPc = "done" /\ scalePc = "done" /\ UNCHANGED <<decPc, scalePc>>
        BY <1>3 DEF JoinScale, HandInv, InHand, scaleVars
  <2>2. /\ copying = 0 /\ scaling = 0 /\ UNCHANGED <<copying, scaling, pictures, added>>
        /\ es' = <<>> /\ yuv' = <<>> /\ codec' = <<>>
        BY <1>3, <2>1 DEF JoinScale, HandInv, InHand, TypeOK, scaleVars
  <2>3. Scaled' = <<>> /\ One(copying)' = <<>> /\ Sending' = <<>>
        BY <2>1, <2>2 DEF Scaled, Sending, One
  <2>4. Coded' = <<>> BY <2>2, <2>3, CatLaws DEF Coded, FlowParts
  <2>5. Queued' = <<>> BY <2>2, <2>3, <2>4, CatLaws DEF Queued, FlowParts
  <2>6. Inside' = <<>> BY <2>3, <2>5, CatLaws DEF FlowParts
  <2>7. Inside # <<>> => Lossy(Inside, <<>>) BY LossyAll DEF FlowParts
  <2> QED BY <1>3, <2>2, <2>6, <2>7 DEF FifoStep, LoseStep
<1> QED BY <1>1, <1>2, <1>3 DEF Owner, Teardown

LEMMA StepFifo == HandInv /\ HandInv' /\ [Next]_vars => [LF!Next]_(LF!vars)
<1> SUFFICES ASSUME HandInv, HandInv', [Next]_vars PROVE [LF!Next]_(LF!vars) OBVIOUS
<1>1. FlowParts /\ FlowParts' BY Parts, PartsNext
<1>2. CASE UNCHANGED vars
  <2>1. UNCHANGED <<Inside, pictures, added>>
        BY <1>2 DEF vars, input, scaleVars, Inside, Scaled, Sending
  <2> QED BY <2>1 DEF LF!vars
<1>3. CASE Next
  <2>1. FifoStep BY <1>1, <1>3, FifoDec, FifoScale, FifoOwner DEF Next
  <2>2. LoseStep => LF!Lose BY DEF LoseStep, Lossy, LF!Lose, LF!Without
  <2>3. PutStep => LF!Put BY DEF PutStep, Joined, LF!Put
  <2>4. GetStep => LF!Get BY DEF GetStep, LF!Get
  <2> QED BY <2>1, <2>2, <2>3, <2>4 DEF FifoStep, LF!Next, LF!vars
<1> QED BY <1>2, <1>3

LEMMA InitFifo == Init => LF!Init
<1> SUFFICES ASSUME Init PROVE LF!Init OBVIOUS
<1>1. <<>> \in Seq(PacketNo) BY Concat
<1>2. Scaled = <<>> /\ One(copying) = <<>> /\ Sending = <<>>
      BY DEF Init, Scaled, Sending, One
<1>3. Coded = <<>> BY <1>1, <1>2, CatLaws DEF Init, Coded
<1>4. Queued = <<>> BY <1>1, <1>2, <1>3, CatLaws DEF Init, Queued
<1>5. Inside = <<>>
  <2>1. Inside = Cat(Scaled, Queued) BY DEF Inside, Queued, Coded, Cat
  <2> QED BY <1>1, <1>2, <1>4, <2>1, CatLaws
<1> QED BY <1>5 DEF Init, LF!Init

(***************************************************************************)
(* Whatever the codec refuses and whatever fails to be copied, and however *)
(* the threads and the destructor interleave: pictures come out in the     *)
(* order their packets went in, each at most once.                         *)
(***************************************************************************)
THEOREM DecoderImplementsFifo == SafeSpec => DecoderIsFifo
<1> QED BY InitHand, StepHand, InitFifo, StepFifo, PTL DEF SafeSpec, DecoderIsFifo, LF!Spec

(***************************************************************************)
(* Nothing is skipped.  Until the destructor frees what is left, the       *)
(* pictures given and what is inside are together the packets put in, in   *)
(* order, without those that failed.  The destructor frees it when neither *)
(* thread is left to give another picture.                                 *)
(***************************************************************************)
Flow == Cat(pictures, Inside)

Account ==
  /\ failed \subseteq 1..added
  /\ Rising(Flow) /\ ToSet(Flow) = (1..added) \ failed

SkipInv ==
  /\ opc # "dead" => Account
  /\ opc = "dead" => scalePc = "done"
  /\ NothingSkipped

(* What fails is taken out of the flow. *)
DropStep(x) ==
  /\ Deleted(PacketNo, Inside, Inside', x) /\ x \in PacketNo
  /\ failed' = failed \cup {x} /\ UNCHANGED <<pictures, added>>

LEMMA DropRefused ==
  ASSUME FlowParts, FlowParts', HandInv, DecRefused
  PROVE  DropStep(decoding)
<1>1. /\ decoding \in PacketNo /\ Sending = <<decoding>> /\ Sending' = <<>> /\ es' = es
      BY DEF DecRefused, Sending, One, HandInv, InHand, TypeOK, PacketNo, input
<1>2. UNCHANGED <<Scaled, yuv, copying, codec, pictures, added>>
      /\ failed' = failed \cup {decoding}
      BY DEF DecRefused, Scaled, scaleVars, input
<1>3. Cat(Sending', es') = es BY <1>1, CatLaws DEF FlowParts
<1>4. Deleted(PacketNo, Cat(Sending, es), Cat(Sending', es'), decoding)
      BY <1>1, <1>3, DeletedFirst DEF FlowParts
<1>5. Deleted(PacketNo, Coded, Coded', decoding)
      BY <1>1, <1>2, <1>4, DeletedBehind DEF Coded, FlowParts
<1>6. Deleted(PacketNo, Cat(One(copying), Coded), Cat(One(copying)', Coded'), decoding)
      BY <1>1, <1>2, <1>5, DeletedBehind DEF FlowParts
<1>7. Deleted(PacketNo, Queued, Queued', decoding)
      BY <1>1, <1>2, <1>6, DeletedBehind DEF Queued, FlowParts
<1>8. Deleted(PacketNo, Inside, Inside', decoding)
      BY <1>1, <1>2, <1>7, DeletedBehind DEF FlowParts
<1> QED BY <1>1, <1>2, <1>8 DEF DropStep

LEMMA DropFailed ==
  ASSUME FlowParts, FlowParts', HandInv, CopyFails
  PROVE  DropStep(copying)
<1>1. /\ copying \in PacketNo /\ One(copying) = <<copying>> /\ One(copying)' = <<>>
      BY DEF CopyFails, One, HandInv, InHand, TypeOK, PacketNo
<1>2. UNCHANGED <<Scaled, yuv, codec, Sending, es, pictures, added>>
      /\ failed' = failed \cup {copying}
      BY DEF CopyFails, Scaled, Sending, scaleVars, input
<1>3. Coded' = Coded BY <1>2 DEF Coded
<1>4. Cat(One(copying)', Coded') = Coded BY <1>1, <1>3, CatLaws DEF FlowParts
<1>5. Deleted(PacketNo, Cat(One(copying), Coded), Cat(One(copying)', Coded'), copying)
      BY <1>1, <1>4, DeletedFirst DEF FlowParts
<1>6. Deleted(PacketNo, Queued, Queued', copying)
      BY <1>1, <1>2, <1>5, DeletedBehind DEF Queued, FlowParts
<1>7. Deleted(PacketNo, Inside, Inside', copying)
      BY <1>1, <1>2, <1>6, DeletedBehind DEF FlowParts
<1> QED BY <1>1, <1>2, <1>7 DEF DropStep

LEMMA NumbersAreNat == PacketNo \subseteq Nat
BY DecoderAssumption DEF PacketNo

LEMMA AccountOfDrop ==
  ASSUME FlowParts, FlowParts', HandInv, Account, NEW x, DropStep(x)
  PROVE  Account'
<1>1. pictures \in Seq(PacketNo) /\ x \in PacketNo BY DEF HandInv, TypeOK, DropStep
<1> DEFINE next == Cat(pictures, Inside')
<1>2. Deleted(PacketNo, Flow, next, x) BY <1>1, DeletedBehind DEF DropStep, Flow
<1>3. Flow' = next BY DEF Flow, DropStep
<1>4. Rising(next) /\ ToSet(next) = ToSet(Flow) \ {x}
  <2>1. Rising(Flow) BY DEF Account
  <2>2. Flow \in Seq(PacketNo) /\ next \in Seq(PacketNo)
        BY <1>1, CatLaws DEF Flow, FlowParts
  <2> HIDE DEF next
  <2>3. PacketNo \in SUBSET Nat BY NumbersAreNat
  <2>4. \A q, r \in Seq(PacketNo), y \in PacketNo :
          Deleted(PacketNo, q, r, y) /\ Rising(q) => Rising(r) /\ ToSet(r) = ToSet(q) \ {y}
        BY <2>3, RisingDeleted
  <2> QED BY <1>1, <1>2, <2>1, <2>2, <2>4
<1>5. x \in ToSet(Flow)
  <2>1. PICK a, b \in Seq(PacketNo) : Flow = Cat(a, Cat(<<x>>, b)) BY <1>2 DEF Deleted
  <2> DEFINE e == <<x>>
  <2>2. e \in Seq(PacketNo) /\ ToSet(e) = {x} BY <1>1, SetOf, Concat
  <2> HIDE DEF e
  <2>3. Cat(e, b) \in Seq(PacketNo) BY <2>2, CatLaws
  <2>4. ToSet(Cat(e, b)) = {x} \cup ToSet(b) BY <2>2, Halves
  <2>5. ToSet(Cat(a, Cat(e, b))) = ToSet(a) \cup ToSet(Cat(e, b)) BY <2>3, Halves
  <2> QED BY <2>1, <2>4, <2>5 DEF e
<1> HIDE DEF next
<1> QED BY <1>3, <1>4, <1>5 DEF Account, DropStep

(* A packet put in joins the flow at its end. *)
LEMMA AccountOfPut ==
  ASSUME FlowParts, FlowParts', HandInv, Account, InputVideoData
  PROVE  Account'
<1> DEFINE n == added + 1
           e == <<n>>
<1>1. /\ n \in PacketNo /\ added \in Nat
      BY DecoderAssumption DEF InputVideoData, HandInv, TypeOK, PacketNo
<1>2. es' = Append(es, n) /\ added' = n
      /\ UNCHANGED <<Scaled, yuv, copying, codec, Sending, pictures, failed>>
      BY DEF InputVideoData, Push, Scaled, Sending, scaleVars
<1>3. e \in Seq(PacketNo) /\ ToSet(e) = {n} /\ Rising(e)
  <2>1. Rising(e) BY DEF Rising
  <2> QED BY <1>1, <2>1, SetOf, Concat
<1>4. es' = Cat(es, e) BY <1>1, <1>2, CatLaws DEF FlowParts
<1> HIDE DEF e
<1>5. Cat(Sending, es') = Cat(Cat(Sending, es), e)
      BY SMTT(30), <1>3, <1>4, CatAssociative DEF FlowParts
<1>6. Coded' = Cat(Coded, e) BY SMTT(30), <1>2, <1>3, <1>5, CatAssociative DEF Coded, FlowParts
<1>7. Cat(One(copying)', Coded') = Cat(Cat(One(copying), Coded), e)
      BY <1>2, <1>3, <1>6, CatAssociative DEF FlowParts
<1>8. Queued' = Cat(Queued, e)
      BY SMTT(30), <1>2, <1>3, <1>7, CatAssociative DEF Queued, FlowParts
<1>9. Inside' = Cat(Inside, e) BY <1>2, <1>3, <1>8, CatAssociative DEF FlowParts
<1>10. pictures \in Seq(PacketNo) BY DEF HandInv, TypeOK
<1>11. Flow \in Seq(PacketNo) BY <1>10, CatLaws DEF Flow, FlowParts
<1>12. Flow' = Cat(Flow, e)
       BY SMTT(30), <1>2, <1>3, <1>9, <1>10, CatAssociative DEF Flow, FlowParts
<1>13. ToSet(Flow') = ToSet(Flow) \cup {n} BY <1>3, <1>11, <1>12, Halves
<1>14. Before(Flow, e)
  <2>1. \A x \in 1..added : x < n BY <1>1
  <2> QED BY <1>3, <2>1 DEF Before, Account
<1>15. Rising(Flow')
       BY <1>3, <1>11, <1>12, <1>14, RisingHalves, NumbersAreNat DEF Account
<1>16. /\ 1..added \subseteq 1..n /\ n \notin 1..added
       /\ 1..n = (1..added) \cup {n}
       BY <1>1
<1>17. failed' \subseteq 1..added' /\ ToSet(Flow') = (1..added') \ failed'
       BY <1>2, <1>13, <1>16 DEF Account
<1> QED BY <1>15, <1>17 DEF Account

(* A picture that comes out stays in the flow. *)
LEMMA AccountOfGet ==
  ASSUME FlowParts, FlowParts', HandInv, Account, GetStep, failed' = failed
  PROVE  Account'
<1> DEFINE h == <<Head(Inside)>>
           t == Tail(Inside)
<1>1. Head(Inside) \in PacketNo /\ t \in Seq(PacketNo) /\ h \in Seq(PacketNo)
      BY Concat DEF GetStep, FlowParts
<1>2. pictures \in Seq(PacketNo) BY DEF HandInv, TypeOK
<1>3. Inside = Cat(h, t) BY CatLaws DEF GetStep, FlowParts
<1>4. pictures' = Cat(pictures, h) /\ Inside' = t
      BY <1>1, <1>2, CatLaws DEF GetStep
<1> HIDE DEF h, t
<1>5. Cat(Cat(pictures, h), t) = Cat(pictures, Cat(h, t))
      BY <1>1, <1>2, CatAssociative
<1>6. Flow' = Flow BY <1>3, <1>4, <1>5 DEF Flow
<1> QED BY <1>6 DEF Account, GetStep

LEMMA StepAccount ==
  ASSUME HandInv, HandInv', Account, Next, ~JoinScale
  PROVE  Account'
<1>1. FlowParts /\ FlowParts' BY Parts, PartsNext
<1>2. FifoStep BY <1>1, FifoDec, FifoScale, FifoOwner DEF Next
<1>3. CASE DecRefused BY <1>1, <1>3, DropRefused, AccountOfDrop
<1>4. CASE CopyFails BY <1>1, <1>4, DropFailed, AccountOfDrop
<1>5. CASE InputVideoData BY <1>1, <1>5, AccountOfPut
<1>6. CASE ~DecRefused /\ ~CopyFails /\ ~InputVideoData
  <2>1. UNCHANGED <<failed, added>>
        BY <1>6 DEF Next, Dec, DecTop, DecPop, DecWait, DecWake, DecSend, DecReceive, DecPush,
                    DecAgain, DecDelete, DecDrain, Scale, ScaleTop, ScalePop, ScaleWait,
                    ScaleWake, ScaleEmit, ScaleFree, Owner, Teardown, Destroy, JoinDecode, input
  <2>2. added \in Nat BY DEF HandInv, TypeOK
  <2>3. ~LoseStep /\ ~PutStep BY <1>6, <2>1, <2>2 DEF LoseStep, PutStep
  <2>4. CASE GetStep BY <1>1, <2>1, <2>4, AccountOfGet
  <2>5. CASE UNCHANGED <<Inside, pictures, added>>
        BY <2>1, <2>5 DEF Account, Flow
  <2> QED BY <1>2, <2>3, <2>4, <2>5 DEF FifoStep
<1> QED BY <1>3, <1>4, <1>5, <1>6

LEMMA NoneSkipped == HandInv /\ Account => NothingSkipped
<1> SUFFICES ASSUME HandInv, Account, NEW i \in DOMAIN pictures
             PROVE  pictures[i] \notin failed /\ PictureNo(pictures[i]) = i
    BY DEF NothingSkipped
<1>1. FlowParts BY Parts
<1>2. pictures \in Seq(PacketNo) /\ Inside \in Seq(PacketNo) /\ added \in Nat
      BY <1>1 DEF FlowParts, HandInv, TypeOK
<1>3. Flow \in Seq(PacketNo) BY <1>2, CatLaws DEF Flow
<1>4. i \in DOMAIN Flow /\ Flow[i] = pictures[i]
      BY <1>2, ConcatProperties DEF Flow, Cat
<1>5. Flow[i] \in ToSet(Flow) BY <1>4 DEF ToSet
<1>6. Place(Flow[i], failed) = i
      BY <1>2, <1>3, <1>4, PlaceInRising DEF Account
<1> QED BY <1>4, <1>5, <1>6 DEF Account, PictureNo, Place

LEMMA StepSkip == HandInv /\ HandInv' /\ SkipInv /\ [Next]_vars => SkipInv'
<1> SUFFICES ASSUME HandInv, HandInv', SkipInv, [Next]_vars PROVE SkipInv' OBVIOUS
<1> USE DEF SkipInv
<1>1. ASSUME UNCHANGED <<pictures, failed>> PROVE NothingSkipped'
      BY <1>1 DEF NothingSkipped, PictureNo
<1>2. CASE UNCHANGED vars
  <2>1. UNCHANGED <<Flow, failed, added, opc, scalePc, pictures>>
        BY <1>2 DEF vars, input, scaleVars, Flow, Inside, Scaled, Sending
  <2> QED BY <1>1, <2>1 DEF Account
<1>3. CASE Next /\ opc = "dead"
  <2>1. decPc = "done" /\ scalePc = "done" BY <1>3 DEF HandInv, InHand
  <2>2. ~Dec BY <2>1 DEF Dec, DecTop, DecPop, DecWait, DecWake, DecSend, DecRefused, DecReceive,
                         CopyFails, DecPush, DecAgain, DecDelete, DecDrain
  <2>3. ~Scale BY <2>1 DEF Scale, ScaleTop, ScalePop, ScaleWait, ScaleWake, ScaleEmit, ScaleFree
  <2>4. ~Owner BY <1>3 DEF Owner, Teardown, InputVideoData, Destroy, JoinDecode, JoinScale
  <2> QED BY <1>3, <2>2, <2>3, <2>4 DEF Next
<1>4. CASE JoinScale
  <2>1. UNCHANGED <<pictures, failed, scalePc>> /\ scalePc = "done" /\ opc' = "dead"
        BY <1>4 DEF JoinScale, scaleVars
  <2> QED BY <1>1, <2>1
<1>5. CASE Next /\ opc # "dead" /\ ~JoinScale
  <2>1. Account' BY <1>5, StepAccount
  <2>2. opc' # "dead"
        BY <1>5 DEF Next, Dec, DecTop, DecPop, DecWait, DecWake, DecSend, DecRefused, DecReceive,
                    CopyFails, DecPush, DecAgain, DecDelete, DecDrain, Scale, ScaleTop, ScalePop,
                    ScaleWait, ScaleWake, ScaleEmit, ScaleFree, Owner, Teardown, InputVideoData,
                    Destroy, JoinDecode
  <2>3. (HandInv /\ Account => NothingSkipped)' BY NoneSkipped, PTL
  <2> QED BY <2>1, <2>2, <2>3
<1> QED BY <1>2, <1>3, <1>4, <1>5

LEMMA InitSkip == Init => SkipInv
<1> SUFFICES ASSUME Init PROVE SkipInv OBVIOUS
<1>1. LF!Init /\ HandInv BY InitFifo, InitHand
<1>2. Inside = <<>> /\ pictures = <<>> BY <1>1 DEF LF!Init
<1>3. Flow = <<>> BY <1>2 DEF Flow, Cat
<1>4. Rising(<<>>) /\ ToSet(<<>>) = {}
  <2>1. ToSet(<<>>) = {} BY SetOf
  <2> QED BY <2>1 DEF Rising
<1>5. Account BY <1>3, <1>4 DEF Account, Init
<1> QED BY <1>1, <1>5, NoneSkipped DEF SkipInv, Init

(***************************************************************************)
(* The pictures given are at any time exactly the first of the packets put *)
(* in, without those that failed, whatever fails and whenever the decoder  *)
(* is destroyed.                                                           *)
(***************************************************************************)
THEOREM NoPacketSkipped == SafeSpec => []NothingSkipped
<1>1. SkipInv => NothingSkipped BY DEF SkipInv
<1> QED BY <1>1, InitHand, StepHand, InitSkip, StepSkip, PTL DEF SafeSpec

(***************************************************************************)
(* Memory.  Every packet is in at most one of the lists and hands it goes  *)
(* through, so a new owner never shares it with an old one.                *)
(***************************************************************************)
Apart ==
  /\ IsInjective(es) /\ IsInjective(codec) /\ IsInjective(yuv)
  /\ ToSet(es) \cap ToSet(codec) = {} /\ ToSet(es) \cap ToSet(yuv) = {}
  /\ ToSet(codec) \cap ToSet(yuv) = {}
  /\ scaling \notin ToSet(es) \cup ToSet(codec) \cup ToSet(yuv)
  /\ copying \notin ToSet(es) \cup ToSet(codec) \cup ToSet(yuv)
  /\ scaling = copying => scaling = 0
  /\ decoding \notin ToSet(es)
  /\ decPc = "send" => decoding \notin ToSet(codec) \cup ToSet(yuv) \cup {scaling, copying}
  /\ ToSet(es) \cup ToSet(codec) \cup ToSet(yuv) \cup {scaling, copying, decoding}
       \subseteq 0..added

Allocated ==
  /\ heap = ToSet(yuv) \cup ({scaling} \ {0}) \cup ({copying} \ {0})
  /\ nodes = ToSet(es) \cup ({decoding} \ {0})

Idle == decPc \in {"top", "enter", "wait", "drain", "done"} => decoding = 0

OwnInv == HandInv /\ Apart /\ Allocated /\ Idle

LEMMA NoZero == \A q \in Seq(PacketNo) : 0 \notin ToSet(q)
<1>1. \A q \in Seq(PacketNo) : ToSet(q) \in SUBSET PacketNo BY SetOf
<1>2. 0 \notin PacketNo BY DEF PacketNo
<1> QED BY <1>1, <1>2

LEMMA PopItems ==
  ASSUME NEW q \in Seq(PacketNo), q # <<>>, IsInjective(q)
  PROVE  /\ Head(q) \in ToSet(q) /\ Head(q) # 0 /\ IsInjective(Tail(q))
         /\ ToSet(Tail(q)) = ToSet(q) \ {Head(q)}
<1>1. Head(q) \in PacketNo BY Concat
<1>2. Head(q) # 0 BY <1>1 DEF PacketNo
<1> QED BY <1>2, ItemsPop

LEMMA Zeroes ==
  ASSUME HandInv
  PROVE  /\ 0 \notin ToSet(es) \cup ToSet(codec) \cup ToSet(yuv)
         /\ added \in Nat /\ 0 \in 0..added
<1>1. es \in Seq(PacketNo) /\ codec \in Seq(PacketNo) /\ yuv \in Seq(PacketNo)
      BY DEF HandInv, TypeOK
<1>2. added \in Nat /\ 0 \in 0..added BY DecoderAssumption DEF HandInv, TypeOK
<1> QED BY <1>1, <1>2, NoZero

LEMMA OwnDec ==
  ASSUME OwnInv, Dec
  PROVE  Apart' /\ Allocated' /\ Idle'
<1> USE DEF OwnInv, input, scaleVars
<1>1. CASE DecTop \/ DecWait \/ DecWake \/ DecAgain \/ DecDrain
  <2>1. UNCHANGED <<added, es, nodes, decoding, codec, copying, yuv, heap, scaling>>
        /\ decPc # "send" /\ decPc' # "send" /\ Idle'
        BY <1>1 DEF DecTop, DecWait, DecWake, DecAgain, DecDrain, Idle
  <2> QED BY <2>1 DEF Apart, Allocated
<1>2. CASE DecPop
  <2>1. /\ es # <<>> /\ decoding' = Head(es) /\ es' = Tail(es) /\ decPc' = "send"
        /\ decoding = 0
        /\ UNCHANGED <<added, nodes, codec, copying, yuv, heap, scaling>>
        BY <1>2 DEF DecPop, Idle
  <2>2. /\ decoding' \in ToSet(es) /\ decoding' # 0 /\ IsInjective(es')
        /\ ToSet(es') = ToSet(es) \ {decoding'}
        BY <2>1, PopItems DEF Apart, HandInv, TypeOK
  <2>3. Apart' BY <2>1, <2>2 DEF Apart
  <2>4. Allocated' BY <2>1, <2>2 DEF Allocated
  <2> QED BY <2>1, <2>3, <2>4 DEF Idle
<1>3. CASE DecSend
  <2>1. /\ codec' = Append(codec, decoding) /\ decPc = "send" /\ decPc' = "receive"
        /\ UNCHANGED <<added, es, nodes, decoding, copying, yuv, heap, scaling>>
        BY <1>3 DEF DecSend
  <2>2. decoding \in PacketNo /\ codec \in Seq(PacketNo)
        BY <2>1, DecoderAssumption DEF HandInv, InHand, TypeOK, PacketNo
  <2>3. decoding \notin ToSet(codec) BY <2>1 DEF Apart
  <2>4. ToSet(codec') = ToSet(codec) \cup {decoding} /\ IsInjective(codec')
        BY <2>1, <2>2, <2>3, ItemsAppend DEF Apart
  <2>5. Apart' BY <2>1, <2>4 DEF Apart
  <2> QED BY <2>1, <2>5 DEF Allocated, Idle
<1>4. CASE DecRefused
  <2>1. UNCHANGED <<added, es, nodes, decoding, codec, copying, yuv, heap, scaling>>
        /\ decPc' = "delete"
        BY <1>4 DEF DecRefused
  <2> QED BY <2>1 DEF Apart, Allocated, Idle
<1>5. CASE DecReceive
  <2>1. /\ copying' = Head(codec) /\ codec' = Tail(codec) /\ heap' = heap \cup {copying'}
        /\ decPc' = "copy" /\ copying = 0
        /\ UNCHANGED <<added, es, nodes, decoding, yuv, scaling>>
        BY <1>5 DEF DecReceive, HandInv, InHand
  <2>2. codec # <<>> /\ codec \in Seq(PacketNo)
    <3>1. codec \in Seq(PacketNo) BY DEF HandInv, TypeOK
    <3>2. Len(codec) > 0 BY <1>5, DecoderAssumption DEF DecReceive, CodecGives
    <3>3. codec # <<>> BY <3>2
    <3> QED BY <3>1, <3>3
  <2>3. /\ copying' \in ToSet(codec) /\ copying' # 0 /\ IsInjective(codec')
        /\ ToSet(codec') = ToSet(codec) \ {copying'}
        BY <2>1, <2>2, PopItems DEF Apart
  <2>4. Apart' BY <2>1, <2>3 DEF Apart
  <2>5. Allocated' BY <2>1, <2>3 DEF Allocated
  <2> QED BY <2>1, <2>4, <2>5 DEF Idle
<1>6. CASE CopyFails
  <2>1. /\ heap' = heap \ {copying} /\ copying' = 0 /\ decPc' = "delete"
        /\ UNCHANGED <<added, es, nodes, decoding, codec, yuv, scaling>>
        BY <1>6 DEF CopyFails
  <2>2. Apart' BY <2>1, Zeroes DEF Apart
  <2>3. Allocated' BY <2>1 DEF Allocated, Apart
  <2> QED BY <2>1, <2>2, <2>3 DEF Idle
<1>7. CASE DecPush
  <2>1. /\ yuv' = Append(yuv, copying) /\ copying # 0 /\ copying' = 0 /\ decPc' = "receive"
        /\ UNCHANGED <<added, es, nodes, decoding, codec, heap, scaling>>
        BY <1>7 DEF DecPush, Push, HandInv, InHand
  <2>2. copying \in PacketNo /\ yuv \in Seq(PacketNo)
        BY <2>1, DecoderAssumption DEF HandInv, TypeOK, PacketNo
  <2>3. copying \notin ToSet(yuv) BY DEF Apart
  <2>4. ToSet(yuv') = ToSet(yuv) \cup {copying} /\ IsInjective(yuv')
        BY <2>1, <2>2, <2>3, ItemsAppend DEF Apart
  <2>5. Apart' BY <2>1, <2>4, Zeroes DEF Apart
  <2>6. Allocated' BY <2>1, <2>4 DEF Allocated
  <2> QED BY <2>1, <2>5, <2>6 DEF Idle
<1>8. CASE DecDelete
  <2>1. /\ nodes' = nodes \ {decoding} /\ decoding' = 0 /\ decPc' # "send"
        /\ UNCHANGED <<added, es, codec, copying, yuv, heap, scaling>>
        BY <1>8 DEF DecDelete
  <2>2. Apart' BY <2>1, Zeroes DEF Apart
  <2>3. Allocated' BY <2>1 DEF Allocated, Apart
  <2> QED BY <2>1, <2>2, <2>3 DEF Idle
<1> QED BY <1>1, <1>2, <1>3, <1>4, <1>5, <1>6, <1>7, <1>8 DEF Dec

LEMMA OwnScale ==
  ASSUME OwnInv, Scale
  PROVE  Apart' /\ Allocated' /\ Idle'
<1> USE DEF OwnInv, input
<1>1. UNCHANGED <<added, es, nodes, decoding, codec, copying, decPc>>
      BY DEF Scale, ScaleTop, ScalePop, ScaleWait, ScaleWake, ScaleEmit, ScaleFree
<1>2. Idle' BY <1>1 DEF Idle
<1>3. CASE ScaleTop \/ ScaleWait \/ ScaleWake \/ ScaleEmit
  <2>1. UNCHANGED <<yuv, heap, scaling>>
        BY <1>3 DEF ScaleTop, ScaleWait, ScaleWake, ScaleEmit
  <2> QED BY <1>1, <1>2, <2>1 DEF Apart, Allocated
<1>4. CASE ScalePop
  <2>1. /\ yuv # <<>> /\ scaling' = Head(yuv) /\ yuv' = Tail(yuv) /\ scaling = 0
        /\ heap' = heap
        BY <1>4 DEF ScalePop, HandInv, InHand
  <2>2. /\ scaling' \in ToSet(yuv) /\ scaling' # 0 /\ IsInjective(yuv')
        /\ ToSet(yuv') = ToSet(yuv) \ {scaling'}
        BY <2>1, PopItems DEF Apart, HandInv, TypeOK
  <2>3. Apart' BY <1>1, <2>1, <2>2 DEF Apart
  <2>4. Allocated' BY <1>1, <2>1, <2>2 DEF Allocated
  <2> QED BY <1>2, <2>3, <2>4
<1>5. CASE ScaleFree
  <2>1. heap' = heap \ {scaling} /\ scaling' = 0 /\ yuv' = yuv BY <1>5 DEF ScaleFree
  <2>2. decPc = "send" => decoding # 0 BY DEF HandInv, InHand
  <2>3. Apart' BY <1>1, <2>1, <2>2, Zeroes DEF Apart
  <2>4. Allocated' BY <1>1, <2>1 DEF Allocated, Apart
  <2> QED BY <1>2, <2>3, <2>4
<1> QED BY <1>3, <1>4, <1>5 DEF Scale

LEMMA OwnOwner ==
  ASSUME OwnInv, Owner
  PROVE  Apart' /\ Allocated' /\ Idle'
<1> USE DEF OwnInv, scaleVars
<1>1. UNCHANGED <<decoding, copying, scaling, decPc>>
      BY DEF Owner, Teardown, InputVideoData, Destroy, JoinDecode, JoinScale
<1>2. Idle' BY <1>1 DEF Idle
<1>3. CASE Destroy \/ JoinDecode
  <2>1. UNCHANGED <<added, es, nodes, codec, yuv, heap>>
        BY <1>3 DEF Destroy, JoinDecode, input
  <2> QED BY <1>1, <1>2, <2>1 DEF Apart, Allocated
<1>4. CASE InputVideoData
  <2>1. /\ added' = added + 1 /\ es' = Append(es, added') /\ nodes' = nodes \cup {added'}
        /\ UNCHANGED <<codec, yuv, heap>>
        BY <1>4 DEF InputVideoData, Push
  <2>2. added' \in PacketNo /\ es \in Seq(PacketNo)
        BY <1>4, DecoderAssumption DEF InputVideoData, HandInv, TypeOK, PacketNo
  <2>3. added' \notin 0..added /\ 0..added \subseteq 0..added' /\ added' \in 0..added'
        BY <2>1, Zeroes
  <2>4. added' # 0 BY <2>2 DEF PacketNo
  <2>5. added' \notin ToSet(es) \cup ToSet(codec) \cup ToSet(yuv)
                        \cup {scaling, copying, decoding}
        BY <2>3 DEF Apart
  <2>6. ToSet(es') = ToSet(es) \cup {added'} /\ IsInjective(es')
        BY <2>1, <2>2, <2>5, ItemsAppend DEF Apart
  <2>7. Apart' BY <1>1, <2>1, <2>3, <2>5, <2>6 DEF Apart
  <2>8. Allocated' BY <1>1, <2>1, <2>6 DEF Allocated
  <2> QED BY <1>2, <2>7, <2>8
<1>5. CASE JoinScale
  <2>1. /\ heap' = heap \ ToSet(yuv) /\ yuv' = <<>> /\ nodes' = nodes \ ToSet(es)
        /\ es' = <<>> /\ codec' = <<>> /\ added' = added
        BY <1>5 DEF JoinScale
  <2>2. ToSet(<<>>) = {} /\ IsInjective(<<>>) BY SetOf
  <2>3. Apart' BY <1>1, <2>1, <2>2 DEF Apart
  <2>4. Allocated' BY <1>1, <2>1, <2>2 DEF Allocated, Apart
  <2> QED BY <1>2, <2>3, <2>4
<1> QED BY <1>3, <1>4, <1>5 DEF Owner, Teardown

LEMMA StepOwn == OwnInv /\ [Next]_vars => OwnInv'
<1> SUFFICES ASSUME OwnInv, [Next]_vars PROVE OwnInv' OBVIOUS
<1>1. HandInv' BY StepHand DEF OwnInv
<1>2. Apart' /\ Allocated' /\ Idle'
  <2>1. CASE UNCHANGED vars
        BY <2>1 DEF vars, input, scaleVars, OwnInv, Apart, Allocated, Idle
  <2> QED BY <2>1, OwnDec, OwnScale, OwnOwner DEF Next
<1> QED BY <1>1, <1>2 DEF OwnInv

LEMMA InitOwn == Init => OwnInv
<1> SUFFICES ASSUME Init PROVE OwnInv OBVIOUS
<1>1. ToSet(<<>>) = {} /\ IsInjective(<<>>) BY SetOf
<1>2. Apart /\ Allocated /\ Idle BY <1>1 DEF Init, Apart, Allocated, Idle
<1> QED BY <1>2, InitHand DEF OwnInv

(* One number in hand, as a list. *)
LEMMA HandItems ==
  ASSUME NEW n \in 0..MaxPackets
  PROVE  One(n) \in Seq(PacketNo) /\ ToSet(One(n)) = {n} \ {0} /\ IsInjective(One(n))
<1>1. CASE n = 0
  <2>1. One(n) = <<>> BY <1>1 DEF One
  <2> QED BY <1>1, <2>1, SetOf, OneIsSeq
<1>2. CASE n # 0
  <2>1. One(n) = <<n>> BY <1>2 DEF One
  <2> QED BY <1>2, <2>1, SetOf, OneIsSeq
<1> QED BY <1>1, <1>2

LEMMA OwnedMemory == OwnInv => MemoryOwned
<1> SUFFICES ASSUME OwnInv PROVE MemoryOwned OBVIOUS
<1> USE DEF OwnInv
<1>1. /\ scaling \in 0..MaxPackets /\ copying \in 0..MaxPackets /\ decoding \in 0..MaxPackets
      /\ yuv \in Seq(PacketNo) /\ es \in Seq(PacketNo)
      BY DEF HandInv, TypeOK
<1> DEFINE s == One(scaling)
           c == One(copying)
           d == One(decoding)
<1>2. /\ s \in Seq(PacketNo) /\ ToSet(s) = {scaling} \ {0} /\ IsInjective(s)
      /\ c \in Seq(PacketNo) /\ ToSet(c) = {copying} \ {0} /\ IsInjective(c)
      /\ d \in Seq(PacketNo) /\ ToSet(d) = {decoding} \ {0} /\ IsInjective(d)
      BY <1>1, HandItems
<1>3. HeldFrames = Cat(Cat(s, yuv), c) /\ HeldNodes = Cat(d, es)
      BY DEF HeldFrames, HeldNodes, Cat
<1> HIDE DEF s, c, d
<1>4. nodes = ToSet(HeldNodes) /\ IsInjective(HeldNodes)
  <2>1. ToSet(d) \cap ToSet(es) = {} BY <1>2 DEF Apart
  <2>2. /\ ToSet(Cat(d, es)) = ToSet(d) \cup ToSet(es)
        /\ IsInjective(Cat(d, es)) <=>
             IsInjective(d) /\ IsInjective(es) /\ ToSet(d) \cap ToSet(es) = {}
        BY <1>1, <1>2, Halves
  <2> QED BY <1>2, <1>3, <2>1, <2>2 DEF Apart, Allocated
<1>5. heap = ToSet(HeldFrames) /\ IsInjective(HeldFrames)
  <2> DEFINE e == Cat(s, yuv)
  <2>1. ToSet(s) \cap ToSet(yuv) = {} BY <1>2 DEF Apart
  <2>2. /\ ToSet(e) = ToSet(s) \cup ToSet(yuv)
        /\ IsInjective(e) <=>
             IsInjective(s) /\ IsInjective(yuv) /\ ToSet(s) \cap ToSet(yuv) = {}
        BY <1>1, <1>2, Halves
  <2>3. e \in Seq(PacketNo) BY <1>1, <1>2, CatLaws
  <2> HIDE DEF e
  <2>4. ToSet(e) \cap ToSet(c) = {} BY <1>2, <2>2 DEF Apart
  <2>5. /\ ToSet(Cat(e, c)) = ToSet(e) \cup ToSet(c)
        /\ IsInjective(Cat(e, c)) <=>
             IsInjective(e) /\ IsInjective(c) /\ ToSet(e) \cap ToSet(c) = {}
        BY <1>2, <2>3, Halves
  <2>6. HeldFrames = Cat(e, c) BY <1>3 DEF e
  <2>7. IsInjective(e) BY <1>2, <2>1, <2>2 DEF Apart
  <2>8. heap = ToSet(Cat(e, c)) BY <1>2, <2>2, <2>5 DEF Allocated
  <2> QED BY <1>2, <2>4, <2>5, <2>6, <2>7, <2>8
<1> QED BY <1>4, <1>5 DEF MemoryOwned, HandInv

(***************************************************************************)
(* Whatever fails and however the threads and the destructor interleave,   *)
(* every node and every frame allocated has exactly one owner.             *)
(***************************************************************************)
THEOREM NothingLeaked == SafeSpec => []MemoryOwned
<1> QED BY InitOwn, StepOwn, OwnedMemory, PTL DEF SafeSpec
=============================================================================
