-------------------------- MODULE NvPipeline_proofs --------------------------
(***************************************************************************)
(* Proofs about NvPipeline, for any videos, any delay of the parser, any   *)
(* depth of the ring and any calls that fail.                              *)
(***************************************************************************)
EXTENDS NvPipeline, FifoLemmas

(***************************************************************************)
(* Indices of the ring.                                                    *)
(***************************************************************************)
LEMMA Multiple ==
  ASSUME NEW b \in Nat \ {0}, NEW k \in Int
  PROVE  b * k \in Int /\ (k <= 0 => b * k <= 0) /\ (k >= 1 => b * k >= b)
OBVIOUS

(* Two indices that are less than the length of the ring apart have two    *)
(* slots.                                                                  *)
LEMMA NoCollision ==
  ASSUME NEW b \in Nat \ {0}, NEW i \in Nat, NEW j \in Nat, i < j, j - i < b
  PROVE  i % b # j % b
<1>1. /\ i = b * (i \div b) + (i % b) /\ i \div b \in Int /\ i % b \in Int
      /\ j = b * (j \div b) + (j % b) /\ j \div b \in Int /\ j % b \in Int
      OBVIOUS
<1> SUFFICES ASSUME i % b = j % b PROVE FALSE OBVIOUS
<1> DEFINE p == i \div b
           q == j \div b
           r == i % b
           k == q - p
<1>2. p \in Int /\ q \in Int /\ r \in Int /\ i = b * p + r /\ j = b * q + r BY <1>1
<1> HIDE DEF p, q, r
<1>3. j - i = b * q - b * p BY <1>2
<1>4. b * q - b * p = b * (q - p) BY <1>2
<1>5. k \in Int /\ j - i = b * k BY <1>2, <1>3, <1>4
<1> HIDE DEF k
<1> QED BY <1>5, Multiple

LEMMA Ring ==
  /\ EncoderBuffer \in Nat \ {0} /\ OutputDelay = EncoderBuffer - 1
  /\ \A i \in Nat : Slot(i) \in Slots
  /\ \A i, j \in Nat : i < j /\ j - i < EncoderBuffer => Slot(i) # Slot(j)
<1>1. EncoderBuffer \in Nat \ {0} /\ OutputDelay = EncoderBuffer - 1
      BY NvEncoderAssumption DEF EncoderBuffer, OutputDelay
<1> DEFINE b == EncoderBuffer
<1>2. b \in Nat \ {0} BY <1>1
<1> HIDE DEF b
<1>3. \A i \in Nat : i % b \in 0..(b - 1) BY <1>2
<1>4. \A i, j \in Nat : i < j /\ j - i < b => i % b # j % b BY <1>2, NoCollision
<1> QED BY <1>1, <1>3, <1>4 DEF b, Slot, Slots

(***************************************************************************)
(* The ring.  What has been sent and not fetched is a window of indices    *)
(* that is shorter than the ring except while packets are fetched; the     *)
(* hardware works on its end, and packets are in the slots before that.    *)
(***************************************************************************)
Window ==
  /\ iGot <= iToSend
  /\ iToSend - iGot <= (IF encPc = "fetch" THEN EncoderBuffer ELSE OutputDelay)
  /\ Len(work) <= iToSend - iGot
  /\ \A k \in 1..Len(work) : work[k] = Slot(iToSend - Len(work) + k - 1)

Filled ==
  /\ mapped = Sent
  /\ \A s \in Slots : bitstream[s] # 0 => \E i \in iGot..(iToSend - Len(work) - 1) : s = Slot(i)

Ending ==
  /\ eos => encPc \in {"fetch", "deliver", "done"}
  /\ eos /\ encPc = "deliver" => iGot = iToSend
  /\ encPc = "done" => iGot = iToSend
  /\ Len(bgr) <= MaxQueue + 1

Making ==
  /\ made => registered = Slots /\ encPc # "none"
  /\ encPc \notin {"none", "done"} => made
  /\ encPc = "none" => iGot = iToSend

RingInv == EncTypeOK /\ Window /\ Filled /\ Ending /\ Making

LEMMA InitRing == EncInit => RingInv
<1> SUFFICES ASSUME EncInit PROVE RingInv OBVIOUS
<1>1. Empty \in [Slots -> Nat] /\ \A s \in Slots : Empty[s] = 0 BY DEF Empty
<1>2. EncTypeOK
  <2>1. /\ made \in BOOLEAN /\ eos \in BOOLEAN /\ encAbort \in BOOLEAN /\ encFault \in BOOLEAN
        BY Zenon DEF EncInit
  <2>2. /\ bgr \in Seq(Nat \ {0}) /\ fetched \in Seq(Nat) /\ packets \in Seq(Nat)
        /\ work \in Seq(Slots)
        BY DEF EncInit
  <2>3. input \in [Slots -> Nat] /\ bitstream \in [Slots -> Nat] BY <1>1 DEF EncInit
  <2> QED BY <2>1, <2>2, <2>3 DEF EncInit, EncTypeOK
<1>3. Window BY Ring DEF EncInit, Window
<1>4. Filled BY <1>1 DEF EncInit, Filled, Sent
<1>5. Ending BY NvEncoderAssumption DEF EncInit, Ending
<1>6. Making BY DEF EncInit, Making
<1> QED BY <1>2, <1>3, <1>4, <1>5, <1>6 DEF RingInv

(* The list of pictures, which is emptied when it is long. *)
LEMMA PushPicture ==
  ASSUME NEW q \in Seq(Nat \ {0}), NEW p \in Nat \ {0}, Len(q) <= MaxQueue + 1
  PROVE  DropPush(q, p) \in Seq(Nat \ {0}) /\ Len(DropPush(q, p)) <= MaxQueue + 1
<1>1. <<p>> \in Seq(Nat \ {0}) /\ Len(<<p>>) = 1 OBVIOUS
<1>2. Append(q, p) \in Seq(Nat \ {0}) /\ Len(Append(q, p)) = Len(q) + 1 /\ Len(q) \in Nat
      BY AppendProperties
<1>3. CASE Len(q) > MaxQueue
  <2>1. DropPush(q, p) = <<p>> BY <1>3 DEF DropPush
  <2> QED BY <1>1, <2>1, NvEncoderAssumption
<1>4. CASE ~(Len(q) > MaxQueue)
  <2>1. DropPush(q, p) = Append(q, p) BY <1>4 DEF DropPush
  <2> QED BY <1>2, <1>4, <2>1, NvEncoderAssumption
<1> QED BY <1>3, <1>4

LEMMA RingOfWorker ==
  ASSUME RingInv, Worker
  PROVE  RingInv'
<1> USE DEF RingInv, EncStep, ringVars
<1>1. CASE EncTop \/ EncIdle \/ EncFails \/ EncFetched \/ EncDelivered
  <2>1. UNCHANGED <<made, bgr, encoding, fetched, packets, iToSend, iGot, input, registered,
                    mapped, work, bitstream, eos, encAbort>>
        BY <1>1 DEF EncTop, EncIdle, EncFails, EncFetched, EncDelivered
  <2>2. EncTypeOK' BY <1>1, <2>1 DEF EncTypeOK, EncTop, EncIdle, EncFails, EncFetched, EncDelivered
  <2>3. Window' /\ Ending' /\ Making'
    <3>1. CASE EncFetched
      <4>1. encPc = "fetch" /\ encPc' = "deliver" /\ iGot >= Due BY <3>1 DEF EncFetched
      <4>2. OutputDelay \in Nat /\ iToSend \in Nat /\ iGot \in Nat BY Ring DEF EncTypeOK
      <4>3. eos => iToSend <= iGot BY <4>1 DEF Due
      <4>4. ~eos => iToSend - OutputDelay <= iGot BY <4>1, <4>2 DEF Due
      <4>5. iToSend - iGot <= OutputDelay BY <4>2, <4>3, <4>4
      <4>6. Window' BY <2>1, <4>1, <4>5 DEF Window
      <4>7. eos => iGot = iToSend BY <4>2, <4>3 DEF Window
      <4>8. Ending' BY <2>1, <4>1, <4>7 DEF Ending
      <4> QED BY <2>1, <4>1, <4>6, <4>8 DEF Making
    <3>2. CASE EncTop \/ EncIdle \/ EncFails \/ EncDelivered
      <4>1. encPc # "fetch" /\ encPc' # "fetch" /\ encPc # "none" /\ encPc # "done"
            BY <3>2 DEF EncTop, EncIdle, EncFails, EncDelivered
      <4>2. Window' BY <2>1, <4>1 DEF Window
      <4>3. Ending' /\ Making'
            BY <2>1, <3>2, <4>1
            DEF EncTop, EncIdle, EncFails, EncDelivered, Ending, Making
      <4> QED BY <4>2, <4>3
    <3> QED BY <1>1, <3>1, <3>2
  <2>4. Filled' BY <2>1 DEF Filled, Sent
  <2> QED BY <2>2, <2>3, <2>4
<1>2. CASE EncPop
  <2>1. bgr # <<>> /\ bgr \in Seq(Nat \ {0}) BY <1>2 DEF EncPop, EncTypeOK
  <2>2. Head(bgr) \in Nat /\ Tail(bgr) \in Seq(Nat \ {0}) /\ Len(Tail(bgr)) = Len(bgr) - 1
        BY <2>1, HeadTailProperties
  <2>3. EncTypeOK' BY <1>2, <2>2 DEF EncPop, EncTypeOK
  <2>4. UNCHANGED <<made, iToSend, iGot, registered, mapped, work, bitstream, eos>>
        /\ encPc = "enter" /\ encPc' = "copy" /\ bgr' = Tail(bgr)
        BY <1>2 DEF EncPop
  <2>5. Window' /\ Filled' BY <2>4 DEF Window, Filled, Sent
  <2>6. Making' BY <2>4 DEF Making
  <2>7. Len(bgr') <= MaxQueue + 1
        BY <2>1, <2>2, <2>4, NvEncoderAssumption DEF Ending
  <2> QED BY <2>3, <2>4, <2>5, <2>6, <2>7 DEF Ending
<1>3. CASE EncCopy
  <2>1. UNCHANGED <<made, bgr, iToSend, iGot, registered, mapped, work, bitstream, eos>>
        /\ encPc = "copy" /\ encPc' = "encode"
        BY <1>3 DEF EncCopy
  <2>2. EncTypeOK' BY <1>3 DEF EncCopy, CopyToDeviceFrame, EncTypeOK
  <2> QED BY <2>1, <2>2 DEF Window, Filled, Sent, Ending, Making
<1>4. CASE EncEncode
  <2> DEFINE s == Slot(iToSend)
  <2>1. /\ mapped' = mapped \cup {s} /\ work' = Append(work, s) /\ iToSend' = iToSend + 1
        /\ encoding' = 0 /\ encPc = "encode" /\ encPc' = "fetch"
        /\ UNCHANGED <<made, encAbort, bgr, iGot, input, registered, bitstream, eos, fetched,
                       packets, encFault>>
        BY <1>4 DEF EncEncode, MapResources, DoEncode, NextInputFrame
  <2>2. /\ iToSend \in Nat /\ iGot \in Nat /\ work \in Seq(Slots) /\ s \in Slots
        BY Ring DEF EncTypeOK
  <2> HIDE DEF s
  <2>3. /\ work' \in Seq(Slots) /\ Len(work') = Len(work) + 1 /\ Len(work) \in Nat
        /\ \A k \in 1..Len(work) : work'[k] = work[k]
        /\ work'[Len(work) + 1] = s
        BY <2>1, <2>2, AppendProperties
  <2>4. EncTypeOK' BY <2>1, <2>2, <2>3 DEF EncTypeOK
  <2>5. Window'
    <3>1. \A k \in 1..Len(work') : work'[k] = Slot(iToSend' - Len(work') + k - 1)
      <4> SUFFICES ASSUME NEW k \in 1..Len(work')
                   PROVE  work'[k] = Slot(iToSend' - Len(work') + k - 1)
          OBVIOUS
      <4>1. iToSend' - Len(work') + k - 1 = iToSend - Len(work) + k - 1
            BY <2>1, <2>2, <2>3
      <4>2. CASE k \in 1..Len(work) BY <2>3, <4>1, <4>2 DEF Window
      <4>3. CASE k = Len(work) + 1
        <5>1. iToSend - Len(work) + k - 1 = iToSend BY <2>2, <2>3, <4>3
        <5> QED BY <2>3, <4>1, <4>3, <5>1 DEF s
      <4> QED BY <2>3, <4>2, <4>3
    <3>2. iToSend - iGot <= OutputDelay BY <2>1 DEF Window
    <3>3. /\ iGot' <= iToSend' /\ iToSend' - iGot' <= EncoderBuffer
          /\ Len(work') <= iToSend' - iGot'
          BY <2>1, <2>2, <2>3, <3>2, Ring DEF Window
    <3> QED BY <2>1, <3>1, <3>3 DEF Window
  <2>6. Filled'
    <3>1. iGot'..(iToSend' - 1) = iGot..(iToSend - 1) \cup {iToSend} 
          BY <2>1, <2>2 DEF Window
    <3>2. Sent' = Sent \cup {s} BY <3>1 DEF Sent, s, Slot
    <3>3. iToSend' - Len(work') - 1 = iToSend - Len(work) - 1 BY <2>1, <2>2, <2>3
    <3> QED BY <2>1, <3>2, <3>3 DEF Filled
  <2>7. Ending' BY <2>1 DEF Ending
  <2>8. Making' BY <2>1 DEF Making
  <2> QED BY <2>4, <2>5, <2>6, <2>7, <2>8
<1>5. CASE EncFetch
  <2> DEFINE s == Slot(iGot)
  <2>1. /\ bitstream[s] # 0 /\ bitstream' = [bitstream EXCEPT ![s] = 0]
        /\ fetched' = Append(fetched, bitstream[s])
        /\ mapped' = mapped \ {s} /\ iGot' = iGot + 1
        /\ encPc = "fetch" /\ encPc' = "fetch"
        /\ UNCHANGED <<made, encAbort, bgr, iToSend, input, registered, work, eos, encoding,
                       packets, encFault>>
        BY <1>5 DEF EncFetch, Unmapped
  <2>2. /\ iToSend \in Nat /\ iGot \in Nat /\ work \in Seq(Slots) /\ s \in Slots
        /\ bitstream \in [Slots -> Nat] /\ Len(work) \in Nat
    <3>1. /\ iToSend \in Nat /\ iGot \in Nat /\ work \in Seq(Slots)
          /\ bitstream \in [Slots -> Nat]
          BY DEF EncTypeOK
    <3> QED BY <3>1, Ring
  <2>3. iToSend - iGot <= EncoderBuffer BY <2>1 DEF Window
  <2>4. \A i \in (iGot + 1)..(iToSend - 1) : Slot(i) # s BY <2>2, <2>3, Ring
  <2> HIDE DEF s
  <2>5. bitstream' \in [Slots -> Nat] /\ bitstream'[s] = 0
        /\ \A t \in Slots \ {s} : bitstream'[t] = bitstream[t]
        BY <2>1, <2>2
  <2>6. EncTypeOK'
    <3>1. fetched' \in Seq(Nat) BY <2>1, <2>2 DEF EncTypeOK
    <3> QED BY <2>1, <2>2, <2>5, <3>1 DEF EncTypeOK
  <2>7. PICK i \in iGot..(iToSend - Len(work) - 1) : s = Slot(i) BY <2>1, <2>2 DEF Filled
  <2>8. iGot' <= iToSend - Len(work) BY <2>1, <2>2, <2>7
  <2>9. Window'
    <3>1. EncoderBuffer \in Nat BY Ring
    <3>2. /\ iGot' <= iToSend' /\ iToSend' - iGot' <= EncoderBuffer
          /\ Len(work') <= iToSend' - iGot'
          BY <2>1, <2>2, <2>3, <2>8, <3>1
    <3>3. \A k \in 1..Len(work') : work'[k] = Slot(iToSend' - Len(work') + k - 1)
          BY <2>1 DEF Window
    <3> QED BY <2>1, <3>2, <3>3 DEF Window
  <2>10. mapped' = Sent'
    <3>1. iGot..(iToSend - 1) = {iGot} \cup ((iGot + 1)..(iToSend - 1))
          BY <2>1, <2>2, <2>8
    <3>2. Sent = {s} \cup Sent' BY <2>1, <3>1 DEF Sent, s, Slot
    <3>3. s \notin Sent' BY <2>1, <2>4 DEF Sent, Slot
    <3> QED BY <2>1, <3>2, <3>3 DEF Filled
  <2>11. ASSUME NEW t \in Slots, bitstream'[t] # 0
         PROVE  \E j \in iGot'..(iToSend' - Len(work') - 1) : t = Slot(j)
    <3>1. t # s /\ bitstream[t] # 0 BY <2>5, <2>11
    <3>2. PICK j \in iGot..(iToSend - Len(work) - 1) : t = Slot(j) BY <3>1 DEF Filled
    <3>3. j # iGot BY <3>1, <3>2 DEF s
    <3>4. j \in iGot'..(iToSend' - Len(work') - 1) BY <2>1, <2>2, <3>2, <3>3
    <3> QED BY <3>2, <3>4
  <2>12. Ending' BY <2>1 DEF Ending
  <2>13. Making' BY <2>1 DEF Making
  <2> QED BY <2>6, <2>9, <2>10, <2>11, <2>12, <2>13 DEF Filled
<1>6. CASE EncDeliver
  <2>1. fetched # <<>> /\ fetched \in Seq(Nat) BY <1>6 DEF EncDeliver, EncTypeOK
  <2>2. Head(fetched) \in Nat /\ Tail(fetched) \in Seq(Nat) BY <2>1, HeadTailProperties
  <2>3. packets' \in Seq(Nat) BY <1>6, <2>2 DEF EncDeliver, EncTypeOK
  <2>4. EncTypeOK' BY <1>6, <2>2, <2>3 DEF EncDeliver, EncTypeOK
  <2>5. UNCHANGED <<made, bgr, iToSend, iGot, registered, mapped, work, bitstream, eos, encPc>>
        BY <1>6 DEF EncDeliver
  <2> QED BY <2>4, <2>5 DEF Window, Filled, Sent, Ending, Making
<1>7. CASE EncFlush
  <2>1. UNCHANGED <<made, bgr, iToSend, iGot, registered, mapped, work, bitstream>>
        /\ encPc = "flush" /\ encPc' = "fetch"
        BY <1>7 DEF EncFlush
  <2>2. EncTypeOK' BY <1>7 DEF EncFlush, EncTypeOK
  <2>3. Window' BY <2>1, Ring DEF Window, EncTypeOK
  <2> QED BY <2>1, <2>2, <2>3 DEF Filled, Sent, Ending, Making
<1> QED BY <1>1, <1>2, <1>3, <1>4, <1>5, <1>6, <1>7 DEF Worker

LEMMA RingOfHardware ==
  ASSUME RingInv, Hardware
  PROVE  RingInv'
<1> USE DEF RingInv
<1> DEFINE h == Head(work)
<1>1. /\ Len(work) > KeptBack /\ bitstream' = [bitstream EXCEPT ![h] = input[h]]
      /\ work' = Tail(work)
      /\ UNCHANGED <<made, bgr, iToSend, iGot, input, registered, mapped, eos, encoding,
                     fetched, packets, encPc, encFault, encAbort>>
      BY DEF Hardware, workerVars
<1>2. KeptBack \in Nat BY NvEncoderAssumption DEF KeptBack
<1>3. work \in Seq(Slots) /\ work # <<>> /\ Len(work) \in Nat /\ Len(work) > 0
      BY <1>1, <1>2 DEF EncTypeOK
<1>4. /\ h \in Slots /\ h = work[1] /\ work' \in Seq(Slots) /\ Len(work') = Len(work) - 1
      /\ \A k \in 1..Len(work') : work'[k] = work[k + 1]
      BY <1>1, <1>3, HeadTailProperties
<1>5. iToSend \in Nat /\ iGot \in Nat BY DEF EncTypeOK
<1>6. h = Slot(iToSend - Len(work))
  <2>1. work[1] = Slot(iToSend - Len(work) + 1 - 1) BY <1>3 DEF Window
  <2>2. iToSend - Len(work) + 1 - 1 = iToSend - Len(work) BY <1>3, <1>5
  <2> QED BY <1>4, <2>1, <2>2
<1> HIDE DEF h
<1>7. /\ bitstream' \in [Slots -> Nat]
      /\ \A t \in Slots \ {h} : bitstream'[t] = bitstream[t]
      BY <1>1, <1>4 DEF EncTypeOK
<1>8. EncTypeOK' BY <1>1, <1>4, <1>7 DEF EncTypeOK
<1>9. Window'
  <2>1. Len(work') <= iToSend' - iGot' BY <1>1, <1>3, <1>4, <1>5 DEF Window
  <2>2. ASSUME NEW k \in 1..Len(work')
        PROVE  work'[k] = Slot(iToSend' - Len(work') + k - 1)
    <3>1. k + 1 \in 1..Len(work) BY <1>3, <1>4
    <3>2. work'[k] = Slot(iToSend - Len(work) + (k + 1) - 1) BY <1>4, <3>1 DEF Window
    <3>3. iToSend - Len(work) + (k + 1) - 1 = iToSend' - Len(work') + k - 1
          BY <1>1, <1>3, <1>4, <1>5
    <3> QED BY <3>2, <3>3
  <2> QED BY <1>1, <2>1, <2>2 DEF Window
<1>10. Filled'
  <2>1. ASSUME NEW t \in Slots, bitstream'[t] # 0
        PROVE  \E i \in iGot'..(iToSend' - Len(work') - 1) : t = Slot(i)
    <3>1. iToSend' - Len(work') - 1 = iToSend - Len(work) BY <1>1, <1>3, <1>4, <1>5
    <3>2. CASE t = h
      <4>1. iToSend - Len(work) \in iGot..(iToSend - Len(work)) BY <1>3, <1>5 DEF Window
      <4> QED BY <1>1, <1>6, <3>1, <3>2, <4>1
    <3>3. CASE t # h
      <4>1. PICK i \in iGot..(iToSend - Len(work) - 1) : t = Slot(i)
            BY <1>7, <2>1, <3>3 DEF Filled
      <4>2. i \in iGot..(iToSend - Len(work)) BY <1>3, <1>5, <4>1
      <4> QED BY <1>1, <3>1, <4>1, <4>2
    <3> QED BY <3>2, <3>3
  <2>2. mapped' = Sent' BY <1>1 DEF Filled, Sent
  <2> QED BY <2>1, <2>2 DEF Filled
<1>11. Ending' /\ Making' BY <1>1 DEF Ending, Making
<1> QED BY <1>8, <1>9, <1>10, <1>11

(* The listener's picture, and the owner. *)
LEMMA RingOfPicture ==
  ASSUME RingInv, NEW p \in Nat \ {0}, AddVideoFrame(p), ~made => encPc = "none"
  PROVE  RingInv'
<1> USE DEF RingInv
<1>1. /\ bgr' \in Seq(Nat \ {0}) /\ Len(bgr') <= MaxQueue + 1
  <2>1. bgr' = DropPush(bgr, p) BY DEF AddVideoFrame, AddFirstFrame, AddNextFrame
  <2> QED BY <2>1, PushPicture DEF EncTypeOK, Ending
<1>2. CASE AddNextFrame(p)
  <2>1. UNCHANGED <<made, ringVars, workerVars, encAbort>> BY <1>2 DEF AddNextFrame
  <2> QED BY <1>1, <2>1 DEF ringVars, workerVars, EncTypeOK, Window, Filled, Sent, Ending, Making
<1>3. CASE AddFirstFrame(p)
  <2>1. /\ encPc = "none" /\ encPc' = "top" /\ made' = TRUE
        /\ registered' = Slots /\ bitstream' = Empty /\ input' = Empty
        /\ UNCHANGED <<iToSend, iGot, mapped, work, eos, encoding, fetched, packets, encFault,
                       encAbort>>
        BY <1>3 DEF AddFirstFrame, CreateEncoder, InitializeBitstreamBuffer,
                    AllocateInputBuffers, RegisterInputResources
  <2>2. Empty \in [Slots -> Nat] /\ \A s \in Slots : Empty[s] = 0 BY DEF Empty
  <2>3. EncTypeOK' BY <1>1, <2>1, <2>2 DEF EncTypeOK
  <2>4. Window' BY <2>1 DEF Window
  <2>5. Filled' BY <2>1, <2>2 DEF Filled, Sent
  <2>6. Ending' BY <1>1, <2>1 DEF Ending
  <2> QED BY <2>1, <2>3, <2>4, <2>5, <2>6 DEF Making
<1> QED BY <1>2, <1>3 DEF AddVideoFrame

LEMMA RingOfOwner ==
  ASSUME RingInv, EncDestroy \/ EncJoin
  PROVE  RingInv'
<1> USE DEF RingInv
<1>1. CASE EncDestroy
      BY <1>1 DEF EncDestroy, ringVars, workerVars, EncTypeOK, Window, Filled, Sent, Ending, Making
<1>2. CASE EncJoin
  <2>1. /\ encPc = "done" /\ made' = FALSE /\ bgr' = <<>> /\ mapped' = {} /\ registered' = {}
        /\ input' = Empty /\ bitstream' = Empty
        /\ UNCHANGED <<iToSend, iGot, work, eos, encoding, fetched, packets, encPc, encFault,
                       encAbort>>
        BY <1>2 DEF EncJoin, DestroyEncoder, ReleaseCudaResources, UnregisterInputResources,
                    DestroyBitstreamBuffer, workerVars
  <2>2. Empty \in [Slots -> Nat] /\ \A s \in Slots : Empty[s] = 0 BY DEF Empty
  <2>3. <<>> \in Seq(Nat \ {0}) /\ Len(<<>>) = 0 BY EmptySeq
  <2>4. EncTypeOK' BY <2>1, <2>2, <2>3 DEF EncTypeOK
  <2>5. Window' BY <2>1 DEF Window
  <2>6. iGot' = iToSend' /\ iGot' \in Nat BY <2>1 DEF Ending, EncTypeOK
  <2>7. iGot'..(iToSend' - 1) = {}
    <3>1. \A i \in Nat : i..(i - 1) = {} OBVIOUS
    <3> QED BY <2>6, <3>1
  <2>8. Filled' BY <2>1, <2>2, <2>7 DEF Filled, Sent
  <2>9. Ending' BY <2>1, <2>3, NvEncoderAssumption DEF Ending
  <2> QED BY <2>1, <2>4, <2>5, <2>8, <2>9 DEF Making
<1> QED BY <1>1, <1>2

LEMMA KeptRing == RingInv => RingKept
<1> SUFFICES ASSUME RingInv PROVE RingKept OBVIOUS
<1> USE DEF RingInv
<1>1. /\ iToSend \in Nat /\ iGot \in Nat /\ work \in Seq(Slots) /\ Len(work) \in Nat
      BY DEF EncTypeOK
<1>2. iGot <= iToSend /\ iToSend - iGot <= EncoderBuffer BY <1>1, Ring DEF Window
<1>3. Range(work) \subseteq mapped
  <2>1. ASSUME NEW k \in 1..Len(work) PROVE work[k] \in Sent
    <3>1. iToSend - Len(work) + k - 1 \in iGot..(iToSend - 1) BY <1>1 DEF Window
    <3> QED BY <3>1 DEF Window, Sent
  <2> QED BY <1>1, <2>1 DEF Range, Filled
<1>4. mapped \subseteq registered
  <2>1. CASE made BY <2>1 DEF Making, EncTypeOK
  <2>2. CASE ~made
    <3>1. iGot = iToSend BY <2>2 DEF Making, Ending
    <3>2. iGot..(iToSend - 1) = {} BY <1>1, <3>1
    <3> QED BY <3>2 DEF Filled, Sent
  <2> QED BY <2>1, <2>2
<1>5. ASSUME encPc = "copy"
      PROVE  Slot(iToSend) \notin mapped /\ bitstream[Slot(iToSend)] = 0
  <2>1. iToSend - iGot < EncoderBuffer BY <1>1, <1>5, Ring DEF Window
  <2>2. \A i \in iGot..(iToSend - 1) : Slot(i) # Slot(iToSend) BY <1>1, <2>1, Ring
  <2>3. Slot(iToSend) \in Slots BY <1>1, Ring
  <2>4. \A i \in iGot..(iToSend - Len(work) - 1) : i \in iGot..(iToSend - 1) BY <1>1
  <2> QED BY <2>2, <2>3, <2>4 DEF Filled, Sent
<1>6. encPc = "done" => iGot = iToSend /\ work = <<>>
  <2>1. encPc = "done" => iGot = iToSend BY DEF Ending
  <2>2. iGot = iToSend => Len(work) = 0 BY <1>1 DEF Window
  <2> QED BY <1>1, <2>1, <2>2, EmptySeq
<1> QED BY <1>2, <1>3, <1>4, <1>5, <1>6 DEF RingKept, Filled, Ending

(***************************************************************************)
(* The decoder.  What the parser still keeps and what it has displayed     *)
(* bound the stock; the pictures in it are those of packets put in.        *)
(***************************************************************************)
Stage ==
  /\ decPc \in {"parse", "display"} => returned = 0
  /\ decPc = "display" => decoding # 0
  /\ decPc # "done" => returned + decoded <= Len(stock)
  /\ Len(stock) <= ParserDelay + 1
  /\ decPc \in {"top", "enter", "frames", "done"} => Len(parser) <= ParserDelay
  /\ decPc = "parse" => decoded + Len(parser) <= ParserDelay
  /\ decPc = "display" => decoded + Len(parser) <= ParserDelay + 1

(* A header is the one of a packet, and there is a decoder once there is   *)
(* a header, and before there are pictures.                                *)
Heads ==
  /\ lumaHeight = 0 => header = NoHeader /\ format = NoHeader
  /\ lumaHeight # 0 => header \in Headers /\ format \in Headers
  /\ header.coded = format.coded
  /\ parser # <<>> => lumaHeight # 0

StockInv == DecTypeOK /\ Stage /\ Heads

LEMMA HeaderOf ==
  ASSUME DecTypeOK
  PROVE  /\ NumPackets \in Nat
         /\ \A k \in 1..NumPackets : stream[k] \in Headers
         /\ \A h \in Headers : h.coded \in Nat \ {0} /\ h.display \in Nat \ {0}
         /\ NoHeader \notin Headers /\ NoHeader.coded = 0
<1>1. stream \in Seq(Headers) BY NvDecoderAssumption DEF DecTypeOK
<1>2. NumPackets \in Nat BY <1>1 DEF NumPackets
<1>3. \A k \in 1..NumPackets : stream[k] \in Headers BY <1>1 DEF NumPackets
<1>4. \A h \in Headers : h.coded \in Nat \ {0} /\ h.display \in Nat \ {0} BY DEF Headers
<1>5. NoHeader.coded = 0 BY DEF NoHeader
<1> QED BY <1>2, <1>3, <1>4, <1>5

LEMMA InitStock == DecInit => StockInv
<1> SUFFICES ASSUME DecInit PROVE StockInv OBVIOUS
<1>1. stream \in Seq(Headers) /\ NumPackets \in Nat
      BY NvDecoderAssumption DEF DecInit, NumPackets
<1>2. DecTypeOK
  <2>1. overrun \in BOOLEAN /\ decAbort \in BOOLEAN /\ decFault \in BOOLEAN
        BY Zenon DEF DecInit
  <2>2. /\ es \in Seq(1..NumPackets) /\ parser \in Seq(1..NumPackets)
        /\ stock \in Seq([size : Nat, pic : 1..NumPackets])
        BY DEF DecInit
  <2>3. decAdded \in 0..NumPackets /\ decoding \in 0..NumPackets BY <1>1 DEF DecInit
  <2> QED BY <2>1, <2>2, <2>3 DEF DecInit, DecTypeOK
<1>3. Stage BY NvDecoderAssumption DEF DecInit, Stage
<1>4. Heads BY DEF DecInit, Heads
<1> QED BY <1>2, <1>3, <1>4 DEF StockInv

(* Steps that leave the stock and the format alone. *)
LEMMA StockOfThread ==
  ASSUME StockInv, DecTop \/ DecFlush \/ DecIdle \/ DecPop \/ HandlePictureDecode
                   \/ DecodeReturns \/ DecodeEnds
  PROVE  StockInv'
<1> USE DEF StockInv, DecStep, formatVars, stockVars
<1>1. NumPackets \in Nat /\ NumPackets' = NumPackets
  <2>1. stream' = stream
        BY DEF DecTop, DecFlush, DecIdle, DecPop, HandlePictureDecode, DecodeReturns, DecodeEnds
  <2> QED BY <2>1, HeaderOf DEF NumPackets
<1>2. /\ Len(parser) \in Nat /\ Len(stock) \in Nat /\ decoded \in Nat /\ returned \in Nat
      /\ ParserDelay \in Nat
      BY NvDecoderAssumption DEF DecTypeOK
<1>3. CASE DecTop \/ DecIdle
  <2>1. UNCHANGED <<stream, decAdded, decAbort, es, decoding, parser, header, format, lumaHeight,
                    maxHeight, stock, decoded, returned, overrun, decFault>>
        /\ decPc \in {"top", "enter"} /\ decPc' \in {"top", "enter"}
        BY <1>3 DEF DecTop, DecIdle
  <2>2. DecTypeOK' BY <1>1, <2>1 DEF DecTypeOK
  <2>3. Stage' BY <2>1 DEF Stage
  <2> QED BY <2>1, <2>2, <2>3 DEF Heads
<1>4. CASE DecFlush \/ DecPop
  <2>1. /\ decoded' = 0 /\ returned' = 0 /\ decPc' = "parse" /\ decPc \in {"top", "enter"}
        /\ UNCHANGED <<stream, decAdded, decAbort, parser, header, format, lumaHeight, maxHeight,
                       stock, overrun, decFault>>
        BY <1>4 DEF DecFlush, DecPop, StartsAt
  <2>2. es' \in Seq(1..NumPackets) /\ decoding' \in 0..NumPackets
    <3>1. CASE DecFlush BY <3>1 DEF DecFlush, DecTypeOK
    <3>2. CASE DecPop
      <4>1. es # <<>> /\ es \in Seq(1..NumPackets) BY <3>2 DEF DecPop, DecTypeOK
      <4>2. Head(es) \in 1..NumPackets /\ Tail(es) \in Seq(1..NumPackets)
            BY <4>1, HeadTailProperties
      <4>3. Head(es) \in 0..NumPackets BY <1>1, <4>2
      <4> QED BY <3>2, <4>2, <4>3 DEF DecPop
    <3> QED BY <1>4, <3>1, <3>2
  <2>3. DecTypeOK' BY <1>1, <2>1, <2>2 DEF DecTypeOK
  <2>4. Stage' BY <1>2, <2>1 DEF Stage
  <2> QED BY <2>1, <2>3, <2>4 DEF Heads
<1>5. CASE HandlePictureDecode
  <2>1. /\ decoding # 0 /\ parser' = Append(parser, decoding)
        /\ decPc = "parse" /\ decPc' = "display"
        /\ UNCHANGED <<stream, decAdded, decAbort, es, decoding, header, format, lumaHeight,
                       maxHeight, stock, decoded, returned, overrun, decFault>>
        BY <1>5 DEF HandlePictureDecode
  <2>2. stream[decoding] = header BY <1>5 DEF HandlePictureDecode, NewSequence
  <2>3. decoding \in 1..NumPackets /\ parser \in Seq(1..NumPackets)
        BY <1>1, <2>1 DEF DecTypeOK
  <2>4. parser' \in Seq(1..NumPackets) /\ Len(parser') = Len(parser) + 1
        BY <2>1, <2>3, AppendProperties
  <2>5. lumaHeight # 0 BY <2>2, <2>3, HeaderOf DEF Heads
  <2>6. DecTypeOK' BY <1>1, <2>1, <2>4 DEF DecTypeOK
  <2>7. Stage' BY <1>2, <2>1, <2>4 DEF Stage
  <2> QED BY <2>1, <2>5, <2>6, <2>7 DEF Heads
<1>6. CASE DecodeReturns
  <2>1. /\ decPc' = "frames" /\ decPc \in {"parse", "display"}
        /\ UNCHANGED <<stream, decAdded, decAbort, es, decoding, parser, header, format,
                       lumaHeight, maxHeight, stock, decoded, returned, overrun, decFault>>
        BY <1>6 DEF DecodeReturns
  <2>2. Len(parser) <= ParserDelay
    <3>1. CASE decPc = "display"
      <4>1. ~(Len(parser) > ParserDelay) BY <1>6, <3>1 DEF DecodeReturns, Displays, Stage
      <4> QED BY <1>2, <4>1
    <3>2. CASE decPc = "parse" BY <1>2, <3>2 DEF Stage
    <3> QED BY <2>1, <3>1, <3>2
  <2>3. DecTypeOK' BY <1>1, <2>1 DEF DecTypeOK
  <2>4. Stage' BY <2>1, <2>2 DEF Stage
  <2> QED BY <2>1, <2>3, <2>4 DEF Heads
<1>7. CASE DecodeEnds
  <2>1. /\ decPc' \in {"top", "done"} /\ decPc = "frames" /\ decoding' = 0
        /\ UNCHANGED <<stream, decAdded, decAbort, es, parser, header, format,
                       lumaHeight, maxHeight, stock, decoded, returned, overrun, decFault>>
        BY <1>7 DEF DecodeEnds
  <2>2. DecTypeOK' BY <1>1, <2>1 DEF DecTypeOK
  <2>3. Stage' BY <2>1 DEF Stage
  <2> QED BY <2>1, <2>2, <2>3 DEF Heads
<1> QED BY <1>3, <1>4, <1>5, <1>6, <1>7

(* Steps of a new header. *)
LEMMA StockOfHeader ==
  ASSUME StockInv, CreateDecoder \/ ReconfigureThrows \/ FollowDisplay \/ ReconfigureScaled
  PROVE  StockInv'
<1> USE DEF StockInv, DecStep, formatVars, stockVars
<1>1. /\ decPc = "parse" /\ decPc' = "parse" /\ NewSequence
      /\ UNCHANGED <<stream, decAdded, decAbort, es, decoding, parser, stock, decoded, returned,
                     overrun>>
      BY DEF CreateDecoder, ReconfigureThrows, FollowDisplay, ReconfigureScaled
<1>2. NumPackets \in Nat /\ NumPackets' = NumPackets BY <1>1, HeaderOf DEF NumPackets
<1>3. decoding \in 1..NumPackets BY <1>1, <1>2 DEF NewSequence, DecTypeOK
<1> DEFINE h == stream[decoding]
<1>4. h \in Headers /\ h.coded \in Nat \ {0} /\ h.display \in Nat \ {0} BY <1>3, HeaderOf
<1> HIDE DEF h
<1>5. Stage' BY <1>1 DEF Stage
<1>6. lumaHeight' \in Nat /\ maxHeight' \in Nat /\ decFault' \in BOOLEAN
      /\ (lumaHeight' # 0 => header' \in Headers /\ format' \in Headers)
      /\ (lumaHeight' = 0 => header' = NoHeader /\ format' = NoHeader)
      /\ header' \in Headers \cup {NoHeader} /\ format' \in Headers \cup {NoHeader}
      /\ header'.coded = format'.coded /\ (lumaHeight' = 0 => lumaHeight = 0)
  <2>1. CASE CreateDecoder
    <3>1. header' = h /\ format' = h /\ lumaHeight' = h.display /\ maxHeight' = h.coded
          /\ decFault' = decFault
          BY <2>1 DEF CreateDecoder, h
    <3> QED BY <1>4, <3>1 DEF DecTypeOK
  <2>2. CASE ReconfigureThrows
    <3>1. UNCHANGED <<header, format, lumaHeight, maxHeight>> /\ decFault' = TRUE
          BY <2>2 DEF ReconfigureThrows
    <3> QED BY <3>1 DEF Heads, DecTypeOK
  <2>3. CASE FollowDisplay
    <3>1. /\ header' = h /\ h.coded = format.coded /\ lumaHeight # 0
          /\ lumaHeight' = IF h.display # format.display THEN h.display ELSE lumaHeight
          /\ UNCHANGED <<format, maxHeight, decFault>>
          BY <2>3 DEF FollowDisplay, h
    <3>2. lumaHeight' \in Nat \ {0} BY <1>4, <3>1 DEF DecTypeOK
    <3>3. format \in Headers BY <3>1 DEF Heads
    <3> QED BY <1>4, <3>1, <3>2, <3>3 DEF DecTypeOK
  <2>4. CASE ReconfigureScaled
    <3>1. /\ header' = h /\ lumaHeight # 0 /\ format' = [format EXCEPT !.coded = h.coded]
          /\ UNCHANGED <<lumaHeight, maxHeight, decFault>>
          BY <2>4 DEF ReconfigureScaled, ScaledHeight, h
    <3>2. format \in Headers BY <3>1 DEF Heads
    <3>3. format' \in Headers /\ format'.coded = h.coded BY <1>4, <3>1, <3>2 DEF Headers
    <3> QED BY <1>4, <3>1, <3>3 DEF DecTypeOK
  <2> QED BY <2>1, <2>2, <2>3, <2>4
<1>7. DecTypeOK' BY <1>1, <1>2, <1>6 DEF DecTypeOK
<1>8. Heads' BY <1>1, <1>6 DEF Heads
<1> QED BY <1>5, <1>7, <1>8

(* A picture is copied into the stock. *)
LEMMA StockOfDisplay ==
  ASSUME StockInv, HandlePictureDisplay
  PROVE  /\ StockInv'
         /\ parser # <<>> /\ decoded + 1 \in Nat \ {0}
         /\ \A k \in 1..Len(stock') :
              stock'[k].size = IF k \in 1..Len(stock) THEN stock[k].size ELSE lumaHeight
         /\ decoded + 1 <= Len(stock')
<1> USE DEF StockInv, DecStep, formatVars
<1> DEFINE Frame == [size : Nat, pic : 1..NumPackets]
           n == decoded + 1
<1>1. /\ Displays /\ decPc \in {"parse", "display"} /\ decPc' = decPc
      /\ parser' = Tail(parser) /\ decoded' = n
      /\ stock' = IF n > Len(stock) THEN Append(stock, Copied)
                  ELSE [stock EXCEPT ![n].pic = Head(parser)]
      /\ overrun' = (overrun \/ stock'[n].size < lumaHeight)
      /\ UNCHANGED <<stream, decAdded, decAbort, es, decoding, header, format, lumaHeight,
                     maxHeight, returned, decFault>>
      BY DEF HandlePictureDisplay
<1>2. /\ NumPackets' = NumPackets /\ ParserDelay \in Nat /\ decoded \in Nat
      /\ returned = 0 /\ stock \in Seq(Frame) /\ Len(stock) \in Nat /\ lumaHeight \in Nat
      /\ parser \in Seq(1..NumPackets) /\ Len(parser) \in Nat
  <2>1. stock \in Seq(Frame) /\ parser \in Seq(1..NumPackets) BY DEF DecTypeOK
  <2>2. decoded \in Nat /\ lumaHeight \in Nat BY DEF DecTypeOK
  <2>3. returned = 0 BY <1>1 DEF Stage
  <2>4. NumPackets' = NumPackets BY <1>1 DEF NumPackets
  <2>5. Len(stock) \in Nat /\ Len(parser) \in Nat BY <2>1
  <2> QED BY <2>1, <2>2, <2>3, <2>4, <2>5, NvDecoderAssumption
<1>3. parser # <<>>
  <2>1. Len(parser) > ParserDelay => parser # <<>> BY <1>2, EmptySeq
  <2> QED BY <1>1, <2>1 DEF Displays
<1>4. /\ Head(parser) \in 1..NumPackets /\ Tail(parser) \in Seq(1..NumPackets)
      /\ Len(Tail(parser)) = Len(parser) - 1 /\ Len(parser) > 0
  <2>1. Len(parser) > 0 BY <1>2, <1>3, EmptySeq
  <2> QED BY <1>2, <1>3, <2>1, HeadTailProperties
<1>5. n \in Nat \ {0} /\ n <= Len(stock) + 1 /\ n <= ParserDelay + 1
      BY SMTT(30), <1>1, <1>2, <1>4 DEF Stage
<1>6. /\ stock' \in Seq(Frame) /\ n <= Len(stock') /\ Len(stock') <= ParserDelay + 1
      /\ \A k \in 1..Len(stock') :
           stock'[k].size = IF k \in 1..Len(stock) THEN stock[k].size ELSE lumaHeight
  <2>1. CASE n > Len(stock)
    <3>1. Copied \in Frame /\ Copied.size = lumaHeight BY <1>2, <1>4 DEF Copied
    <3>2. stock' = Append(stock, Copied) BY <1>1, <2>1
    <3> HIDE DEF Frame
    <3>3. /\ stock' \in Seq(Frame) /\ Len(stock') = Len(stock) + 1
          /\ \A k \in 1..Len(stock) : stock'[k] = stock[k]
          /\ stock'[Len(stock) + 1] = Copied
          BY <1>2, <3>1, <3>2, AppendProperties
    <3>4. Len(stock') = n BY <1>2, <1>5, <2>1, <3>3
    <3>5. \A k \in 1..Len(stock') : k \notin 1..Len(stock) => k = Len(stock) + 1
          BY <1>2, <3>3
    <3> QED BY <1>5, <3>1, <3>3, <3>4, <3>5
  <2>2. CASE n <= Len(stock)
    <3>1. stock' = [stock EXCEPT ![n].pic = Head(parser)] BY <1>1, <1>2, <1>5, <2>2
    <3>2. /\ DOMAIN stock = 1..Len(stock) /\ n \in 1..Len(stock)
          /\ \A k \in 1..Len(stock) : stock[k] \in Frame
      <4> HIDE DEF Frame, n
      <4> QED BY <1>2, <1>5, <2>2, ElementOfSeq
    <3>3. /\ DOMAIN stock' = 1..Len(stock)
          /\ \A k \in 1..Len(stock) : k # n => stock'[k] = stock[k]
          /\ stock'[n] = [stock[n] EXCEPT !.pic = Head(parser)]
          BY <3>1, <3>2
    <3>4. stock'[n] \in Frame /\ stock'[n].size = stock[n].size BY <1>4, <3>2, <3>3
    <3> HIDE DEF Frame, n
    <3>5. \A k \in 1..Len(stock) : stock'[k] \in Frame /\ stock'[k].size = stock[k].size
          BY <3>2, <3>3, <3>4
    <3>6. stock' = [k \in 1..Len(stock) |-> stock'[k]] BY <3>1, <3>2
    <3>7. stock' \in [1..Len(stock) -> Frame] BY <3>5, <3>6
    <3>8. stock' \in Seq(Frame) /\ Len(stock') = Len(stock) BY <1>2, <3>7
    <3> QED BY <1>2, <2>2, <3>5, <3>8 DEF Stage
  <2> QED BY <1>2, <1>5, <2>1, <2>2
<1>7. overrun' \in BOOLEAN
  <2>1. overrun \in BOOLEAN BY Zenon DEF DecTypeOK
  <2>2. (overrun \/ stock'[n].size < lumaHeight) \in BOOLEAN OBVIOUS
  <2> QED BY <1>1, <2>2
<1>8. DecTypeOK' BY <1>1, <1>2, <1>4, <1>5, <1>6, <1>7 DEF DecTypeOK
<1>9. Stage' BY <1>1, <1>2, <1>4, <1>5, <1>6 DEF Stage
<1>10. Heads' BY <1>1, <1>3 DEF Heads
<1> QED BY <1>3, <1>5, <1>6, <1>8, <1>9, <1>10

(* A frame is taken: it is in the stock, and so a packet's picture. *)
LEMMA StockOfGet ==
  ASSUME StockInv, GetFrame
  PROVE  StockInv' /\ Picture \in 1..NumPackets /\ returned + 1 \in 1..Len(stock)
<1> USE DEF StockInv, DecStep, formatVars
<1>1. /\ decoded > 0 /\ decPc = "frames" /\ decPc' = "frames"
      /\ decoded' = decoded - 1 /\ returned' = returned + 1
      /\ overrun' = (overrun \/ stock[returned + 1].size < ContainerHeight)
      /\ UNCHANGED <<stream, decAdded, decAbort, es, decoding, parser, header, format,
                     lumaHeight, maxHeight, stock, decFault>>
      BY DEF GetFrame
<1>2. /\ decoded \in Nat /\ returned \in Nat /\ Len(stock) \in Nat /\ NumPackets' = NumPackets
      /\ stock \in Seq([size : Nat, pic : 1..NumPackets])
  <2>1. /\ decoded \in Nat /\ returned \in Nat
        /\ stock \in Seq([size : Nat, pic : 1..NumPackets])
        BY DEF DecTypeOK
  <2> QED BY <1>1, <2>1 DEF NumPackets
<1>3. returned + 1 \in 1..Len(stock)
  <2>1. returned + decoded <= Len(stock) BY <1>1 DEF Stage
  <2> QED BY <1>1, <1>2, <2>1
<1>4. Picture \in 1..NumPackets
  <2> DEFINE Frame == [size : Nat, pic : 1..NumPackets]
  <2>1. \A f \in Frame : f.pic \in 1..NumPackets OBVIOUS
  <2>2. stock \in Seq(Frame) BY <1>2
  <2> HIDE DEF Frame
  <2>3. stock[returned + 1] \in Frame BY <1>3, <2>2, ElementOfSeq
  <2> QED BY <2>1, <2>3 DEF Picture
<1>5. overrun' \in BOOLEAN
  <2>1. (overrun \/ stock[returned + 1].size < ContainerHeight) \in BOOLEAN OBVIOUS
  <2> QED BY <1>1, <2>1
<1>6. DecTypeOK' BY <1>1, <1>2, <1>5 DEF DecTypeOK
<1>7. Stage' BY <1>1, <1>2 DEF Stage
<1> QED BY <1>1, <1>3, <1>4, <1>6, <1>7 DEF Heads

LEMMA StockOfOwner ==
  ASSUME StockInv, InputVideoData \/ DecDestroy \/ DecJoin
  PROVE  StockInv'
<1> USE DEF StockInv, threadVars, formatVars, stockVars
<1>1. NumPackets \in Nat /\ NumPackets' = NumPackets
  <2>1. stream' = stream BY DEF InputVideoData, DecDestroy, DecJoin
  <2> QED BY <2>1, HeaderOf DEF NumPackets
<1>2. CASE InputVideoData
  <2>1. /\ decAdded < NumPackets /\ decAdded' = decAdded + 1 /\ es' = Append(es, decAdded + 1)
        /\ UNCHANGED <<stream, decoding, parser, header, format, lumaHeight, maxHeight, stock,
                       decoded, returned, overrun, decPc, decFault, decAbort>>
        BY <1>2 DEF InputVideoData, Push
  <2>2. decAdded + 1 \in 1..NumPackets /\ es \in Seq(1..NumPackets)
        BY <1>1, <2>1 DEF DecTypeOK
  <2>3. es' \in Seq(1..NumPackets) BY <2>1, <2>2, AppendProperties
  <2>4. DecTypeOK' BY <1>1, <2>1, <2>2, <2>3 DEF DecTypeOK
  <2>5. Stage' /\ Heads' BY <2>1 DEF Stage, Heads
  <2> QED BY <2>4, <2>5
<1>3. CASE DecDestroy
  <2>1. /\ decAbort' = TRUE
        /\ UNCHANGED <<stream, decAdded, es, decoding, parser, header, format, lumaHeight,
                       maxHeight, stock, decoded, returned, overrun, decPc, decFault>>
        BY <1>3 DEF DecDestroy
  <2>2. DecTypeOK' BY <1>1, <2>1 DEF DecTypeOK
  <2>3. Stage' /\ Heads' BY <2>1 DEF Stage, Heads
  <2> QED BY <2>2, <2>3
<1>4. CASE DecJoin
  <2>1. /\ decPc = "done" /\ stock' = <<>> /\ es' = <<>>
        /\ UNCHANGED <<stream, decAdded, decoding, parser, header, format, lumaHeight,
                       maxHeight, decoded, returned, overrun, decPc, decFault, decAbort>>
        BY <1>4 DEF DecJoin
  <2>2. /\ es' \in Seq(1..NumPackets) /\ stock' \in Seq([size : Nat, pic : 1..NumPackets])
        /\ Len(stock') = 0
        BY <2>1
  <2>3. DecTypeOK' BY <1>1, <2>1, <2>2 DEF DecTypeOK
  <2>4. Stage' BY <2>1, <2>2, NvDecoderAssumption DEF Stage
  <2> QED BY <2>1, <2>3, <2>4 DEF Heads
<1> QED BY <1>2, <1>3, <1>4

(***************************************************************************)
(* Both together.  The decoder has ended before the encoder is destroyed,  *)
(* so a picture never meets an encoder that is gone.                       *)
(***************************************************************************)
Order ==
  /\ opc \in {"open", "joinDecoder", "joinEncoder", "dead"}
  /\ opc \in {"joinEncoder", "dead"} => decPc = "done"
  /\ opc \in {"open", "joinDecoder"} /\ ~made => encPc = "none"

PathInv == RingInv /\ StockInv /\ Order

LEMMA InitPath == Init => PathInv
<1> SUFFICES ASSUME Init PROVE PathInv OBVIOUS
<1>1. RingInv /\ StockInv BY InitRing, InitStock DEF Init
<1>2. Order BY DEF Init, EncInit, Order
<1> QED BY <1>1, <1>2 DEF PathInv

LEMMA SameRing == RingInv /\ UNCHANGED encVars => RingInv'
BY DEF encVars, ringVars, workerVars, RingInv, EncTypeOK, Window, Filled, Sent, Ending, Making

LEMMA SameStock == StockInv /\ UNCHANGED decVars => StockInv'
BY DEF decVars, threadVars, formatVars, stockVars, StockInv, DecTypeOK, NumPackets, Stage, Heads

LEMMA StepPath == PathInv /\ [Next]_vars => PathInv'
<1> SUFFICES ASSUME PathInv, [Next]_vars PROVE PathInv' OBVIOUS
<1> USE DEF PathInv
<1>1. CASE UNCHANGED vars
  <2>1. RingInv' /\ StockInv' BY <1>1, SameRing, SameStock DEF vars
  <2>2. UNCHANGED <<opc, decPc, encPc, made>>
        BY <1>1 DEF vars, decVars, threadVars, encVars, workerVars
  <2> QED BY <2>1, <2>2 DEF Order
<1>2. CASE OnVideoData
  <2>1. InputVideoData /\ UNCHANGED <<encVars, opc>> BY <1>2 DEF OnVideoData
  <2>2. RingInv' /\ StockInv' BY <2>1, SameRing, StockOfOwner
  <2>3. UNCHANGED <<opc, decPc, encPc, made>>
        BY <2>1 DEF InputVideoData, threadVars, encVars, workerVars
  <2> QED BY <2>2, <2>3 DEF Order
<1>3. CASE DecSteps /\ UNCHANGED <<encVars, opc>>
  <2>1. RingInv' /\ StockInv'
        BY <1>3, SameRing, StockOfThread, StockOfHeader, StockOfDisplay DEF DecSteps
  <2>2. decPc # "done"
        BY <1>3 DEF DecSteps, DecTop, DecFlush, DecIdle, DecPop, CreateDecoder,
                    ReconfigureThrows, FollowDisplay, ReconfigureScaled, HandlePictureDecode,
                    HandlePictureDisplay, DecodeReturns, DecodeEnds, DecStep
  <2>3. UNCHANGED <<opc, encPc, made>> BY <1>3 DEF encVars, workerVars
  <2> QED BY <2>1, <2>2, <2>3 DEF Order
<1>4. CASE OnRGBData
  <2>1. GetFrame /\ AddVideoFrame(Picture) /\ opc' = opc BY <1>4 DEF OnRGBData
  <2>2. StockInv' /\ Picture \in 1..NumPackets BY <2>1, StockOfGet
  <2>3. Picture \in Nat \ {0} BY <2>2, HeaderOf DEF StockInv
  <2>4. decPc = "frames" BY <2>1 DEF GetFrame, DecStep
  <2>5. ~made => encPc = "none" BY <2>4 DEF Order
  <2>6. RingInv' BY <2>1, <2>3, <2>5, RingOfPicture
  <2>7. made' BY <2>1 DEF AddVideoFrame, AddFirstFrame, AddNextFrame
  <2> QED BY <2>1, <2>2, <2>4, <2>6, <2>7 DEF Order
<1>5. CASE Encoder
  <2>1. EncSteps /\ UNCHANGED <<decVars, opc>> BY <1>5 DEF Encoder
  <2>2. RingInv' /\ StockInv' BY <2>1, SameStock, RingOfWorker, RingOfHardware DEF EncSteps
  <2>3. UNCHANGED <<opc, decPc>> BY <2>1 DEF decVars, threadVars
  <2>4. made' = made /\ (encPc = "none" => encPc' = "none")
        BY <2>1 DEF EncSteps, Worker, Hardware, EncTop, EncIdle, EncPop, EncCopy, EncEncode,
                    EncFails, EncFetch, EncFetched, EncDeliver, EncDelivered, EncFlush, EncStep,
                    workerVars
  <2> QED BY <2>2, <2>3, <2>4 DEF Order
<1>6. CASE Destroy
  <2>1. opc = "open" /\ opc' = "joinDecoder" /\ DecDestroy /\ UNCHANGED encVars
        BY <1>6 DEF Destroy
  <2>2. RingInv' /\ StockInv' BY <2>1, SameRing, StockOfOwner
  <2>3. UNCHANGED <<encPc, made>> BY <2>1 DEF encVars, workerVars
  <2> QED BY <2>1, <2>2, <2>3 DEF Order
<1>7. CASE JoinDecoder
  <2>1. /\ opc' \in {"joinEncoder", "dead"} /\ DecJoin
        /\ EncDestroy \/ UNCHANGED encVars
        BY <1>7 DEF JoinDecoder
  <2>2. RingInv' /\ StockInv' BY <2>1, SameRing, RingOfOwner, StockOfOwner
  <2>3. decPc' = "done" BY <2>1 DEF DecJoin
  <2> QED BY <2>1, <2>2, <2>3 DEF Order
<1>8. CASE JoinEncoder
  <2>1. opc = "joinEncoder" /\ opc' = "dead" /\ EncJoin /\ UNCHANGED decVars
        BY <1>8 DEF JoinEncoder
  <2>2. RingInv' /\ StockInv' BY <2>1, SameStock, RingOfOwner
  <2>3. decPc' = decPc BY <2>1 DEF decVars, threadVars
  <2> QED BY <2>1, <2>2, <2>3 DEF Order
<1> QED BY <1>1, <1>2, <1>3, <1>4, <1>5, <1>6, <1>7, <1>8 DEF Next, Decoder, Teardown

(***************************************************************************)
(* However long the stream and whatever is dropped: a surface of the ring  *)
(* is filled only when the hardware has read it and its packet has been    *)
(* fetched, and exactly the surfaces that are in use are mapped.           *)
(***************************************************************************)
THEOREM RingIsKept == SafeSpec => []RingKept
<1>1. PathInv => RingKept BY KeptRing DEF PathInv
<1> QED BY <1>1, InitPath, StepPath, PTL DEF SafeSpec

(***************************************************************************)
(* Heights.  Packets are decoded one after the other, so the header the    *)
(* parser last called back for is the one of the packet before, and in a   *)
(* plain video FollowDisplay has nothing to follow.                        *)
(***************************************************************************)
Popped == decAdded - Len(es)

HeaderAt(k) == IF k = 0 THEN NoHeader ELSE stream[k]

InTurn ==
  /\ Popped \in Nat
  /\ \A i \in 1..Len(es) : es[i] = Popped + i
  /\ decoding # 0 => decoding = Popped
  /\ decPc \in {"top", "enter"} => decoding = 0 /\ header = HeaderAt(Popped)
  /\ decPc = "parse" /\ decoding # 0 => header \in {HeaderAt(Popped - 1), stream[Popped]}
  /\ decPc \in {"display", "frames"} /\ decoding # 0 => header = stream[Popped]

Sizes ==
  /\ lumaHeight # 0 => lumaHeight = ContainerHeight
  /\ \A k \in 1..Len(stock) : stock[k].size = ContainerHeight
  /\ ~overrun

HeightInv == (decPc # "done" => InTurn) /\ (Plain => Sizes)

(* What the decoder sees of a step. *)
DecNext == DecSteps \/ GetFrame \/ InputVideoData \/ DecDestroy \/ DecJoin

LEMMA StepOfDecoder == [Next]_vars => [DecNext]_decVars
BY DEF Next, vars, OnVideoData, Decoder, OnRGBData, Encoder, Destroy, Teardown, JoinDecoder,
       JoinEncoder, DecNext

LEMMA InitHeight == Init => HeightInv
<1> SUFFICES ASSUME Init PROVE HeightInv OBVIOUS
<1>1. Len(<<>>) = 0 BY EmptySeq
<1>2. /\ Popped = 0 /\ 1..Len(es) = {} /\ decoding = 0 /\ decPc = "top"
      /\ header = NoHeader
  <2>1. decAdded = 0 /\ es = <<>> /\ decoding = 0 /\ decPc = "top" /\ header = NoHeader
        BY DEF Init, DecInit
  <2>2. Len(es) = 0 BY <1>1, <2>1
  <2>3. Popped = 0
    <3>1. decAdded = 0 BY <2>1
    <3> QED BY <2>2, <3>1 DEF Popped
  <2>4. 1..Len(es) = {} BY <2>2
  <2> QED BY <2>1, <2>3, <2>4
<1>4. InTurn BY <1>2 DEF InTurn, HeaderAt
<1>3. Sizes BY <1>1 DEF Init, DecInit, Sizes
<1> QED BY <1>3, <1>4 DEF HeightInv

(* The packets stay in turn. *)
LEMMA StepTurn ==
  ASSUME StockInv, InTurn, DecNext, decPc' # "done"
  PROVE  InTurn'
<1> USE DEF StockInv, DecStep, formatVars, stockVars, threadVars
<1>1. stream' = stream
      BY DEF DecNext, DecSteps, DecTop, DecFlush, DecIdle, DecPop, CreateDecoder,
             ReconfigureThrows, FollowDisplay, ReconfigureScaled, HandlePictureDecode,
             HandlePictureDisplay, DecodeReturns, DecodeEnds, GetFrame, InputVideoData,
             DecDestroy, DecJoin
<1>2. \A k : HeaderAt(k)' = HeaderAt(k) BY <1>1 DEF HeaderAt
<1>3. es \in Seq(1..NumPackets) /\ Len(es) \in Nat /\ decAdded \in Nat
  <2>1. es \in Seq(1..NumPackets) /\ decAdded \in 0..NumPackets BY DEF DecTypeOK
  <2> QED BY <2>1, HeaderOf
<1>4. CASE DecPop
  <2>1. /\ es # <<>> /\ decoding' = Head(es) /\ es' = Tail(es) /\ decPc = "enter"
        /\ decPc' = "parse" /\ UNCHANGED <<decAdded, header>>
        BY <1>4 DEF DecPop
  <2>2. /\ Len(es') = Len(es) - 1 /\ Head(es) = es[1] /\ Len(es) > 0
        /\ \A i \in 1..Len(es') : es'[i] = es[i + 1]
        BY <1>3, <2>1, HeadTailProperties, EmptySeq
  <2>3. Popped' = Popped + 1 BY <1>3, <2>1, <2>2 DEF Popped
  <2>4. 1 \in 1..Len(es) /\ \A i \in 1..Len(es') : i + 1 \in 1..Len(es) BY <1>3, <2>2
  <2>5. decoding' = Popped' BY <2>1, <2>2, <2>3, <2>4 DEF InTurn
  <2>6. Popped \in Nat BY DEF InTurn
  <2>7. ASSUME NEW i \in 1..Len(es') PROVE es'[i] = Popped' + i
    <3>1. es'[i] = Popped + (i + 1) BY <2>2, <2>4 DEF InTurn
    <3> QED BY <1>3, <2>2, <2>3, <2>6, <3>1
  <2>8. (header = HeaderAt(Popped - 1))'
    <3>1. header = HeaderAt(Popped) BY <2>1 DEF InTurn
    <3>2. Popped' - 1 = Popped BY <2>3, <2>6
    <3> QED BY <2>1, <3>1, <3>2, <1>1 DEF HeaderAt
  <2> QED BY <2>1, <2>3, <2>5, <2>6, <2>7, <2>8 DEF InTurn
<1>5. CASE InputVideoData
  <2>1. /\ decAdded' = decAdded + 1 /\ es' = Append(es, decAdded + 1)
        /\ UNCHANGED <<decoding, header, decPc>> /\ decAdded + 1 \in 1..NumPackets
    <3>1. /\ decAdded < NumPackets /\ decAdded' = decAdded + 1 /\ es' = Append(es, decAdded + 1)
          /\ UNCHANGED <<decoding, header, decPc>>
          BY <1>5 DEF InputVideoData, Push
    <3> QED BY <1>3, <3>1, HeaderOf
  <2>2. /\ Len(es') = Len(es) + 1 /\ es'[Len(es) + 1] = decAdded + 1
        /\ \A i \in 1..Len(es) : es'[i] = es[i]
        BY <1>3, <2>1, AppendProperties
  <2>3. Popped' = Popped BY <1>3, <2>1, <2>2 DEF Popped
  <2>4. ASSUME NEW i \in 1..Len(es') PROVE es'[i] = Popped' + i
    <3>1. CASE i \in 1..Len(es) BY <2>2, <2>3, <3>1 DEF InTurn
    <3>2. CASE i = Len(es) + 1
      <4>1. Popped + i = decAdded + 1 BY <1>3, <3>2 DEF Popped
      <4> QED BY <2>2, <2>3, <3>2, <4>1
    <3> QED BY <1>3, <2>2, <3>1, <3>2
  <2>5. HeaderAt(Popped)' = HeaderAt(Popped) /\ HeaderAt(Popped - 1)' = HeaderAt(Popped - 1)
        BY <1>1, <2>3 DEF HeaderAt
  <2> QED BY <1>1, <2>1, <2>3, <2>4, <2>5 DEF InTurn
<1>6. CASE DecNext /\ ~DecPop /\ ~InputVideoData
  <2>1. UNCHANGED <<decAdded, es>>
    <3>1. ~DecJoin BY DEF DecJoin
    <3> QED BY <1>6, <3>1 DEF DecNext, DecSteps, DecTop, DecFlush, DecIdle, CreateDecoder,
             ReconfigureThrows, FollowDisplay, ReconfigureScaled, HandlePictureDecode,
             HandlePictureDisplay, DecodeReturns, DecodeEnds, GetFrame, DecDestroy
  <2>2. Popped' = Popped BY <2>1 DEF Popped
  <2>3. HeaderAt(Popped)' = HeaderAt(Popped) /\ HeaderAt(Popped - 1)' = HeaderAt(Popped - 1)
        /\ stream[Popped]' = stream[Popped]
        BY <1>1, <2>2 DEF HeaderAt
  <2>4. /\ Popped' \in Nat /\ \A i \in 1..Len(es') : es'[i] = Popped' + i
        BY <2>1, <2>2 DEF InTurn
  <2>5. decoding # 0 => HeaderAt(Popped) = stream[Popped] BY DEF InTurn, HeaderAt
  <2>6. /\ decoding' # 0 => decoding' = Popped'
        /\ decPc' \in {"top", "enter"} => decoding' = 0 /\ header' = HeaderAt(Popped)'
        /\ decPc' = "parse" /\ decoding' # 0 => header' \in {HeaderAt(Popped - 1)', stream[Popped]'}
        /\ decPc' \in {"display", "frames"} /\ decoding' # 0 => header' = stream[Popped]'
    <3>1. CASE DecTop \/ DecIdle
          BY <2>2, <2>3, <3>1 DEF DecTop, DecIdle, InTurn
    <3>2. CASE DecFlush
          BY <2>2, <2>3, <3>2 DEF DecFlush, InTurn
    <3>3. CASE CreateDecoder \/ FollowDisplay \/ ReconfigureScaled
      <4>1. decoding # 0 /\ header' = stream[decoding] /\ decoding' = decoding /\ decPc' = "parse"
            BY <3>3 DEF CreateDecoder, FollowDisplay, ReconfigureScaled, NewSequence
      <4> QED BY <2>2, <2>3, <4>1 DEF InTurn
    <3>4. CASE ReconfigureThrows \/ HandlePictureDisplay \/ GetFrame \/ DecDestroy
      <4>1. UNCHANGED <<decoding, header, decPc>>
            BY <3>4 DEF ReconfigureThrows, HandlePictureDisplay, GetFrame, DecDestroy
      <4> QED BY <2>2, <2>3, <4>1 DEF InTurn
    <3>5. CASE HandlePictureDecode
      <4>1. /\ stream[decoding] = header /\ decoding # 0 /\ decPc' = "display"
            /\ UNCHANGED <<decoding, header>>
            BY <3>5 DEF HandlePictureDecode, NewSequence
      <4> QED BY <2>2, <2>3, <4>1 DEF InTurn
    <3>6. CASE DecodeReturns
      <4>1. /\ decPc = "display" \/ decoding = 0
            /\ decPc' = "frames" /\ UNCHANGED <<decoding, header>>
            BY <3>6 DEF DecodeReturns
      <4> QED BY <2>2, <2>3, <4>1 DEF InTurn
    <3>7. CASE DecodeEnds
      <4>1. /\ decoding # 0 /\ decPc = "frames" /\ decPc' = "top" /\ decoding' = 0
            /\ header' = header
            BY <3>7 DEF DecodeEnds
      <4> QED BY <2>3, <2>5, <4>1 DEF InTurn
    <3>8. ~DecJoin BY DEF DecJoin
    <3> QED BY <1>6, <3>1, <3>2, <3>3, <3>4, <3>5, <3>6, <3>7, <3>8 DEF DecNext, DecSteps
  <2> QED BY <2>2, <2>4, <2>6 DEF InTurn
<1> QED BY <1>4, <1>5, <1>6

(* In a plain video every frame is as high as the first header says. *)
LEMMA StepSizes ==
  ASSUME StockInv, InTurn, Sizes, Plain, DecNext
  PROVE  Sizes'
<1> USE DEF StockInv, DecStep, formatVars, stockVars, threadVars
<1>1. ContainerHeight' = ContainerHeight
      BY DEF DecNext, DecSteps, DecTop, DecFlush, DecIdle, DecPop, CreateDecoder,
             ReconfigureThrows, FollowDisplay, ReconfigureScaled, HandlePictureDecode,
             HandlePictureDisplay, DecodeReturns, DecodeEnds, GetFrame, InputVideoData,
             DecDestroy, DecJoin, ContainerHeight
<1>2. CASE UNCHANGED <<lumaHeight, stock, overrun>> BY <1>1, <1>2 DEF Sizes
<1>3. CASE CreateDecoder
  <2>1. /\ lumaHeight = 0 /\ decoding # 0 /\ header # stream[decoding] /\ decPc = "parse"
        /\ lumaHeight' = stream[decoding].display /\ UNCHANGED <<stock, overrun>>
        BY <1>3 DEF CreateDecoder, NewSequence
  <2>2. decoding = Popped /\ header \in {HeaderAt(Popped - 1), stream[Popped]} /\ Popped \in Nat
        BY <2>1 DEF InTurn
  <2>3. header = HeaderAt(Popped - 1) BY <2>1, <2>2
  <2>4. header \notin Headers
    <3>1. header = NoHeader BY <2>1 DEF Heads
    <3> QED BY <3>1, HeaderOf
  <2>5. Popped = 1
    <3>1. Popped \in 1..NumPackets BY <2>1, <2>2, HeaderOf DEF DecTypeOK
    <3>2. CASE Popped - 1 # 0
      <4>1. Popped - 1 \in 1..NumPackets BY <3>1, <3>2, HeaderOf
      <4>2. header \in Headers BY <2>3, <3>2, <4>1, HeaderOf DEF HeaderAt
      <4> QED BY <2>4, <4>2
    <3> QED BY <2>2, <3>2
  <2>6. lumaHeight' = ContainerHeight BY <2>1, <2>2, <2>5 DEF ContainerHeight
  <2> QED BY <1>1, <2>1, <2>6 DEF Sizes
<1>4. CASE FollowDisplay
  <2> DEFINE h == stream[decoding]
             g == stream[Popped - 1]
  <2>1. /\ lumaHeight # 0 /\ decoding # 0 /\ header # h /\ decPc = "parse"
        /\ h.coded = format.coded
        BY <1>4 DEF FollowDisplay, NewSequence
  <2>2. decoding = Popped /\ header \in {HeaderAt(Popped - 1), stream[Popped]} /\ Popped \in Nat
        BY <2>1 DEF InTurn
  <2>3. header = HeaderAt(Popped - 1) BY <2>1, <2>2
  <2>4. header \in Headers /\ header.coded = h.coded BY <2>1 DEF Heads
  <2>5. Popped - 1 # 0 BY <2>3, <2>4, HeaderOf DEF HeaderAt
  <2>6. header = g BY <2>3, <2>5 DEF HeaderAt
  <2>7. Popped \in 2..NumPackets
    <3>1. Popped \in 1..NumPackets BY <2>1, <2>2, HeaderOf DEF DecTypeOK
    <3> QED BY <2>5, <3>1, HeaderOf
  <2>8. h \in Headers
    <3>1. Popped \in 1..NumPackets BY <2>7, HeaderOf
    <3> QED BY <2>2, <3>1, HeaderOf
  <2>9. h.display # g.display
    <3>1. \A a, b \in Headers : a.coded = b.coded /\ a.display = b.display => a = b
          BY DEF Headers
    <3> QED BY <2>1, <2>4, <2>6, <2>8, <3>1
  <2>10. h.coded # g.coded BY <2>2, <2>7, <2>9 DEF Plain
  <2> QED BY <2>4, <2>6, <2>10
<1>5. CASE ReconfigureScaled
      BY <1>1, <1>5 DEF ReconfigureScaled, ScaledHeight, Sizes
<1>6. CASE HandlePictureDisplay
  <2>1. /\ overrun' = (overrun \/ stock'[decoded'].size < lumaHeight)
        /\ decoded' = decoded + 1 /\ lumaHeight' = lumaHeight
        BY <1>6 DEF HandlePictureDisplay
  <2>2. lumaHeight = ContainerHeight /\ lumaHeight \in Nat
        BY <1>6, StockOfDisplay DEF Heads, Sizes, DecTypeOK
  <2>3. \A k \in 1..Len(stock') : stock'[k].size = lumaHeight
        BY <1>6, <2>2, StockOfDisplay DEF Sizes
  <2>4. decoded' \in 1..Len(stock')
    <3>1. StockInv' /\ decoded + 1 \in Nat \ {0} /\ decoded + 1 <= Len(stock')
          BY <1>6, StockOfDisplay
    <3>2. Len(stock') \in Nat BY <3>1 DEF DecTypeOK
    <3> QED BY <2>1, <3>1, <3>2
  <2>5. ~overrun'
    <3>1. stock'[decoded'].size = lumaHeight BY <2>3, <2>4
    <3>2. ~(lumaHeight < lumaHeight) BY <2>2
    <3>3. ~(stock'[decoded'].size < lumaHeight) BY <3>1, <3>2
    <3> QED BY <2>1, <3>3 DEF Sizes
  <2> QED BY <1>1, <2>1, <2>2, <2>3, <2>5 DEF Sizes
<1>7. CASE GetFrame
  <2>1. /\ overrun' = (overrun \/ stock[returned + 1].size < ContainerHeight)
        /\ UNCHANGED <<stock, lumaHeight>>
        BY <1>7 DEF GetFrame
  <2>2. stock[returned + 1].size = ContainerHeight BY <1>7, StockOfGet DEF Sizes
  <2>3. ~(ContainerHeight < ContainerHeight)
    <3>1. stream[1] \in Headers
      <4>1. NumPackets \in Nat /\ Picture \in 1..NumPackets BY <1>7, StockOfGet, HeaderOf
      <4>2. 1 \in 1..NumPackets BY <4>1
      <4> QED BY <4>2, HeaderOf
    <3>2. ContainerHeight \in Nat BY <3>1, HeaderOf DEF ContainerHeight
    <3> QED BY <3>2
  <2>4. ~overrun' BY <2>1, <2>2, <2>3 DEF Sizes
  <2> QED BY <1>1, <2>1, <2>4 DEF Sizes
<1>8. CASE DecJoin
  <2>1. stock' = <<>> /\ UNCHANGED <<lumaHeight, overrun>> BY <1>8 DEF DecJoin
  <2>2. Len(stock') = 0 BY <2>1, EmptySeq
  <2> QED BY <1>1, <2>1, <2>2 DEF Sizes
<1>9. CASE DecTop \/ DecFlush \/ DecIdle \/ DecPop \/ ReconfigureThrows \/ HandlePictureDecode
           \/ DecodeReturns \/ DecodeEnds \/ InputVideoData \/ DecDestroy
      BY <1>2, <1>9 DEF DecTop, DecFlush, DecIdle, DecPop, ReconfigureThrows, HandlePictureDecode,
                        DecodeReturns, DecodeEnds, InputVideoData, DecDestroy
<1> QED BY <1>3, <1>4, <1>5, <1>6, <1>7, <1>8, <1>9 DEF DecNext, DecSteps

(* When the thread has ended nothing is written or read. *)
LEMMA SizesAtEnd ==
  ASSUME Sizes, DecNext, decPc = "done"
  PROVE  Sizes'
<1>1. InputVideoData \/ DecDestroy \/ DecJoin
      BY DEF DecNext, DecSteps, DecTop, DecFlush, DecIdle, DecPop, CreateDecoder,
             ReconfigureThrows, FollowDisplay, ReconfigureScaled, HandlePictureDecode,
             HandlePictureDisplay, DecodeReturns, DecodeEnds, GetFrame, DecStep
<1>2. UNCHANGED <<stream, lumaHeight, overrun>> /\ stock' \in {stock, <<>>}
      BY <1>1 DEF InputVideoData, DecDestroy, DecJoin, threadVars, formatVars, stockVars
<1>3. ContainerHeight' = ContainerHeight BY <1>2 DEF ContainerHeight
<1>4. Len(<<>>) = 0 BY EmptySeq
<1> QED BY <1>2, <1>3, <1>4 DEF Sizes

LEMMA StepHeight == PathInv /\ HeightInv /\ [Next]_vars => HeightInv'
<1> SUFFICES ASSUME PathInv, HeightInv, [Next]_vars PROVE HeightInv' OBVIOUS
<1>1. StockInv BY DEF PathInv
<1>2. [DecNext]_decVars BY StepOfDecoder
<1>3. CASE UNCHANGED decVars
      BY <1>3 DEF decVars, threadVars, formatVars, stockVars, HeightInv, InTurn, Popped, HeaderAt,
                  Sizes, ContainerHeight, Plain, NumPackets
<1>4. CASE DecNext
  <2>1. Plain' <=> Plain
    <3>1. stream' = stream
          BY <1>4 DEF DecNext, DecSteps, DecTop, DecFlush, DecIdle, DecPop, CreateDecoder,
             ReconfigureThrows, FollowDisplay, ReconfigureScaled, HandlePictureDecode,
             HandlePictureDisplay, DecodeReturns, DecodeEnds, GetFrame, InputVideoData,
             DecDestroy, DecJoin, DecStep
    <3> QED BY <3>1 DEF Plain, NumPackets
  <2>2. decPc' # "done" => decPc # "done"
        BY <1>4 DEF DecNext, DecSteps, DecTop, DecFlush, DecIdle, DecPop, CreateDecoder,
             ReconfigureThrows, FollowDisplay, ReconfigureScaled, HandlePictureDecode,
             HandlePictureDisplay, DecodeReturns, DecodeEnds, GetFrame, InputVideoData,
             DecDestroy, DecJoin, DecStep, threadVars
  <2>3. decPc' # "done" => InTurn' BY <1>1, <1>4, <2>2, StepTurn DEF HeightInv
  <2>4. Plain => Sizes' BY <1>1, <1>4, StepSizes, SizesAtEnd DEF HeightInv
  <2> QED BY <2>1, <2>3, <2>4 DEF HeightInv
<1> QED BY <1>2, <1>3, <1>4

(***************************************************************************)
(* In a video whose displayed height changes only along with its coded     *)
(* height, however the sizes change and whatever the parser keeps back: no *)
(* frame is written or read past its end, and the stock stays bounded.     *)
(***************************************************************************)
THEOREM FramesAreWhole == SafeSpec => []FramesWhole
<1>1. PathInv /\ HeightInv => FramesWhole
      BY DEF PathInv, StockInv, Stage, HeightInv, Sizes, FramesWhole
<1>2. Init => PathInv /\ HeightInv BY InitPath, InitHeight
<1>3. PathInv /\ HeightInv /\ [Next]_vars => PathInv' /\ HeightInv' BY StepPath, StepHeight
<1> QED BY <1>1, <1>2, <1>3, PTL DEF SafeSpec

(***************************************************************************)
(* The path as a LossyFifo.  A window lo..hi-1 of the values of g, as the  *)
(* frames that are still to be taken and the slots sent and not fetched.   *)
(***************************************************************************)
Segment(g, lo, hi) == [k \in 1..(hi - lo) |-> g[lo + k - 1]]

LEMMA SegmentIs ==
  ASSUME NEW S, NEW g \in Maps(Nat, S), NEW lo \in Nat, NEW hi \in Nat, lo <= hi,
         NEW n, hi - lo = n, NEW f \in [1..n -> S], \A k \in 1..n : f[k] = g[lo + k - 1]
  PROVE  f = Segment(g, lo, hi)
<1>1. DOMAIN Segment(g, lo, hi) = 1..n
      /\ \A k \in 1..n : Segment(g, lo, hi)[k] = g[lo + k - 1]
      BY DEF Segment
<1>2. Segment(g, lo, hi) = [k \in 1..n |-> Segment(g, lo, hi)[k]] BY <1>1 DEF Segment
<1> QED BY <1>1, <1>2

LEMMA SegmentSeq ==
  ASSUME NEW S, NEW g \in Maps(Nat, S), NEW lo \in Nat, NEW hi \in Nat, lo <= hi
  PROVE  Segment(g, lo, hi) \in Seq(S) /\ Len(Segment(g, lo, hi)) = hi - lo
<1>1. hi - lo \in Nat /\ \A k \in 1..(hi - lo) : lo + k - 1 \in Nat OBVIOUS
<1>2. Segment(g, lo, hi) \in [1..(hi - lo) -> S] BY <1>1 DEF Segment, Maps
<1>3. DOMAIN Segment(g, lo, hi) = 1..(hi - lo) BY DEF Segment
<1>4. Segment(g, lo, hi) \in Seq(S) BY <1>1, <1>2
<1> QED BY <1>1, <1>3, <1>4, LenProperties

LEMMA SegmentSame ==
  ASSUME NEW g, NEW h, NEW lo \in Nat, NEW hi \in Nat, \A i \in lo..(hi - 1) : g[i] = h[i]
  PROVE  Segment(g, lo, hi) = Segment(h, lo, hi)
<1>1. \A k \in 1..(hi - lo) : lo + k - 1 \in lo..(hi - 1) OBVIOUS
<1>2. \A k \in 1..(hi - lo) : g[lo + k - 1] = h[lo + k - 1] BY <1>1
<1> QED BY <1>2 DEF Segment

LEMMA SegmentAppend ==
  ASSUME NEW S, NEW g \in Maps(Nat, S), NEW lo \in Nat, NEW hi \in Nat, lo <= hi
  PROVE  Segment(g, lo, hi + 1) = Append(Segment(g, lo, hi), g[hi])
<1> DEFINE l == Segment(g, lo, hi + 1)
           s == Segment(g, lo, hi)
           r == Append(s, g[hi])
           n == hi - lo
<1>1. n \in Nat /\ hi + 1 \in Nat /\ lo <= hi + 1 /\ (hi + 1) - lo = n + 1 OBVIOUS
<1>2. s \in Seq(S) /\ Len(s) = n BY SegmentSeq
<1>3. l \in Seq(S) /\ Len(l) = n + 1
  <2>1. Segment(g, lo, hi + 1) \in Seq(S) /\ Len(Segment(g, lo, hi + 1)) = (hi + 1) - lo
        BY <1>1, SegmentSeq
  <2> QED BY <1>1, <2>1
<1>4. \A k \in 1..n : s[k] = g[lo + k - 1] BY DEF Segment
<1>5. \A k \in 1..(n + 1) : l[k] = g[lo + k - 1] BY <1>1 DEF Segment
<1>6. lo + (n + 1) - 1 = hi OBVIOUS
<1> HIDE DEF l, s
<1>7. /\ r \in Seq(S) /\ Len(r) = n + 1
      /\ \A k \in 1..n : r[k] = s[k]
      /\ r[n + 1] = g[hi]
  <2>1. g[hi] \in S BY DEF Maps
  <2> QED BY <1>2, <2>1, AppendProperties
<1> HIDE DEF n
<1>8. \A k \in 1..(n + 1) : k \in 1..n \/ k = n + 1 BY <1>1
<1>9. \A k \in 1..(n + 1) : l[k] = r[k] BY <1>4, <1>5, <1>6, <1>7, <1>8
<1>10. l = r BY <1>3, <1>7, <1>9, SeqEqual
<1> QED BY <1>10 DEF l, s

LEMMA SegmentPop ==
  ASSUME NEW S, NEW g \in Maps(Nat, S), NEW lo \in Nat, NEW hi \in Nat, lo < hi
  PROVE  /\ Segment(g, lo, hi) # <<>> /\ Head(Segment(g, lo, hi)) = g[lo]
         /\ Segment(g, lo + 1, hi) = Tail(Segment(g, lo, hi))
<1> DEFINE s == Segment(g, lo, hi)
           l == Segment(g, lo + 1, hi)
           n == hi - (lo + 1)
<1>1. n \in Nat /\ lo + 1 \in Nat /\ lo + 1 <= hi /\ lo <= hi /\ hi - lo = n + 1
      /\ lo + 1 - 1 = lo
      OBVIOUS
<1>2. s \in Seq(S) /\ Len(s) = n + 1
  <2>1. Segment(g, lo, hi) \in Seq(S) /\ Len(Segment(g, lo, hi)) = hi - lo
        BY <1>1, SegmentSeq
  <2> QED BY <1>1, <2>1
<1>3. l \in Seq(S) /\ Len(l) = n BY <1>1, SegmentSeq
<1>4. \A k \in 1..(n + 1) : s[k] = g[lo + k - 1] BY <1>1 DEF Segment
<1>5. \A k \in 1..n : l[k] = g[(lo + 1) + k - 1] BY DEF Segment
<1>6. s[1] = g[lo]
  <2>1. 1 \in 1..(n + 1) BY <1>1
  <2> QED BY <1>1, <1>4, <2>1
<1> HIDE DEF l, s, n
<1>7. s # <<>> BY <1>1, <1>2, EmptySeq
<1>8. /\ Head(s) = s[1] /\ Tail(s) \in Seq(S) /\ Len(Tail(s)) = n
      /\ \A k \in 1..n : Tail(s)[k] = s[k + 1]
  <2>1. /\ Tail(s) \in Seq(S) /\ Len(Tail(s)) = Len(s) - 1
        /\ \A k \in 1..Len(Tail(s)) : Tail(s)[k] = s[k + 1]
        BY <1>2, <1>7, HeadTailProperties
  <2> QED BY <1>1, <1>2, <2>1
<1>9. \A k \in 1..n : Tail(s)[k] = l[k]
  <2> SUFFICES ASSUME NEW k \in 1..n PROVE Tail(s)[k] = l[k] OBVIOUS
  <2>1. k + 1 \in 1..(n + 1) /\ lo + (k + 1) - 1 = (lo + 1) + k - 1 BY <1>1
  <2>2. s[k + 1] = g[lo + (k + 1) - 1] BY <1>4, <2>1
  <2> QED BY <1>5, <1>8, <2>1, <2>2
<1>10. Tail(s) = l BY <1>3, <1>8, <1>9, SeqEqual
<1> QED BY <1>6, <1>7, <1>8, <1>10 DEF l, s

(***************************************************************************)
(* What the worker has in hand, and when; what the hardware has encoded is *)
(* what the surface still holds; nothing is displayed or popped before the *)
(* next Decode.                                                            *)
(***************************************************************************)
InHand ==
  /\ encoding # 0 <=> encPc \in {"copy", "encode"}
  /\ encPc = "encode" => input[Slot(iToSend)] = encoding

Encoded == \A i \in iGot..(iToSend - Len(work) - 1) : bitstream[Slot(i)] = input[Slot(i)]

Taken ==
  /\ decPc \in {"top", "enter", "done"} => decoded = 0
  /\ decPc \in {"top", "enter"} => decoding = 0

Hands == InHand /\ Encoded /\ Taken

LEMMA InitHands == Init => Hands
<1> SUFFICES ASSUME Init PROVE Hands OBVIOUS
<1>1. InHand /\ Taken BY DEF Init, EncInit, DecInit, InHand, Taken
<1>2. Encoded
  <2>1. iGot = 0 /\ iToSend = 0 /\ Len(work) = 0 BY DEF Init, EncInit
  <2>2. iGot..(iToSend - Len(work) - 1) = {} BY <2>1
  <2> QED BY <2>2 DEF Encoded
<1> QED BY <1>1, <1>2 DEF Hands

LEMMA RingNumbers ==
  ASSUME RingInv
  PROVE  /\ iToSend \in Nat /\ iGot \in Nat /\ EncoderBuffer \in Nat
         /\ work \in Seq(Slots) /\ Len(work) \in Nat
         /\ input \in [Slots -> Nat] /\ bitstream \in [Slots -> Nat]
         /\ Slot(iToSend) \in Slots /\ Slot(iGot) \in Slots
         /\ iGot <= iToSend /\ iToSend - iGot <= EncoderBuffer
         /\ Len(work) <= iToSend - iGot
<1>1. /\ iToSend \in Nat /\ iGot \in Nat /\ work \in Seq(Slots) /\ Len(work) \in Nat
      /\ input \in [Slots -> Nat] /\ bitstream \in [Slots -> Nat]
      BY DEF RingInv, EncTypeOK
<1>2. EncoderBuffer \in Nat /\ OutputDelay <= EncoderBuffer BY Ring
<1>3. Slot(iToSend) \in Slots /\ Slot(iGot) \in Slots BY <1>1, Ring
<1>4. /\ iGot <= iToSend /\ Len(work) <= iToSend - iGot
      /\ iToSend - iGot <= EncoderBuffer \/ iToSend - iGot <= OutputDelay
      BY DEF RingInv, Window
<1>5. OutputDelay \in Int BY <1>2, Ring
<1>6. iToSend - iGot <= EncoderBuffer BY <1>1, <1>2, <1>4, <1>5
<1> QED BY <1>1, <1>2, <1>3, <1>4, <1>6

LEMMA HandsOfWorker ==
  ASSUME RingInv, InHand, Encoded, Worker
  PROVE  InHand' /\ Encoded'
<1> USE DEF EncStep, ringVars
<1>1. CASE EncTop \/ EncIdle \/ EncFails \/ EncFetched \/ EncDeliver \/ EncDelivered \/ EncFlush
  <2>1. UNCHANGED <<encoding, input, iToSend, iGot, work, bitstream>>
        BY <1>1 DEF EncTop, EncIdle, EncFails, EncFetched, EncDeliver, EncDelivered, EncFlush
  <2>2. \/ encPc = "encode" /\ encPc' = "encode"
        \/ encPc \notin {"copy", "encode"} /\ encPc' \notin {"copy", "encode"}
        BY <1>1 DEF EncTop, EncIdle, EncFails, EncFetched, EncDeliver, EncDelivered, EncFlush
  <2> QED BY <2>1, <2>2 DEF InHand, Encoded
<1>2. CASE EncPop
  <2>1. /\ UNCHANGED <<input, iToSend, iGot, work, bitstream>> /\ encPc' = "copy"
        /\ bgr # <<>> /\ encoding' = Head(bgr) /\ bgr \in Seq(Nat \ {0})
        BY <1>2 DEF EncPop, RingInv, EncTypeOK
  <2>2. encoding' # 0 BY <2>1, Concat
  <2> QED BY <2>1, <2>2 DEF InHand, Encoded
<1>3. CASE EncCopy
  <2> DEFINE s == Slot(iToSend)
  <2>1. /\ encPc = "copy" /\ encPc' = "encode" /\ input' = [input EXCEPT ![s] = encoding]
        /\ UNCHANGED <<encoding, iToSend, iGot, work, bitstream>>
        BY <1>3 DEF EncCopy, CopyToDeviceFrame, NextInputFrame
  <2>2. /\ iToSend \in Nat /\ iGot \in Nat /\ Len(work) \in Nat /\ input \in [Slots -> Nat]
        /\ s \in Slots
        BY RingNumbers
  <2>3. iToSend - iGot < EncoderBuffer
        BY <2>1, <2>2, Ring DEF RingInv, Window
  <2>4. \A i \in iGot..(iToSend - 1) : Slot(i) # s BY <2>2, <2>3, Ring
  <2>5. \A i \in iGot..(iToSend - Len(work) - 1) : i \in iGot..(iToSend - 1) /\ Slot(i) \in Slots
        BY <2>2, Ring
  <2> HIDE DEF s
  <2>6. Encoded' BY <2>1, <2>2, <2>4, <2>5 DEF Encoded
  <2>7. input'[s] = encoding /\ s' = s BY <2>1, <2>2 DEF s
  <2> QED BY <2>1, <2>6, <2>7 DEF InHand, s
<1>4. CASE EncEncode
  <2>1. /\ encPc = "encode" /\ encPc' = "fetch" /\ encoding' = 0 /\ iToSend' = iToSend + 1
        /\ work' = Append(work, Slot(iToSend)) /\ UNCHANGED <<input, bitstream, iGot>>
        BY <1>4 DEF EncEncode, DoEncode, NextInputFrame
  <2>2. iToSend \in Nat /\ work \in Seq(Slots) /\ Slot(iToSend) \in Slots
        BY RingNumbers
  <2>3. Len(work') = Len(work) + 1 /\ Len(work) \in Nat BY <2>1, <2>2, AppendProperties
  <2>4. iToSend' - Len(work') - 1 = iToSend - Len(work) - 1 BY <2>1, <2>2, <2>3
  <2> QED BY <2>1, <2>4 DEF InHand, Encoded
<1>5. CASE EncFetch
  <2> DEFINE s == Slot(iGot)
  <2>1. /\ encPc = "fetch" /\ encPc' = "fetch" /\ bitstream[s] # 0 /\ iGot' = iGot + 1
        /\ bitstream' = [bitstream EXCEPT ![s] = 0]
        /\ UNCHANGED <<encoding, input, iToSend, work>>
        BY <1>5 DEF EncFetch
  <2>2. /\ iToSend \in Nat /\ iGot \in Nat /\ Len(work) \in Nat /\ s \in Slots
        /\ bitstream \in [Slots -> Nat]
        BY RingNumbers
  <2>3. iGot <= iToSend /\ iToSend - iGot <= EncoderBuffer /\ EncoderBuffer \in Nat
        BY RingNumbers
  <2>4. ASSUME NEW i \in iGot'..(iToSend' - Len(work') - 1)
        PROVE  bitstream'[Slot(i)] = input'[Slot(i)]
    <3>1. i \in iGot..(iToSend - Len(work) - 1) /\ i \in Nat /\ iGot < i
          /\ i - iGot < EncoderBuffer
          BY <2>1, <2>2, <2>3
    <3>2. Slot(i) # s /\ Slot(i) \in Slots BY <2>2, <3>1, Ring
    <3>3. bitstream[Slot(i)] = input[Slot(i)] BY <3>1 DEF Encoded
    <3> HIDE DEF s
    <3> QED BY <2>1, <2>2, <3>2, <3>3
  <2> QED BY <2>1, <2>4 DEF InHand, Encoded
<1> QED BY <1>1, <1>2, <1>3, <1>4, <1>5 DEF Worker

LEMMA HandsOfHardware ==
  ASSUME RingInv, InHand, Encoded, Hardware
  PROVE  InHand' /\ Encoded'
<1> DEFINE h == Head(work)
           e == iToSend - Len(work)
<1>1. /\ bitstream' = [bitstream EXCEPT ![h] = input[h]] /\ work' = Tail(work)
      /\ UNCHANGED <<encoding, encPc, input, iToSend, iGot>> /\ Len(work) > KeptBack
      BY DEF Hardware, workerVars
<1>2. /\ iToSend \in Nat /\ iGot \in Nat /\ work \in Seq(Slots) /\ Len(work) \in Nat
      /\ bitstream \in [Slots -> Nat] /\ iGot <= iToSend /\ iToSend - iGot <= EncoderBuffer
      /\ EncoderBuffer \in Nat /\ Len(work) <= iToSend - iGot
      BY RingNumbers
<1>3. KeptBack \in Nat BY NvEncoderAssumption DEF KeptBack
<1>4. Len(work) >= 1 /\ work # <<>> BY <1>1, <1>2, <1>3
<1>5. Len(work') = Len(work) - 1 /\ h \in Slots BY <1>1, <1>2, <1>4, Concat, HeadTailProperties
<1>6. h = Slot(e) /\ e \in Nat /\ iGot <= e
  <2>1. h = work[1] /\ 1 \in 1..Len(work) BY <1>2, <1>4
  <2>2. iToSend - Len(work) + 1 - 1 = e BY <1>2
  <2>3. work[1] = Slot(iToSend - Len(work) + 1 - 1) BY <2>1 DEF RingInv, Window
  <2>4. e \in Nat /\ iGot <= e BY <1>2
  <2> QED BY <2>1, <2>2, <2>3, <2>4
<1>7. iToSend' - Len(work') - 1 = e
  <2>1. iToSend' = iToSend /\ Len(work') = Len(work) - 1 BY <1>1, <1>5
  <2> QED BY <1>2, <2>1
<1>8. e < iGot + EncoderBuffer BY <1>2, <1>4
<1> HIDE DEF h, e
<1>9. ASSUME NEW i \in iGot..e PROVE bitstream'[Slot(i)] = input[Slot(i)]
  <2>1. CASE i = e BY <1>1, <1>2, <1>5, <1>6, <2>1
  <2>2. CASE i # e
    <3>1. i \in Nat /\ i < e /\ e - i < EncoderBuffer BY <1>2, <1>6, <1>8, <2>2
    <3>2. Slot(i) # Slot(e) /\ Slot(i) \in Slots BY <1>6, <3>1, Ring
    <3>3. i \in iGot..(iToSend - Len(work) - 1) BY <1>2, <1>6, <3>1 DEF e
    <3>4. bitstream[Slot(i)] = input[Slot(i)] BY <3>3 DEF Encoded
    <3> QED BY <1>1, <1>2, <1>6, <3>2, <3>4
  <2> QED BY <2>1, <2>2
<1>10. Encoded' BY <1>1, <1>7, <1>9 DEF Encoded
<1> QED BY <1>1, <1>10 DEF InHand

LEMMA StepHands == PathInv /\ Hands /\ [Next]_vars => Hands'
<1> SUFFICES ASSUME PathInv, Hands, [Next]_vars PROVE Hands' OBVIOUS
<1> USE DEF PathInv, Hands
<1>1. UNCHANGED encVars => InHand' /\ Encoded'
      BY DEF encVars, ringVars, workerVars, InHand, Encoded
<1>2. UNCHANGED decVars => Taken'
      BY DEF decVars, threadVars, stockVars, Taken
<1>3. CASE UNCHANGED vars BY <1>1, <1>2, <1>3 DEF vars
<1>4. CASE OnVideoData \/ Destroy
  <2>1. UNCHANGED encVars BY <1>4 DEF OnVideoData, Destroy
  <2>2. UNCHANGED <<decPc, decoded, decoding>>
        BY <1>4 DEF OnVideoData, Destroy, InputVideoData, DecDestroy, threadVars, stockVars
  <2> QED BY <1>1, <2>1, <2>2 DEF Taken
<1>5. CASE DecSteps /\ UNCHANGED <<encVars, opc>>
  <2>1. Taken'
        BY <1>5 DEF Taken, DecSteps, DecTop, DecFlush, DecIdle, DecPop, CreateDecoder,
                    ReconfigureThrows, FollowDisplay, ReconfigureScaled, HandlePictureDecode,
                    HandlePictureDisplay, DecodeReturns, DecodeEnds, DecStep, stockVars
  <2> QED BY <1>1, <1>5, <2>1
<1>6. CASE OnRGBData
  <2>1. GetFrame /\ AddVideoFrame(Picture) BY <1>6 DEF OnRGBData
  <2>2. decPc = "frames" /\ decPc' = "frames" BY <2>1 DEF GetFrame, DecStep
  <2>3. Taken' BY <2>2 DEF Taken
  <2>4. CASE AddNextFrame(Picture)
    <3>1. UNCHANGED <<encoding, encPc, input, iToSend, iGot, work, bitstream>>
          BY <2>4 DEF AddNextFrame, ringVars, workerVars
    <3> QED BY <2>3, <3>1 DEF InHand, Encoded
  <2>5. CASE AddFirstFrame(Picture)
    <3>1. /\ ~made /\ encPc' = "top" /\ UNCHANGED <<encoding, iToSend, iGot, work>>
          BY <2>5 DEF AddFirstFrame
    <3>2. encPc = "none" /\ iGot = iToSend BY <2>2, <3>1 DEF Order, RingInv, Making
    <3>3. InHand' BY <3>1, <3>2 DEF InHand
    <3>4. Len(work) \in Nat /\ iToSend \in Nat BY DEF RingInv, EncTypeOK
    <3>5. iGot'..(iToSend' - Len(work') - 1) = {} BY <3>1, <3>2, <3>4
    <3> QED BY <2>3, <3>3, <3>5 DEF Encoded
  <2> QED BY <2>1, <2>4, <2>5 DEF AddVideoFrame
<1>7. CASE Encoder
  <2>1. EncSteps /\ UNCHANGED decVars BY <1>7 DEF Encoder
  <2> QED BY <1>2, <2>1, HandsOfWorker, HandsOfHardware DEF EncSteps
<1>8. CASE JoinDecoder
  <2>1. UNCHANGED <<decPc, decoded, decoding>> BY <1>8 DEF JoinDecoder, DecJoin
  <2>2. UNCHANGED <<encoding, encPc, input, iToSend, iGot, work, bitstream>>
        BY <1>8 DEF JoinDecoder, EncDestroy, encVars, ringVars, workerVars
  <2> QED BY <2>1, <2>2 DEF InHand, Encoded, Taken
<1>9. CASE JoinEncoder
  <2>1. EncJoin /\ UNCHANGED decVars BY <1>9 DEF JoinEncoder
  <2>2. encPc = "done" /\ UNCHANGED <<encPc, encoding, iToSend, iGot, work>>
        BY <2>1 DEF EncJoin, workerVars
  <2>3. iGot = iToSend /\ Len(work) \in Nat /\ iToSend \in Nat
        BY <2>2 DEF RingInv, EncTypeOK, Ending
  <2>4. iGot'..(iToSend' - Len(work') - 1) = {} BY <2>2, <2>3
  <2>5. Encoded' BY <2>4 DEF Encoded
  <2> QED BY <1>2, <2>1, <2>2, <2>5 DEF InHand
<1> QED BY <1>3, <1>4, <1>5, <1>6, <1>7, <1>8, <1>9 DEF Next, Decoder, Teardown

(***************************************************************************)
(* The path from the decoder's list forward to the packets, as what is at  *)
(* a place or behind it.                                                   *)
(***************************************************************************)
Surface == [i \in Nat |-> input[Slot(i)]]
Frame == [i \in Nat |-> IF i \in DOMAIN stock THEN stock[i].pic ELSE 0]

AtParse == Cat(Parsing, es)
AtParser == Cat(parser, AtParse)
AtTake == Cat(ToTake, AtParser)
AtBgr == Cat(bgr, AtTake)
AtEncoding == Cat(One(encoding), AtBgr)
AtRing == Cat(InRing, AtEncoding)
Inside == Cat(fetched, AtRing)

FlowParts ==
  /\ es \in Seq(Nat) /\ Parsing \in Seq(Nat) /\ parser \in Seq(Nat) /\ ToTake \in Seq(Nat)
  /\ bgr \in Seq(Nat) /\ One(encoding) \in Seq(Nat) /\ InRing \in Seq(Nat)
  /\ fetched \in Seq(Nat)
  /\ AtParse \in Seq(Nat) /\ AtParser \in Seq(Nat) /\ AtTake \in Seq(Nat) /\ AtBgr \in Seq(Nat)
  /\ AtEncoding \in Seq(Nat) /\ AtRing \in Seq(Nat) /\ Inside \in Seq(Nat)
  /\ Surface \in Maps(Nat, Nat) /\ InRing = Segment(Surface, iGot, iToSend)
  /\ Frame \in Maps(Nat, Nat)
  /\ returned + decoded <= Len(stock) =>
       ToTake = Segment(Frame, returned + 1, returned + decoded + 1)

LEMMA Ones ==
  /\ \A x \in Nat : One(x) \in Seq(Nat)
  /\ \A x \in Nat \ {0} : One(x) = <<x>>
  /\ One(0) = <<>> /\ <<>> \in Seq(Nat)
<1>1. <<>> \in Seq(Nat) /\ \A x \in Nat : <<x>> \in Seq(Nat) BY Concat
<1> QED BY <1>1 DEF One

LEMMA StockTypes ==
  ASSUME DecTypeOK
  PROVE  /\ es \in Seq(Nat) /\ parser \in Seq(Nat) /\ decoding \in Nat
         /\ \A k \in DOMAIN stock : stock[k].pic \in Nat \ {0}
         /\ DOMAIN stock = 1..Len(stock) /\ Len(stock) \in Nat
         /\ decoded \in Nat /\ returned \in Nat
<1>1. /\ NumPackets \in Nat /\ es \in Seq(1..NumPackets) /\ parser \in Seq(1..NumPackets)
      /\ decoding \in 0..NumPackets /\ stock \in Seq([size : Nat, pic : 1..NumPackets])
      /\ decoded \in Nat /\ returned \in Nat
      BY HeaderOf DEF DecTypeOK
<1>2. es \in Seq(Nat) /\ parser \in Seq(Nat)
  <2>1. 1..NumPackets \subseteq Nat BY <1>1
  <2> DEFINE I == 1..NumPackets
  <2> HIDE DEF I
  <2>2. I \subseteq Nat /\ es \in Seq(I) /\ parser \in Seq(I) BY <1>1, <2>1 DEF I
  <2>3. es \in Seq(Nat) /\ parser \in Seq(Nat) BY <2>2, SeqMonotonic
  <2> QED BY <2>3
<1>3. \A k \in DOMAIN stock : stock[k].pic \in Nat \ {0}
  <2> DEFINE F == [size : Nat, pic : 1..NumPackets]
  <2>1. \A f \in F : f.pic \in Nat \ {0} BY <1>1
  <2>2. stock \in Seq(F) BY <1>1
  <2> HIDE DEF F
  <2>3. \A k \in DOMAIN stock : stock[k] \in F BY <2>2, ElementOfSeq
  <2> QED BY <2>1, <2>3
<1>4. DOMAIN stock = 1..Len(stock) /\ Len(stock) \in Nat BY <1>1
<1>5. decoding \in Nat BY <1>1
<1> QED BY <1>1, <1>2, <1>3, <1>4, <1>5

LEMMA Parts == PathInv /\ Hands => FlowParts
<1> SUFFICES ASSUME PathInv, Hands PROVE FlowParts OBVIOUS
<1>1. RingInv /\ DecTypeOK BY DEF PathInv, StockInv
<1>2. /\ es \in Seq(Nat) /\ parser \in Seq(Nat) /\ decoding \in Nat /\ encoding \in Nat
      /\ fetched \in Seq(Nat) /\ bgr \in Seq(Nat)
      BY <1>1, StockTypes DEF RingInv, EncTypeOK
<1>3. Parsing \in Seq(Nat) /\ One(encoding) \in Seq(Nat) BY <1>2, Ones DEF Parsing
<1>4. Surface \in Maps(Nat, Nat) /\ InRing = Segment(Surface, iGot, iToSend) /\ InRing \in Seq(Nat)
  <2>1. /\ iToSend \in Nat /\ iGot \in Nat /\ iGot <= iToSend /\ input \in [Slots -> Nat]
        BY <1>1, RingNumbers
  <2>2. \A i \in Nat : Slot(i) \in Slots BY Ring
  <2>3. \A i \in Nat : input[Slot(i)] \in Nat BY <2>1, <2>2
  <2>4. Surface \in Maps(Nat, Nat) BY <2>3 DEF Surface, Maps
  <2>5. InRing = Segment(Surface, iGot, iToSend)
    <3>1. \A k \in 1..(iToSend - iGot) : iGot + k - 1 \in Nat BY <2>1
    <3>2. \A k \in 1..(iToSend - iGot) : Surface[iGot + k - 1] = input[Slot(iGot + k - 1)]
          BY <3>1 DEF Surface
    <3> QED BY <3>2 DEF InRing, Segment
  <2>6. Segment(Surface, iGot, iToSend) \in Seq(Nat) BY <2>1, <2>4, SegmentSeq
  <2> QED BY <2>4, <2>5, <2>6
<1>5. /\ Frame \in Maps(Nat, Nat)
      /\ returned + decoded <= Len(stock) =>
           ToTake = Segment(Frame, returned + 1, returned + decoded + 1)
      /\ ToTake \in Seq(Nat)
  <2>1. /\ \A k \in DOMAIN stock : stock[k].pic \in Nat \ {0}
        /\ DOMAIN stock = 1..Len(stock) /\ Len(stock) \in Nat
        /\ decoded \in Nat /\ returned \in Nat
        BY <1>1, StockTypes
  <2>2. Frame \in Maps(Nat, Nat)
    <3>1. \A i \in Nat : (IF i \in DOMAIN stock THEN stock[i].pic ELSE 0) \in Nat BY <2>1
    <3> QED BY <3>1 DEF Frame, Maps
  <2>3. ASSUME returned + decoded <= Len(stock)
        PROVE  ToTake = Segment(Frame, returned + 1, returned + decoded + 1)
    <3>1. (returned + decoded + 1) - (returned + 1) = decoded BY <2>1
    <3>2. \A k \in 1..decoded : returned + 1 + k - 1 = returned + k /\ returned + k \in Nat
          BY <2>1
    <3>3. \A k \in 1..decoded : returned + k \in DOMAIN stock BY <2>1, <2>3
    <3>4. \A k \in 1..decoded : Frame[returned + 1 + k - 1] = stock[returned + k].pic
          BY <3>2, <3>3 DEF Frame
    <3>5. ToTake \in [1..decoded -> Nat]
          /\ \A k \in 1..decoded : ToTake[k] = Frame[returned + 1 + k - 1]
      <4>1. \A k \in 1..decoded : stock[returned + k].pic \in Nat BY <2>1, <3>3
      <4> QED BY <3>4, <4>1 DEF ToTake
    <3> DEFINE lo == returned + 1
               hi == returned + decoded + 1
               f == ToTake
    <3>6. /\ hi - lo = decoded /\ f \in [1..decoded -> Nat] /\ lo \in Nat /\ hi \in Nat
          /\ lo <= hi /\ \A k \in 1..decoded : f[k] = Frame[lo + k - 1]
      <4>1. hi - lo = decoded /\ lo \in Nat /\ hi \in Nat /\ lo <= hi BY <2>1
      <4> QED BY <3>5, <4>1
    <3> HIDE DEF lo, hi, f
    <3>7. f = Segment(Frame, lo, hi) BY <2>2, <3>6, SegmentIs
    <3> QED BY <3>7 DEF lo, hi, f
  <2>4. CASE decPc # "done"
    <3>1. returned + decoded <= Len(stock) BY <2>4 DEF PathInv, StockInv, Stage
    <3>2. returned + 1 \in Nat /\ returned + decoded + 1 \in Nat
          /\ returned + 1 <= returned + decoded + 1
          BY <2>1
    <3>3. Segment(Frame, returned + 1, returned + decoded + 1) \in Seq(Nat)
          BY <2>2, <3>2, SegmentSeq
    <3> QED BY <2>2, <2>3, <3>1, <3>3
  <2>5. CASE decPc = "done"
    <3>1. decoded = 0 BY <2>5 DEF Hands, Taken
    <3>2. 1..decoded = {} BY <3>1
    <3>3. ToTake = <<>> BY <3>2 DEF ToTake
    <3> QED BY <2>2, <2>3, <3>3, Ones
  <2> QED BY <2>4, <2>5
<1>6. \A s, t \in Seq(Nat) : Cat(s, t) \in Seq(Nat) BY CatLaws
<1>7. AtParse \in Seq(Nat) /\ AtParser \in Seq(Nat) /\ AtTake \in Seq(Nat)
      BY <1>2, <1>3, <1>5, <1>6 DEF AtParse, AtParser, AtTake
<1>8. AtBgr \in Seq(Nat) /\ AtEncoding \in Seq(Nat)
      BY <1>2, <1>3, <1>6, <1>7 DEF AtBgr, AtEncoding
<1>9. AtRing \in Seq(Nat) /\ Inside \in Seq(Nat)
      BY <1>2, <1>4, <1>6, <1>8 DEF AtRing, Inside
<1> QED BY <1>2, <1>3, <1>4, <1>5, <1>7, <1>8, <1>9 DEF FlowParts

LEMMA PartsNext == PathInv' /\ Hands' => FlowParts'
BY Parts, PTL

LoseStep == Lossy(Inside, Inside') /\ UNCHANGED <<packets, decAdded>>
PutStep ==
  Joined(Inside, Inside', decAdded + 1) /\ decAdded' = decAdded + 1 /\ UNCHANGED packets
GiveStep ==
  /\ Inside # <<>>
  /\ packets' = Append(packets, Head(Inside))
  /\ Inside' = Tail(Inside)
  /\ UNCHANGED decAdded
FifoStep == LoseStep \/ PutStep \/ GiveStep \/ UNCHANGED <<Inside, packets, decAdded>>

Flowing == PathInv /\ PathInv' /\ Hands /\ Hands' /\ FlowParts /\ FlowParts'

(* A loss, or none, at a place is one of the whole path. *)
LEMMA FromInside ==
  ASSUME UNCHANGED <<packets, decAdded>>, Less(Inside, Inside')
  PROVE  FifoStep
BY DEF FifoStep, LoseStep, Less

LEMMA FromRing ==
  ASSUME Flowing, UNCHANGED <<packets, decAdded, fetched>>, Less(AtRing, AtRing')
  PROVE  FifoStep
<1>1. Less(Cat(fetched, AtRing), Cat(fetched, AtRing')) BY CatLess DEF Flowing, FlowParts
<1> QED BY <1>1, FromInside DEF Inside

LEMMA FromEncoding ==
  ASSUME Flowing, UNCHANGED <<packets, decAdded, fetched>>, InRing' = InRing,
         Less(AtEncoding, AtEncoding')
  PROVE  FifoStep
<1>1. Less(Cat(InRing, AtEncoding), Cat(InRing, AtEncoding')) BY CatLess DEF Flowing, FlowParts
<1> QED BY <1>1, FromRing DEF AtRing

LEMMA FromBgr ==
  ASSUME Flowing, UNCHANGED <<packets, decAdded, fetched, encoding>>, InRing' = InRing,
         Less(AtBgr, AtBgr')
  PROVE  FifoStep
<1>1. One(encoding)' = One(encoding) OBVIOUS
<1>2. Less(Cat(One(encoding), AtBgr), Cat(One(encoding), AtBgr'))
      BY CatLess DEF Flowing, FlowParts
<1> QED BY <1>1, <1>2, FromEncoding DEF AtEncoding

LEMMA FromTake ==
  ASSUME Flowing, UNCHANGED <<packets, decAdded, fetched, encoding, bgr>>, InRing' = InRing,
         Less(AtTake, AtTake')
  PROVE  FifoStep
<1>1. Less(Cat(bgr, AtTake), Cat(bgr, AtTake')) BY CatLess DEF Flowing, FlowParts
<1> QED BY <1>1, FromBgr DEF AtBgr

LEMMA SameEncoder ==
  ASSUME UNCHANGED encVars
  PROVE  UNCHANGED <<packets, fetched, encoding, bgr>> /\ InRing' = InRing
BY DEF encVars, ringVars, workerVars, InRing, Slot

(* An item is taken from the front of a list, or put at its end. *)
LEMMA TakenFirst ==
  ASSUME NEW q \in Seq(Nat), NEW t \in Seq(Nat), q # <<>>, NEW x, x = Head(q), x # 0
  PROVE  Cat(One(x), Cat(Tail(q), t)) = Cat(q, t) /\ Cat(One(x), Tail(q)) = q
<1>1. x \in Nat \ {0} BY Concat
<1>2. One(x) = <<Head(q)>> BY <1>1, Ones
<1>3. <<Head(q)>> = One(x) BY <1>2
<1>4. Cat(<<Head(q)>>, Cat(Tail(q), t)) = Cat(q, t) BY HandedOn
<1>5. Cat(<<Head(q)>>, Tail(q)) = q BY CatLaws
<1> QED BY <1>3, <1>4, <1>5

LEMMA PutLast ==
  ASSUME NEW q \in Seq(Nat), NEW t \in Seq(Nat), NEW x \in Nat, x # 0
  PROVE  Cat(Append(q, x), t) = Cat(q, Cat(One(x), t))
<1>1. <<x>> = One(x) BY Ones
<1>2. Cat(Append(q, x), t) = Cat(q, Cat(<<x>>, t)) BY HandedOn
<1> QED BY <1>1, <1>2

LEMMA Empties ==
  ASSUME NEW x, x = 0
  PROVE  One(x) = <<>> /\ \A q \in Seq(Nat) : Cat(One(x), q) = q
BY CatLaws, Ones

LEMMA FifoWorker ==
  ASSUME Flowing, Worker, UNCHANGED decVars
  PROVE  FifoStep
<1> USE DEF EncStep, ringVars
<1>1. RingInv BY DEF Flowing, PathInv
<1>2. /\ bgr \in Seq(Nat) /\ InRing \in Seq(Nat) /\ fetched \in Seq(Nat)
      /\ AtTake \in Seq(Nat) /\ AtBgr \in Seq(Nat) /\ AtEncoding \in Seq(Nat)
      /\ AtRing \in Seq(Nat) /\ Inside \in Seq(Nat) /\ One(encoding) \in Seq(Nat)
      /\ AtBgr' \in Seq(Nat) /\ AtEncoding' \in Seq(Nat) /\ AtRing' \in Seq(Nat)
      BY DEF Flowing, FlowParts
<1>3. AtTake' = AtTake /\ decAdded' = decAdded
      BY DEF decVars, threadVars, stockVars, AtTake, ToTake, AtParser, AtParse, Parsing
<1>4. /\ iToSend \in Nat /\ iGot \in Nat /\ iGot <= iToSend /\ input \in [Slots -> Nat]
      /\ encoding \in Nat
      BY <1>1, RingNumbers DEF RingInv, EncTypeOK
<1>5. CASE EncTop \/ EncIdle \/ EncFails \/ EncFetched \/ EncDelivered \/ EncFlush
  <2>1. UNCHANGED <<bgr, encoding, fetched, packets, input, iToSend, iGot>>
        BY <1>5 DEF EncTop, EncIdle, EncFails, EncFetched, EncDelivered, EncFlush
  <2>2. InRing' = InRing BY <2>1 DEF InRing, Slot
  <2> QED BY <1>3, <2>1, <2>2, FromTake DEF Less
<1>6. CASE EncPop
  <2>1. /\ bgr # <<>> /\ encPc = "enter" /\ encoding' = Head(bgr) /\ bgr' = Tail(bgr)
        /\ UNCHANGED <<fetched, packets, input, iToSend, iGot>>
        BY <1>6 DEF EncPop
  <2>2. InRing' = InRing BY <2>1 DEF InRing, Slot
  <2>3. encoding = 0 BY <2>1 DEF Flowing, Hands, InHand
  <2>4. Head(bgr) # 0
    <3>1. bgr \in Seq(Nat \ {0}) BY <1>1 DEF RingInv, EncTypeOK
    <3>2. Head(bgr) \in Nat \ {0} BY <2>1, <3>1, Concat
    <3> QED BY <3>2
  <2>5. AtEncoding = AtBgr BY <1>2, <2>3, Empties DEF AtEncoding
  <2>6. Cat(One(encoding'), Cat(Tail(bgr), AtTake)) = Cat(bgr, AtTake)
        BY <1>2, <2>1, <2>4, TakenFirst
  <2>7. AtEncoding' = Cat(One(encoding'), Cat(bgr', AtTake'))
        BY DEF AtEncoding, AtBgr, One
  <2>8. AtEncoding' = AtEncoding BY <1>3, <2>1, <2>5, <2>6, <2>7 DEF AtBgr
  <2> QED BY <1>3, <2>1, <2>2, <2>8, FromEncoding DEF Less
<1>7. CASE EncCopy
  <2>1. /\ encPc = "copy" /\ input' = [input EXCEPT ![Slot(iToSend)] = encoding]
        /\ UNCHANGED <<bgr, encoding, fetched, packets, iToSend, iGot>>
        BY <1>7 DEF EncCopy, CopyToDeviceFrame, NextInputFrame
  <2>2. InRing' = InRing
    <3>1. iToSend - iGot < EncoderBuffer BY <1>1, <1>4, <2>1, Ring DEF RingInv, Window
    <3>2. \A i \in iGot..(iToSend - 1) : i \in Nat /\ i < iToSend /\ iToSend - i < EncoderBuffer
          BY <1>4, <3>1, RingNumbers, <1>1
    <3>3. \A i \in iGot..(iToSend - 1) : Slot(i) # Slot(iToSend) /\ Slot(i) \in Slots
          BY <1>4, <3>2, Ring
    <3>4. \A k \in 1..(iToSend - iGot) : iGot + k - 1 \in iGot..(iToSend - 1) BY <1>4
    <3>5. \A k \in 1..(iToSend - iGot) : input'[Slot(iGot + k - 1)] = input[Slot(iGot + k - 1)]
          BY <1>4, <2>1, <3>3, <3>4
    <3> QED BY <2>1, <3>5 DEF InRing, Slot
  <2> QED BY <1>3, <2>1, <2>2, FromTake DEF Less
<1>8. CASE EncEncode
  <2>1. /\ encPc = "encode" /\ iToSend' = iToSend + 1 /\ encoding' = 0
        /\ UNCHANGED <<bgr, fetched, packets, input, iGot>>
        BY <1>8 DEF EncEncode
  <2>2. encoding # 0 /\ input[Slot(iToSend)] = encoding BY <2>1 DEF Flowing, Hands, InHand
  <2>3. InRing' = Append(InRing, encoding)
    <3>1. Surface' = Surface BY <2>1 DEF Surface, Slot
    <3>2. InRing' = Segment(Surface, iGot, iToSend + 1)
          BY <2>1, <3>1 DEF Flowing, FlowParts
    <3>3. Segment(Surface, iGot, iToSend + 1)
            = Append(Segment(Surface, iGot, iToSend), Surface[iToSend])
          BY <1>4, SegmentAppend DEF Flowing, FlowParts
    <3>4. Surface[iToSend] = encoding BY <1>4, <2>2 DEF Surface
    <3> QED BY <3>2, <3>3, <3>4 DEF Flowing, FlowParts
  <2>4. AtBgr' = AtBgr BY <1>3, <2>1 DEF AtBgr
  <2>5. AtEncoding' = AtBgr BY <1>2, <2>1, <2>4, Empties DEF AtEncoding
  <2>6. Cat(Append(InRing, encoding), AtBgr) = Cat(InRing, Cat(One(encoding), AtBgr))
        BY <1>2, <1>4, <2>2, PutLast
  <2>7. AtRing' = AtRing BY <2>3, <2>5, <2>6 DEF AtRing, AtEncoding
  <2> QED BY <1>3, <2>1, <2>7, FromRing DEF Less
<1>9. CASE EncFetch
  <2> DEFINE x == input[Slot(iGot)]
  <2>1. /\ bitstream[Slot(iGot)] # 0 /\ fetched' = Append(fetched, bitstream[Slot(iGot)])
        /\ iGot' = iGot + 1 /\ UNCHANGED <<bgr, encoding, packets, input, iToSend>>
        BY <1>9 DEF EncFetch
  <2>2. iGot < iToSend /\ bitstream[Slot(iGot)] = x /\ x # 0 /\ x \in Nat
    <3>1. Slot(iGot) \in Slots /\ Len(work) \in Nat /\ iToSend - iGot <= EncoderBuffer
          /\ EncoderBuffer \in Nat
          BY <1>1, RingNumbers
    <3>2. PICK i \in iGot..(iToSend - Len(work) - 1) : Slot(iGot) = Slot(i)
          BY <1>1, <2>1, <3>1 DEF RingInv, Filled
    <3>3. i = iGot
      <4>1. i \in Nat /\ iGot <= i /\ i - iGot < EncoderBuffer BY <1>4, <3>1
      <4> QED BY <1>4, <3>2, <4>1, Ring
    <3>4. bitstream[Slot(iGot)] = x BY <3>2, <3>3 DEF Flowing, Hands, Encoded
    <3>5. iGot < iToSend BY <1>4, <3>1, <3>3
    <3> QED BY <1>4, <2>1, <3>1, <3>4, <3>5
  <2>3. InRing # <<>> /\ Head(InRing) = x /\ InRing' = Tail(InRing)
    <3>1. Surface' = Surface BY <2>1 DEF Surface, Slot
    <3>2. InRing' = Segment(Surface, iGot + 1, iToSend)
          BY <2>1, <3>1 DEF Flowing, FlowParts
    <3>3. /\ Segment(Surface, iGot, iToSend) # <<>>
          /\ Head(Segment(Surface, iGot, iToSend)) = Surface[iGot]
          /\ Segment(Surface, iGot + 1, iToSend) = Tail(Segment(Surface, iGot, iToSend))
          BY <1>4, <2>2, SegmentPop DEF Flowing, FlowParts
    <3>4. Surface[iGot] = x BY <1>4 DEF Surface
    <3> QED BY <3>2, <3>3, <3>4 DEF Flowing, FlowParts
  <2> HIDE DEF x
  <2>4. AtEncoding' = AtEncoding
        BY <1>3, <2>1 DEF AtEncoding, AtBgr
  <2>5. AtRing' = Cat(Tail(InRing), AtEncoding) /\ AtRing' \in Seq(Nat)
        BY <1>2, <2>3, <2>4 DEF AtRing
  <2>6. Cat(One(x), AtRing') = AtRing
    <3>1. /\ InRing \in Seq(Nat) /\ AtEncoding \in Seq(Nat) /\ InRing # <<>>
          /\ x = Head(InRing) /\ x # 0
          BY <1>2, <2>2, <2>3
    <3>2. Cat(One(x), Cat(Tail(InRing), AtEncoding)) = Cat(InRing, AtEncoding)
          BY <3>1, TakenFirst
    <3> QED BY <2>5, <3>2 DEF AtRing
  <2>7. Cat(Append(fetched, x), AtRing') = Cat(fetched, Cat(One(x), AtRing'))
        BY <1>2, <2>2, <2>5, PutLast
  <2>8. Inside' = Inside BY <2>1, <2>2, <2>6, <2>7 DEF Inside
  <2> QED BY <1>3, <2>1, <2>8 DEF FifoStep
<1>10. CASE EncDeliver
  <2> DEFINE h == Head(fetched)
             t == Tail(fetched)
  <2>1. /\ fetched # <<>> /\ packets' = Append(packets, h) /\ fetched' = t
        /\ UNCHANGED <<bgr, encoding, input, iToSend, iGot>>
        BY <1>10 DEF EncDeliver
  <2>2. InRing' = InRing BY <2>1 DEF InRing, Slot
  <2>3. AtRing' = AtRing BY <1>3, <2>1, <2>2 DEF AtRing, AtEncoding, AtBgr
  <2>4. Cat(<<h>>, Cat(t, AtRing)) = Inside BY <1>2, <2>1, HandedOn DEF Inside
  <2>5. h \in Nat /\ t \in Seq(Nat) BY <1>2, <2>1, Concat
  <2> HIDE DEF h, t
  <2>6. Inside' = Cat(t, AtRing) BY <2>1, <2>3 DEF Inside
  <2>7. Cat(t, AtRing) \in Seq(Nat) BY <1>2, <2>5, CatLaws
  <2>8. Inside # <<>> /\ Head(Inside) = h /\ Tail(Inside) = Cat(t, AtRing)
        BY <2>4, <2>5, <2>7, CatFirst
  <2> QED BY <1>3, <2>1, <2>6, <2>8 DEF FifoStep, GiveStep
<1> QED BY <1>5, <1>6, <1>7, <1>8, <1>9, <1>10 DEF Worker

LEMMA FifoHardware ==
  ASSUME Flowing, Hardware, UNCHANGED decVars
  PROVE  FifoStep
<1>1. UNCHANGED <<bgr, encoding, fetched, packets, input, iToSend, iGot>>
      BY DEF Hardware, workerVars
<1>2. InRing' = InRing BY <1>1 DEF InRing, Slot
<1>3. AtTake' = AtTake /\ decAdded' = decAdded
      BY DEF decVars, threadVars, stockVars, AtTake, ToTake, AtParser, AtParse, Parsing
<1> QED BY <1>1, <1>2, <1>3, FromTake DEF Less

(* A front that is lost, or empty. *)
LEMMA LoseFront ==
  ASSUME NEW b \in Seq(Nat), NEW q \in Seq(Nat)
  PROVE  Less(Cat(b, q), q)
<1>1. b = <<>> => Cat(b, q) = q BY CatLaws
<1> QED BY <1>1, CatLossy DEF Less

(* The picture that is displayed is put behind those that are there. *)
LEMMA ShownLast ==
  ASSUME Flowing, HandlePictureDisplay
  PROVE  ToTake' = Append(ToTake, Head(parser))
<1> DEFINE h == Head(parser)
           m == decoded + 1
<1>1. /\ decPc \in {"parse", "display"} /\ decoded' = m /\ returned' = returned
      /\ stock' = IF m > Len(stock) THEN Append(stock, Copied)
                  ELSE [stock EXCEPT ![m].pic = h]
      BY DEF HandlePictureDisplay, stockVars
<1>2. /\ returned = 0 /\ decoded \in Nat /\ decoded <= Len(stock) /\ Len(stock) \in Nat
      /\ DOMAIN stock = 1..Len(stock)
      BY <1>1, StockTypes DEF Flowing, PathInv, StockInv, Stage
<1>3. /\ stock \in Seq([size : Nat, pic : 1..NumPackets])
      /\ Copied \in [size : Nat, pic : 1..NumPackets]
  <2>1. parser # <<>>
    <3>1. Len(<<>>) = 0 OBVIOUS
    <3> QED BY <3>1, NvDecoderAssumption DEF HandlePictureDisplay, Displays
  <2>2. parser \in Seq(1..NumPackets) /\ lumaHeight \in Nat
        /\ stock \in Seq([size : Nat, pic : 1..NumPackets])
        BY DEF Flowing, PathInv, StockInv, DecTypeOK
  <2>3. h \in 1..NumPackets BY <2>1, <2>2, Concat
  <2> QED BY <2>2, <2>3 DEF Copied
<1>4. /\ \A i \in 1..decoded : i \in DOMAIN stock' /\ stock'[i].pic = stock[i].pic
      /\ m \in DOMAIN stock' /\ stock'[m].pic = h
      /\ Len(stock') \in Nat /\ m <= Len(stock')
  <2>1. CASE m > Len(stock)
    <3> DEFINE c == Copied
    <3>1. m = Len(stock) + 1 BY <1>2, <2>1
    <3>2. stock' = Append(stock, c) /\ c.pic = h BY <1>1, <2>1 DEF Copied
    <3>3. c \in [size : Nat, pic : 1..NumPackets] BY <1>3
    <3> HIDE DEF c
    <3>4. /\ Len(stock') = Len(stock) + 1 /\ DOMAIN stock' = 1..(Len(stock) + 1)
          /\ \A i \in 1..Len(stock) : stock'[i] = stock[i]
          /\ stock'[Len(stock) + 1] = c
          BY <1>3, <3>2, <3>3, AppendProperties
    <3> QED BY <1>2, <3>1, <3>2, <3>4
  <2>2. CASE ~(m > Len(stock))
    <3>1. stock' = [stock EXCEPT ![m].pic = h] /\ m \in 1..Len(stock) BY <1>1, <1>2, <2>2
    <3>2. stock[m] \in [size : Nat, pic : 1..NumPackets] BY <1>3, <3>1, ElementOfSeq
    <3>3. DOMAIN stock' = DOMAIN stock /\ \A i \in DOMAIN stock : i # m => stock'[i] = stock[i]
          BY <3>1
    <3>4. stock'[m].pic = h BY <1>2, <3>1, <3>2
    <3>5. Len(stock') = Len(stock)
      <4>1. stock' \in Seq([size : Nat, pic : 1..NumPackets]')
            BY DEF Flowing, PathInv, StockInv, DecTypeOK
      <4>2. DOMAIN stock' = 1..Len(stock') /\ Len(stock') \in Nat BY <4>1
      <4> QED BY <1>2, <3>3, <4>2
    <3> QED BY <1>2, <2>2, <3>1, <3>3, <3>4, <3>5
  <2> QED BY <2>1, <2>2
<1> HIDE DEF h
<1>5. /\ Frame \in Maps(Nat, Nat) /\ Frame' \in Maps(Nat, Nat)
      /\ ToTake = Segment(Frame, 1, m) /\ ToTake' = Segment(Frame', 1, m + 1)
  <2>1. /\ returned + decoded <= Len(stock) /\ returned + 1 = 1 /\ returned + decoded + 1 = m
        BY <1>2
  <2>2. /\ returned' + decoded' <= Len(stock') /\ returned' + 1 = 1
        /\ returned' + decoded' + 1 = m + 1
        BY <1>1, <1>2, <1>4
  <2>3. /\ Frame \in Maps(Nat, Nat) /\ Frame' \in Maps(Nat, Nat)
        /\ ToTake = Segment(Frame, returned + 1, returned + decoded + 1)
        /\ ToTake' = Segment(Frame', returned' + 1, returned' + decoded' + 1)
        BY <2>1, <2>2 DEF Flowing, FlowParts
  <2> HIDE DEF m
  <2> QED BY <2>1, <2>2, <2>3
<1>6. \A i \in 1..(m - 1) : Frame'[i] = Frame[i]
  <2>1. \A i \in 1..(m - 1) : i \in 1..decoded /\ i \in Nat /\ i \in DOMAIN stock BY <1>2
  <2> QED BY <1>4, <2>1 DEF Frame
<1>7. Frame'[m] = h BY <1>2, <1>4 DEF Frame
<1>8. m \in Nat /\ 1 <= m BY <1>2
<1> HIDE DEF m
<1>9. Segment(Frame', 1, m) = Segment(Frame, 1, m) BY ZenonT(40), <1>6, <1>8, SegmentSame
<1>10. Segment(Frame', 1, m + 1) = Append(Segment(Frame', 1, m), Frame'[m])
       BY <1>5, <1>8, SegmentAppend
<1> QED BY <1>5, <1>7, <1>9, <1>10 DEF h

LEMMA FifoThread ==
  ASSUME Flowing, DecSteps, UNCHANGED encVars
  PROVE  FifoStep
<1> USE DEF DecStep, stockVars
<1>1. /\ UNCHANGED <<packets, fetched, encoding, bgr, decAdded>> /\ InRing' = InRing
  <2>1. UNCHANGED <<packets, fetched, encoding, bgr>> /\ InRing' = InRing BY SameEncoder
  <2>2. decAdded' = decAdded
        BY DEF DecSteps, DecTop, DecFlush, DecIdle, DecPop, CreateDecoder, ReconfigureThrows,
               FollowDisplay, ReconfigureScaled, HandlePictureDecode, HandlePictureDisplay,
               DecodeReturns, DecodeEnds
  <2> QED BY <2>1, <2>2
<1>2. AtTake' = AtTake => FifoStep BY <1>1, FromTake DEF Less
<1>3. /\ es \in Seq(Nat) /\ parser \in Seq(Nat) /\ ToTake \in Seq(Nat) /\ decoding \in Nat
      /\ AtParse \in Seq(Nat) /\ AtParser \in Seq(Nat) /\ AtTake \in Seq(Nat)
      /\ AtParse' \in Seq(Nat) /\ AtParser' \in Seq(Nat)
      BY StockTypes DEF Flowing, FlowParts, PathInv, StockInv
<1>4. CASE DecTop \/ DecIdle \/ CreateDecoder \/ ReconfigureThrows \/ FollowDisplay
           \/ ReconfigureScaled \/ DecodeReturns \/ DecodeEnds
  <2>1. UNCHANGED <<es, parser, stock, decoded, returned>>
        BY <1>4 DEF DecTop, DecIdle, CreateDecoder, ReconfigureThrows, FollowDisplay,
                    ReconfigureScaled, DecodeReturns, DecodeEnds
  <2>2. Parsing' = Parsing
    <3>1. CASE DecTop \/ DecIdle \/ DecodeEnds
          BY <3>1 DEF Parsing, DecTop, DecIdle, DecodeEnds
    <3>2. CASE CreateDecoder \/ ReconfigureThrows \/ FollowDisplay \/ ReconfigureScaled
      <4>1. UNCHANGED <<decPc, decoding>>
            BY <3>2 DEF CreateDecoder, ReconfigureThrows, FollowDisplay, ReconfigureScaled
      <4> QED BY <4>1 DEF Parsing, One
    <3>3. CASE DecodeReturns
      <4>1. decPc' = "frames" /\ (decPc = "display" \/ decoding = 0) BY <3>3 DEF DecodeReturns
      <4> QED BY <4>1, Ones DEF Parsing
    <3> QED BY <1>4, <3>1, <3>2, <3>3
  <2>3. ToTake' = ToTake BY <2>1 DEF ToTake
  <2>4. AtTake' = AtTake BY <2>1, <2>2, <2>3 DEF AtTake, AtParser, AtParse
  <2> QED BY <1>2, <2>4
<1>5. CASE DecFlush
  <2>1. /\ decPc = "top" /\ decPc' = "parse" /\ decoded' = 0
        /\ UNCHANGED <<es, decoding, parser>>
        BY <1>5 DEF DecFlush
  <2>2. decoded = 0 /\ decoding = 0 BY <2>1 DEF Flowing, Hands, Taken
  <2>3. ToTake = <<>> /\ ToTake' = <<>>
    <3>1. 1..0 = {} OBVIOUS
    <3> QED BY <2>1, <2>2, <3>1 DEF ToTake
  <2>4. Parsing' = <<>> /\ Parsing = <<>> BY <2>1, <2>2, Ones DEF Parsing
  <2>5. AtTake' = AtTake BY <2>1, <2>3, <2>4 DEF AtTake, AtParser, AtParse
  <2> QED BY <1>2, <2>5
<1>6. CASE DecPop
  <2>1. /\ es # <<>> /\ decPc = "enter" /\ decPc' = "parse" /\ decoding' = Head(es)
        /\ es' = Tail(es) /\ decoded' = 0 /\ UNCHANGED parser
        BY <1>6 DEF DecPop
  <2>2. decoded = 0 BY <2>1 DEF Flowing, Hands, Taken
  <2>3. ToTake = <<>> /\ ToTake' = <<>>
    <3>1. 1..0 = {} OBVIOUS
    <3> QED BY <2>1, <2>2, <3>1 DEF ToTake
  <2>4. Head(es) # 0
    <3>1. es \in Seq(1..NumPackets) /\ NumPackets \in Nat
          BY HeaderOf DEF Flowing, PathInv, StockInv, DecTypeOK
    <3>2. Head(es) \in 1..NumPackets BY <2>1, <3>1, Concat
    <3> QED BY <3>1, <3>2
  <2>5. Parsing = <<>> /\ Parsing' = One(decoding') BY <2>1 DEF Parsing, One
  <2>6. AtParse = es BY <1>3, <2>5, CatLaws DEF AtParse
  <2>7. Cat(One(decoding'), Tail(es)) = es BY <1>3, <2>1, <2>4, TakenFirst
  <2>8. AtParse' = AtParse BY <2>1, <2>5, <2>6, <2>7 DEF AtParse
  <2>9. AtTake' = AtTake BY <2>1, <2>3, <2>8 DEF AtTake, AtParser
  <2> QED BY <1>2, <2>9
<1>7. CASE HandlePictureDecode
  <2>1. /\ decoding # 0 /\ decPc = "parse" /\ decPc' = "display"
        /\ parser' = Append(parser, decoding) /\ UNCHANGED <<es, stock, decoded, returned>>
        BY <1>7 DEF HandlePictureDecode
  <2>2. Parsing = One(decoding) /\ Parsing' = <<>> BY <2>1 DEF Parsing
  <2>3. AtParse' = es BY <1>3, <2>1, <2>2, CatLaws DEF AtParse
  <2>4. Cat(Append(parser, decoding), es) = Cat(parser, Cat(One(decoding), es))
        BY <1>3, <2>1, PutLast
  <2>5. AtParser' = AtParser BY <2>1, <2>2, <2>3, <2>4 DEF AtParser, AtParse
  <2>6. ToTake' = ToTake BY <2>1 DEF ToTake
  <2> QED BY <1>2, <2>5, <2>6 DEF AtTake
<1>8. CASE HandlePictureDisplay
  <2> DEFINE h == Head(parser)
  <2>1. parser' = Tail(parser) /\ UNCHANGED <<es, decPc, decoding>>
        BY <1>8 DEF HandlePictureDisplay
  <2>2. ToTake' = Append(ToTake, h) BY <1>8, ShownLast
  <2>3. parser # <<>>
    <3>1. Len(<<>>) = 0 OBVIOUS
    <3> QED BY <1>8, <3>1, NvDecoderAssumption DEF HandlePictureDisplay, Displays
  <2>4. h \in Nat /\ h # 0
    <3>1. parser \in Seq(1..NumPackets) /\ NumPackets \in Nat
          BY HeaderOf DEF Flowing, PathInv, StockInv, DecTypeOK
    <3>2. h \in 1..NumPackets BY <2>3, <3>1, Concat
    <3> QED BY <3>1, <3>2
  <2>5. AtParse' = AtParse BY <2>1 DEF AtParse, Parsing, One
  <2>6. Cat(One(h), Cat(Tail(parser), AtParse)) = Cat(parser, AtParse)
        BY <1>3, <2>3, <2>4, TakenFirst
  <2> HIDE DEF h
  <2>7. AtParser' = Cat(Tail(parser), AtParse) BY <2>1, <2>5 DEF AtParser
  <2>8. Cat(Append(ToTake, h), AtParser') = Cat(ToTake, Cat(One(h), AtParser'))
        BY <1>3, <2>4, PutLast
  <2>9. AtTake' = AtTake BY <2>2, <2>6, <2>7, <2>8 DEF AtTake, AtParser
  <2> QED BY <1>2, <2>9
<1> QED BY <1>4, <1>5, <1>6, <1>7, <1>8 DEF DecSteps

LEMMA FifoPicture ==
  ASSUME Flowing, OnRGBData
  PROVE  FifoStep
<1> DEFINE x == Picture
<1>1. /\ decPc = "frames" /\ decPc' = "frames" /\ decoded > 0 /\ decoded' = decoded - 1
      /\ returned' = returned + 1 /\ decAdded' = decAdded /\ UNCHANGED <<es, parser, stock>>
      BY DEF OnRGBData, GetFrame, DecStep
<1>2. AddFirstFrame(x) \/ AddNextFrame(x) BY DEF OnRGBData, AddVideoFrame
<1>3. /\ RingInv /\ DecTypeOK /\ returned + decoded <= Len(stock)
      /\ bgr \in Seq(Nat) /\ AtParser \in Seq(Nat) /\ AtTake \in Seq(Nat)
      /\ ToTake \in Seq(Nat) /\ ToTake' \in Seq(Nat)
      /\ Frame \in Maps(Nat, Nat) /\ AtBgr' \in Seq(Nat)
      BY <1>1 DEF Flowing, FlowParts, PathInv, StockInv, Stage
<1>4. decoded \in Nat /\ returned \in Nat /\ Len(stock) \in Nat /\ DOMAIN stock = 1..Len(stock)
      BY <1>3, StockTypes
<1>5. x = Frame[returned + 1] /\ x \in Nat /\ x # 0
  <2>1. returned + 1 \in DOMAIN stock /\ returned + 1 \in Nat BY <1>1, <1>3, <1>4
  <2>2. stock[returned + 1].pic \in Nat \ {0} BY <1>3, <2>1, StockTypes
  <2> QED BY <2>1, <2>2 DEF Frame, Picture
<1>6. ToTake # <<>> /\ Head(ToTake) = x /\ ToTake' = Tail(ToTake)
  <2> DEFINE lo == returned + 1
             hi == returned + decoded + 1
  <2>1. lo \in Nat /\ hi \in Nat /\ lo < hi BY <1>1, <1>4
  <2>2. ToTake = Segment(Frame, lo, hi) BY <1>3 DEF Flowing, FlowParts
  <2>3. ToTake' = Segment(Frame, lo + 1, hi)
    <3>1. Frame' = Frame BY <1>1 DEF Frame
    <3>2. returned' + decoded' <= Len(stock') /\ returned' + 1 = lo + 1
          /\ returned' + decoded' + 1 = hi
          BY <1>1, <1>3, <1>4
    <3>3. ToTake' = Segment(Frame', returned' + 1, returned' + decoded' + 1)
          BY <3>2 DEF Flowing, FlowParts
    <3> HIDE DEF lo, hi
    <3> QED BY <3>1, <3>2, <3>3
  <2>4. Frame[lo] = x BY <1>5
  <2> HIDE DEF lo, hi, x
  <2> QED BY <1>3, <2>1, <2>2, <2>3, <2>4, SegmentPop
<1> HIDE DEF x
<1>7. AtParser' = AtParser BY <1>1 DEF AtParser, AtParse, Parsing
<1>8. AtTake' = Cat(Tail(ToTake), AtParser) BY <1>6, <1>7 DEF AtTake
<1>9. Cat(One(x), AtTake') = AtTake
  <2>1. Cat(One(x), Cat(Tail(ToTake), AtParser)) = Cat(ToTake, AtParser)
        BY <1>3, <1>5, <1>6, TakenFirst
  <2> QED BY <1>8, <2>1 DEF AtTake
<1>10. /\ UNCHANGED <<packets, fetched, encoding>> /\ InRing' = InRing
       /\ bgr' = DropPush(bgr, x)
  <2>1. CASE AddFirstFrame(x)
    <3>1. UNCHANGED <<packets, fetched, encoding, iToSend, iGot>> /\ ~made
          /\ bgr' = DropPush(bgr, x)
          BY <2>1 DEF AddFirstFrame
    <3>2. encPc = "none" BY <1>1, <3>1 DEF Flowing, PathInv, Order
    <3>3. iToSend - iGot = 0 /\ iToSend' - iGot' = 0
          BY <1>3, <3>1, <3>2, RingNumbers DEF RingInv, Making
    <3>4. 1..0 = {} OBVIOUS
    <3>5. InRing = <<>> /\ InRing' = <<>> BY <3>3, <3>4 DEF InRing
    <3> QED BY <3>1, <3>5
  <2>2. CASE AddNextFrame(x)
    <3>1. UNCHANGED <<packets, fetched, encoding, iToSend, iGot, input>>
          /\ bgr' = DropPush(bgr, x)
          BY <2>2 DEF AddNextFrame, ringVars, workerVars
    <3> QED BY <3>1 DEF InRing, Slot
  <2> QED BY <1>2, <2>1, <2>2
<1>11. CASE Len(bgr) > MaxQueue
  <2>1. bgr' = <<x>> BY <1>10, <1>11 DEF DropPush
  <2>2. bgr' = One(x) BY <1>5, <2>1, Ones
  <2>3. AtBgr' = AtTake BY <1>9, <2>2 DEF AtBgr
  <2>4. Less(Cat(bgr, AtTake), AtTake) BY <1>3, LoseFront
  <2> QED BY <1>1, <1>10, <2>3, <2>4, FromBgr DEF AtBgr
<1>12. CASE ~(Len(bgr) > MaxQueue)
  <2>1. bgr' = Append(bgr, x) BY <1>10, <1>12 DEF DropPush
  <2>2. AtTake' \in Seq(Nat) BY DEF Flowing, FlowParts
  <2>3. Cat(Append(bgr, x), AtTake') = Cat(bgr, Cat(One(x), AtTake'))
        BY <1>3, <1>5, <2>2, PutLast
  <2>4. AtBgr' = AtBgr BY <1>9, <2>1, <2>3 DEF AtBgr
  <2> QED BY <1>1, <1>10, <2>4, FromBgr DEF Less
<1> QED BY <1>11, <1>12

(* A packet that is put in joins what is at every place before it. *)
LEMMA FifoPacket ==
  ASSUME Flowing, OnVideoData
  PROVE  FifoStep
<1> DEFINE x == decAdded + 1
<1>1. /\ decAdded' = x /\ es' = Append(es, x) /\ UNCHANGED encVars
      /\ UNCHANGED <<decoding, decPc, parser, stock, decoded, returned>>
      BY DEF OnVideoData, InputVideoData, Push, threadVars, stockVars
<1>2. UNCHANGED <<packets, fetched, encoding, bgr>> /\ InRing' = InRing
      BY <1>1, SameEncoder
<1>3. x \in Nat
  <2>1. decAdded \in 0..NumPackets /\ NumPackets \in Nat
        BY HeaderOf DEF Flowing, PathInv, StockInv, DecTypeOK
  <2> QED BY <2>1
<1>4. FlowParts /\ FlowParts' BY DEF Flowing
<1>5. Joined(es, es', x)
  <2>1. es \in Seq(Nat) BY <1>4 DEF FlowParts
  <2> QED BY <1>1, <2>1, JoinedLast
<1> HIDE DEF x
<1>6. \A a, q, r \in Seq(Nat) : Joined(q, r, x) => Joined(Cat(a, q), Cat(a, r), x)
      BY <1>3, CatJoined
<1>7. Parsing' = Parsing /\ ToTake' = ToTake /\ One(encoding)' = One(encoding)
      BY <1>1, <1>2 DEF Parsing, ToTake, One
<1>8. Joined(AtParse, AtParse', x) BY <1>4, <1>5, <1>6, <1>7 DEF AtParse, FlowParts
<1>9. Joined(AtParser, AtParser', x) BY <1>1, <1>4, <1>6, <1>8 DEF AtParser, FlowParts
<1>10. Joined(AtTake, AtTake', x) BY <1>4, <1>6, <1>7, <1>9 DEF AtTake, FlowParts
<1>11. Joined(AtBgr, AtBgr', x) BY <1>2, <1>4, <1>6, <1>10 DEF AtBgr, FlowParts
<1>12. Joined(AtEncoding, AtEncoding', x) BY <1>4, <1>6, <1>7, <1>11 DEF AtEncoding, FlowParts
<1>13. Joined(AtRing, AtRing', x) BY <1>2, <1>4, <1>6, <1>12 DEF AtRing, FlowParts
<1>14. Joined(Inside, Inside', x) BY <1>2, <1>4, <1>6, <1>13 DEF Inside, FlowParts
<1> QED BY <1>1, <1>2, <1>14 DEF FifoStep, PutStep, x

LEMMA FifoOwner ==
  ASSUME Flowing, Destroy \/ Teardown
  PROVE  FifoStep
<1>1. /\ AtTake \in Seq(Nat) /\ AtParser \in Seq(Nat) /\ AtParse \in Seq(Nat)
      /\ AtParser' \in Seq(Nat) /\ AtParse' \in Seq(Nat) /\ parser \in Seq(Nat)
      /\ bgr \in Seq(Nat) /\ ToTake \in Seq(Nat) /\ AtBgr \in Seq(Nat)
      BY DEF Flowing, FlowParts
<1>2. CASE Destroy
  <2>1. UNCHANGED encVars /\ UNCHANGED <<decAdded, es, threadVars>>
        BY <1>2 DEF Destroy, DecDestroy
  <2>2. AtTake' = AtTake
        BY <2>1 DEF AtTake, AtParser, AtParse, Parsing, ToTake, threadVars, stockVars
  <2> QED BY <2>1, <2>2, SameEncoder, FromTake DEF Less
<1>3. CASE JoinDecoder
  <2>1. /\ decPc = "done" /\ decPc' = "done" /\ es' = <<>>
        /\ UNCHANGED <<decAdded, parser, decoded>>
        BY <1>3 DEF JoinDecoder, DecJoin
  <2>2. UNCHANGED <<packets, fetched, encoding, bgr>> /\ InRing' = InRing
    <3>1. UNCHANGED <<packets, fetched, encoding, bgr, iToSend, iGot, input>>
          BY <1>3 DEF JoinDecoder, EncDestroy, encVars, ringVars, workerVars
    <3> QED BY <3>1 DEF InRing, Slot
  <2>3. ToTake = <<>> /\ ToTake' = <<>>
    <3>1. decoded = 0 /\ decoded' = 0 BY <2>1 DEF Flowing, Hands, Taken
    <3>2. 1..0 = {} OBVIOUS
    <3> QED BY <3>1, <3>2 DEF ToTake
  <2>4. Parsing' = <<>> BY <2>1 DEF Parsing
  <2>5. AtParse' = <<>> BY <2>1, <2>4, CatLaws, Ones DEF AtParse
  <2>6. Less(AtParse, AtParse') BY <1>1, <2>5, CatLess
  <2>7. Less(AtParser, AtParser') BY <1>1, <2>1, <2>6, CatLess DEF AtParser
  <2>8. Less(AtTake, AtTake') BY <1>1, <2>3, <2>7, CatLess DEF AtTake
  <2> QED BY <2>1, <2>2, <2>8, FromTake
<1>4. CASE JoinEncoder
  <2>1. /\ encPc = "done" /\ bgr' = <<>> /\ UNCHANGED decVars
        /\ UNCHANGED <<packets, fetched, encoding, iToSend, iGot>>
        BY <1>4 DEF JoinEncoder, EncJoin, workerVars
  <2>2. InRing' = InRing
    <3>1. RingInv BY DEF Flowing, PathInv
    <3>2. iToSend - iGot = 0 /\ iToSend' - iGot' = 0
          BY <2>1, <3>1, RingNumbers DEF RingInv, Ending
    <3>3. 1..0 = {} OBVIOUS
    <3> QED BY <3>2, <3>3 DEF InRing
  <2>3. AtTake' = AtTake /\ decAdded' = decAdded
        BY <2>1 DEF decVars, threadVars, stockVars, AtTake, ToTake, AtParser, AtParse, Parsing
  <2>4. AtBgr' = AtTake BY <1>1, <2>1, <2>3, CatLaws DEF AtBgr
  <2>5. Less(Cat(bgr, AtTake), AtTake) BY <1>1, LoseFront
  <2> QED BY <2>1, <2>2, <2>3, <2>4, <2>5, FromBgr DEF AtBgr
<1> QED BY <1>2, <1>3, <1>4 DEF Teardown

LEMMA StepFifo == PathInv /\ Hands /\ [Next]_vars => FifoStep
<1> SUFFICES ASSUME PathInv, Hands, [Next]_vars PROVE FifoStep OBVIOUS
<1>1. Flowing BY StepPath, StepHands, Parts, PartsNext DEF Flowing
<1>2. CASE UNCHANGED vars
  <2>1. UNCHANGED encVars /\ UNCHANGED decVars BY <1>2 DEF vars
  <2>2. AtTake' = AtTake /\ decAdded' = decAdded
        BY <2>1 DEF decVars, threadVars, stockVars, AtTake, ToTake, AtParser, AtParse, Parsing
  <2> QED BY <1>1, <2>1, <2>2, SameEncoder, FromTake DEF Less
<1> QED BY <1>1, <1>2, FifoWorker, FifoHardware, FifoThread, FifoPicture, FifoPacket, FifoOwner
        DEF Next, Decoder, Encoder, EncSteps

LEMMA StepChannel == PathInv /\ Hands /\ [Next]_vars => [LF!Next]_(LF!vars)
<1> SUFFICES ASSUME PathInv, Hands, [Next]_vars PROVE [LF!Next]_(LF!vars) OBVIOUS
<1> USE DEF InPath, InDecoder, Inside, AtRing, AtEncoding, AtBgr, AtTake, AtParser, AtParse, Cat
<1>1. FifoStep BY StepFifo
<1>2. UNCHANGED <<Inside, packets, decAdded>> => UNCHANGED LF!vars BY DEF LF!vars
<1>3. LoseStep => LF!Lose BY DEF LoseStep, Lossy, LF!Lose, LF!Without
<1>4. PutStep => LF!Put BY DEF PutStep, Joined, LF!Put
<1>5. GiveStep => LF!Get BY DEF GiveStep, LF!Get
<1> QED BY <1>1, <1>2, <1>3, <1>4, <1>5 DEF FifoStep, LF!Next

LEMMA InitChannel == Init => LF!Init
<1> SUFFICES ASSUME Init PROVE LF!Init OBVIOUS
<1>1. /\ Parsing = <<>> /\ es = <<>> /\ parser = <<>> /\ bgr = <<>> /\ One(encoding) = <<>>
      /\ fetched = <<>> /\ packets = <<>> /\ decAdded = 0
      BY Ones DEF Init, DecInit, EncInit, Parsing
<1>2. ToTake = <<>> /\ InRing = <<>>
  <2>1. decoded = 0 /\ iToSend - iGot = 0 BY DEF Init, DecInit, EncInit
  <2>2. 1..0 = {} OBVIOUS
  <2> QED BY <2>1, <2>2 DEF ToTake, InRing
<1>3. <<>> \o <<>> = <<>> BY Ones, Concat
<1> QED BY <1>1, <1>2, <1>3 DEF LF!Init, InPath, InDecoder

(***************************************************************************)
(* Parser, stock, list, ring and hardware together are a channel that may  *)
(* drop pictures but neither repeats nor reorders them: each packet that   *)
(* comes out is that of the next picture that was not dropped, although    *)
(* the frames and the surfaces are written again and again.                *)
(***************************************************************************)
THEOREM PathImplementsFifo == SafeSpec => PathIsFifo
<1>1. Init => PathInv /\ Hands BY InitPath, InitHands
<1>2. PathInv /\ Hands /\ [Next]_vars => PathInv' /\ Hands' BY StepPath, StepHands
<1> QED BY <1>1, <1>2, InitChannel, StepChannel, PTL DEF SafeSpec, PathIsFifo, LF!Spec
=============================================================================
