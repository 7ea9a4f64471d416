--------------------------- MODULE AacCodec_proofs ---------------------------
(***************************************************************************)
(* Proofs about AacCodec, for streams of any lengths and rates, any number *)
(* of packets that the codecs keep back and any damaged ones.              *)
(***************************************************************************)
EXTENDS AacCodec, FifoLemmas

(***************************************************************************)
(* Resampling.  n and d are the rates, k what the resampler holds, l the   *)
(* length of the frame it is given.                                        *)
(***************************************************************************)
LEMMA Products ==
  ASSUME NEW a \in Nat, NEW b \in Nat, NEW c \in Nat, NEW d \in Nat, a <= c, b <= d
  PROVE  a * b \in Nat /\ c * d \in Nat /\ a * b <= c * d
<1>1. a * b <= c * b OBVIOUS
<1>2. c * b <= c * d OBVIOUS
<1>3. a * b \in Nat /\ c * d \in Nat /\ c * b \in Nat OBVIOUS
<1> QED BY <1>1, <1>2, <1>3

LEMMA Quotient ==
  \A a \in Nat, t \in Nat \ {0} :
    /\ a \div t \in Nat /\ (a \div t) * t \in Nat
    /\ (a \div t) * t <= a /\ a - (a \div t) * t <= t - 1
<1> SUFFICES ASSUME NEW a \in Nat, NEW t \in Nat \ {0}
             PROVE  /\ a \div t \in Nat /\ (a \div t) * t \in Nat
                    /\ (a \div t) * t <= a /\ a - (a \div t) * t <= t - 1
    OBVIOUS
<1>1. a \div t \in Nat /\ (a \div t) * t <= a /\ a - (a \div t) * t <= t - 1 OBVIOUS
<1> DEFINE q == a \div t
<1> HIDE DEF q
<1>2. q \in Nat => q * t \in Nat OBVIOUS
<1> QED BY <1>1, <1>2 DEF q

LEMMA Above ==
  ASSUME NEW x \in Nat \ {0}, NEW t \in Nat \ {0}
  PROVE  x * t \in Nat /\ x * t >= t /\ x * t >= x
<1>1. 1 * t <= x * t /\ x * 1 <= x * t /\ x * t \in Nat BY Products
<1> QED BY <1>1

(* Rounding up to whole samples at the other rate. *)
LEMMA RoundedUp ==
  ASSUME NEW x \in Nat, NEW n \in Nat \ {0}, NEW d \in Nat \ {0},
         NEW r, r = (x * n + d - 1) \div d
  PROVE  r \in Nat /\ r * d \in Nat /\ r * d >= x * n /\ (x > 0 => r > 0) /\ (n = d => r = x)
<1> DEFINE p == x * n
<1>0. r = (p + d - 1) \div d OBVIOUS
<1>1. p \in Nat /\ (x > 0 => p > 0)
  <2>1. p \in Nat OBVIOUS
  <2>2. x > 0 => p >= n BY Above
  <2> QED BY <2>1, <2>2
<1>2. n = d => p = x * d OBVIOUS
<1> HIDE DEF p
<1>3. /\ r \in Nat /\ r * d \in Nat
      /\ r * d <= p + d - 1 /\ (p + d - 1) - r * d <= d - 1
  <2> DEFINE w == p + d - 1
  <2>1. w \in Nat /\ r = w \div d BY <1>0, <1>1
  <2> HIDE DEF w
  <2>2. /\ w \div d \in Nat /\ (w \div d) * d \in Nat
        /\ (w \div d) * d <= w /\ w - (w \div d) * d <= d - 1
        BY <2>1, Quotient
  <2>3. r \in Nat /\ r * d \in Nat /\ r * d <= w /\ w - r * d <= d - 1 BY <2>1, <2>2
  <2> QED BY <2>3 DEF w
<1>4. r * d >= p BY <1>1, <1>3
<1>5. p > 0 => r > 0
  <2>1. r = 0 => r * d = 0 OBVIOUS
  <2> QED BY <1>1, <1>3, <1>4, <2>1
<1>6. ASSUME n = d PROVE r = x
  <2>1. p = x * d BY <1>2, <1>6
  <2>2. ~(r + 1 <= x)
    <3>1. r + 1 <= x => (r + 1) * d <= x * d BY <1>3, Products
    <3>2. (r + 1) * d = r * d + d BY <1>3
    <3> QED BY <1>1, <1>3, <1>4, <2>1, <3>1, <3>2
  <2>3. ~(x + 1 <= r)
    <3>1. x + 1 <= r => (x + 1) * d <= r * d BY <1>3, Products
    <3>2. (x + 1) * d = x * d + d OBVIOUS
    <3> QED BY <1>1, <1>3, <2>1, <3>1, <3>2
  <2> QED BY <1>3, <2>2, <2>3
<1> QED BY <1>1, <1>3, <1>4, <1>5, <1>6 DEF p

(***************************************************************************)
(* If there is room for what the resampler holds and for a frame of any    *)
(* length, it gives at least a sample and holds no more than the frame     *)
(* afterwards.                                                             *)
(***************************************************************************)
LEMMA Resampled ==
  ASSUME NEW n \in Nat \ {0}, NEW d \in Nat \ {0}, NEW k \in Nat, NEW l \in Nat \ {0},
         NEW s \in Nat \ {0}, NEW room \in Nat,
         l * n >= d, ((k \div n) + s) * n <= room * d,
         NEW av, NEW c,
         av = (k + l * n) \div d, c = IF av > room THEN room ELSE av
  PROVE  c \in Nat \ {0} /\ k + l * n - c * d \in Nat /\ k + l * n - c * d <= l * n
<1> DEFINE p == l * n
           q == k \div n
<1>0. av = (k + p) \div d OBVIOUS
<1>1. p \in Nat /\ p >= n /\ p >= d BY Above
<1>2. q \in Nat /\ q * n \in Nat /\ q * n <= k /\ k - q * n <= n - 1 BY Quotient
<1>3. (q + s) * n <= room * d OBVIOUS
<1> HIDE DEF p, q
<1>4. av \in Nat /\ av * d \in Nat /\ av * d <= k + p /\ (k + p) - av * d <= d - 1
  <2> DEFINE w == k + p
  <2>1. w \in Nat /\ av = w \div d BY <1>0, <1>1
  <2> HIDE DEF w
  <2>2. /\ w \div d \in Nat /\ (w \div d) * d \in Nat
        /\ (w \div d) * d <= w /\ w - (w \div d) * d <= d - 1
        BY <2>1, Quotient
  <2>3. av \in Nat /\ av * d \in Nat /\ av * d <= w /\ w - av * d <= d - 1 BY <2>1, <2>2
  <2> QED BY <2>3 DEF w
<1>5. (q + s) * n = q * n + s * n BY <1>2
<1>6. s * n \in Nat /\ s * n >= n BY Above
<1>7. room * d \in Nat OBVIOUS
<1>8. room # 0
  <2>1. room = 0 => room * d = 0 OBVIOUS
  <2> QED BY <1>2, <1>3, <1>5, <1>6, <2>1
<1>9. av # 0
  <2>1. av = 0 => av * d = 0 OBVIOUS
  <2> QED BY <1>1, <1>4, <2>1
<1>10. CASE av > room
  <2>1. c = room BY <1>10
  <2>2. room * d <= av * d BY <1>4, <1>10, Products
  <2>3. c \in Nat \ {0} /\ c * d = room * d BY <1>8, <2>1
  <2>4. k + p - c * d \in Nat BY <1>1, <1>4, <1>7, <2>2, <2>3
  <2>5. k + p - c * d <= p BY <1>1, <1>2, <1>3, <1>5, <1>6, <1>7, <2>3
  <2> QED BY <2>3, <2>4, <2>5 DEF p
<1>11. CASE ~(av > room)
  <2>1. c = av BY <1>11
  <2>2. c \in Nat \ {0} /\ c * d = av * d BY <1>4, <1>9, <2>1
  <2>3. k + p - c * d \in Nat /\ k + p - c * d <= p BY <1>1, <1>4, <2>2
  <2> QED BY <2>2, <2>3 DEF p
<1> QED BY <1>10, <1>11

(* At the rate of the source the count of samples stays. *)
LEMMA SameRate ==
  ASSUME NEW n \in Nat \ {0}, NEW l \in Nat
  PROVE  /\ (0 \div n) + l = l
         /\ (0 + l * n) \div n = l
         /\ 0 + l * n - l * n = 0
<1>1. 0 \div n = 0 OBVIOUS
<1>2. l * n \in Nat OBVIOUS
<1>3. (l * n) \div n = l
  <2> DEFINE p == l * n
             q == p \div n
  <2>1. q \in Nat /\ q * n \in Nat /\ q * n <= p /\ p - q * n <= n - 1 BY <1>2, Quotient
  <2> HIDE DEF q
  <2>2. ~(q + 1 <= l)
    <3>1. q + 1 <= l => (q + 1) * n <= l * n BY <2>1, Products
    <3>2. (q + 1) * n = q * n + n BY <2>1
    <3> QED BY <1>2, <2>1, <3>1, <3>2
  <2>3. ~(l + 1 <= q)
    <3>1. l + 1 <= q => (l + 1) * n <= q * n BY <2>1, Products
    <3>2. (l + 1) * n = l * n + n OBVIOUS
    <3> QED BY <1>2, <2>1, <3>1, <3>2
  <2> QED BY <2>1, <2>2, <2>3 DEF q
<1> QED BY <1>1, <1>2, <1>3

(***************************************************************************)
(* The invariant: what each thread has in hand where it is; what there is  *)
(* before the encoder is made; what the resampler holds and has room for;  *)
(* and what the destructor finds at each of its steps.                     *)
(***************************************************************************)
Item == 1..NumPackets
Block == [pic : Item, len : Nat \ {0}]

Listed ==
  /\ stream \in Streams /\ added \in No /\ accepted \in Nat
  /\ es \in Seq(Item) /\ decCodec \in Seq(Item) /\ yuv \in Seq(Item) /\ frames \in Seq(Item)
  /\ encCodec \in Seq(Item) /\ packets \in Seq(Item) /\ pcm \in Seq(Block)
  /\ decoding \in No /\ received \in No /\ scaling \in No /\ packing \in No /\ encoding \in No
  /\ srcNb \in {0} \cup Lengths /\ dstNb \in Nat /\ kept \in Nat /\ encSrcNb \in Nat
  /\ draining \in BOOLEAN /\ made \in BOOLEAN /\ decAbort \in BOOLEAN /\ encAbort \in BOOLEAN
  /\ spoilt \subseteq No

InHand ==
  /\ decoding # 0 <=> decPc = "send"
  /\ received # 0 <=> decPc = "push"
  /\ scaling # 0 <=> scalePc \in {"make", "grow", "convert"}
  /\ packing # 0 <=> packPc = "push"
  /\ encoding # 0 <=> encPc = "send"

Made ==
  /\ made <=> packPc # "none"
  /\ made <=> encPc # "none"
  /\ ~made => pcm = <<>> /\ frames = <<>> /\ encCodec = <<>> /\ packets = <<>>
  /\ made => encSrcNb > 0

Room == \E n \in Lengths : ((kept \div stream.num) + n) * stream.num <= dstNb * stream.den

Resampler ==
  /\ received # 0 \/ yuv # <<>> \/ scaling # 0 => srcNb # 0
  /\ kept = 0 \/ \E n \in Lengths : kept <= n * stream.num
  /\ scalePc = "convert" => Room

Ending ==
  /\ accepted = Len(packets) + Len(encCodec)
  /\ decPc = "done" => decCodec = <<>>
  /\ encPc = "done" => encCodec = <<>>
  /\ opc \in {"joinScale", "joinEnc", "joinPack", "dead"} => decPc = "done"
  /\ opc \in {"joinEnc", "joinPack", "dead"} => scalePc = "done" /\ es = <<>> /\ yuv = <<>>
  /\ opc \in {"joinEnc", "joinPack"} => made
  /\ opc = "joinPack" => encPc = "done"
  /\ opc = "dead" /\ made => encPc = "done" /\ packPc = "done"

PathInv == Listed /\ InHand /\ Made /\ Resampler /\ Ending

LEMMA Rates ==
  ASSUME stream \in Streams
  PROVE  /\ stream.num \in Nat \ {0} /\ stream.den \in Nat \ {0} /\ NumPackets \in Nat
         /\ \A i \in Item : /\ stream.lens[i] \in Lengths
                            /\ stream.lens[i] * stream.num >= stream.den
         /\ \A n \in Lengths : n \in Nat \ {0}
<1>1. /\ stream \in [lens : Seq(Nat \ {0}), num : Nat \ {0}, den : Nat \ {0}]
      /\ \A i \in DOMAIN stream.lens : stream.lens[i] * stream.num >= stream.den
      BY AacAssumption
<1> DEFINE q == stream.lens
<1>2. q \in Seq(Nat \ {0}) /\ \A i \in DOMAIN q : q[i] * stream.num >= stream.den BY <1>1
<1> HIDE DEF q
<1>3. Len(q) \in Nat /\ DOMAIN q = 1..Len(q) BY <1>2
<1>4. \A i \in 1..Len(q) : q[i] \in Nat \ {0} BY <1>2, ElementOfSeq
<1>5. ToSet(q) = {q[i] : i \in 1..Len(q)} BY <1>3 DEF ToSet
<1> QED BY <1>1, <1>2, <1>3, <1>4, <1>5 DEF q, NumPackets, Item, Lengths

LEMMA Items ==
  ASSUME stream \in Streams
  PROVE  /\ \A x \in Item : x \in No /\ x # 0
         /\ 0 \in No
         /\ \A x \in No : x # 0 => x \in Item
         /\ \A x \in No : x \in Nat /\ x <= NumPackets
         /\ \A s \in Seq(Item) : s \in Seq(No)
<1>1. NumPackets \in Nat BY Rates
<1>2. \A x \in Item : x \in No /\ x # 0 BY <1>1 DEF Item, No
<1>3. ASSUME NEW s \in Seq(Item) PROVE s \in Seq(No)
  <2>1. Item \subseteq No BY <1>2
  <2> HIDE DEF Item, No
  <2> QED BY <2>1
<1> QED BY <1>1, <1>2, <1>3 DEF Item, No

LEMMA Fixed ==
  ASSUME stream' = stream
  PROVE  /\ NumPackets' = NumPackets /\ Item' = Item /\ Block' = Block /\ No' = No
         /\ Lengths' = Lengths /\ Uniform' = Uniform
BY DEF NumPackets, Item, Block, No, Lengths, Uniform

LEMMA Lists ==
  /\ \A s \in Seq(Item) : s # <<>> => Head(s) \in Item /\ Tail(s) \in Seq(Item)
  /\ \A s \in Seq(Block) : s # <<>> =>
       Head(s) \in Block /\ Tail(s) \in Seq(Block) /\ Head(s).pic \in Item
  /\ \A s \in Seq(Item), x \in Item : Append(s, x) \in Seq(Item)
  /\ \A s \in Seq(Block), x \in Block : Append(s, x) \in Seq(Block)
  /\ <<>> \in Seq(Item) /\ <<>> \in Seq(Block)
<1>1. \A x \in Block : x.pic \in Item BY DEF Block
<1> QED BY <1>1, Concat

LEMMA InitPath == Init => PathInv
<1> SUFFICES ASSUME Init PROVE PathInv OBVIOUS
<1>1. stream \in Streams BY DEF Init
<1>2. Listed BY <1>1, Items, Lists, AacAssumption DEF Init, Listed
<1>3. Len(<<>>) = 0 OBVIOUS
<1>4. Made /\ InHand BY DEF Init, Made, InHand
<1>5. Resampler /\ Ending BY <1>3 DEF Init, Resampler, Ending
<1> QED BY <1>2, <1>4, <1>5 DEF PathInv

(* The decode thread. *)
LEMMA PathDec ==
  ASSUME PathInv, Dec
  PROVE  PathInv'
<1> USE DEF DecStep, scaleVars, packVars, encVars, ownVars
<1>1. /\ UNCHANGED <<stream, added, scaling, dstNb, kept, scalePc, made, encSrcNb, pcm, packing,
                     packPc, frames, encoding, encCodec, packets, encPc, accepted, spoilt,
                     decAbort, encAbort, opc>>
      BY DEF Dec, DecTop, DecIdle, DecPop, DecSend, DecRefused, DecReceive, DecPush, DecAgain
<1>2. stream \in Streams BY DEF PathInv, Listed
<1>3. /\ NumPackets' = NumPackets /\ Item' = Item /\ Block' = Block /\ No' = No
      /\ Lengths' = Lengths
      BY <1>1, Fixed
<1>4. Made' BY <1>1 DEF PathInv, Made
<1>5. Room <=> Room' BY <1>1, <1>3 DEF Room
<1>6. ASSUME es' \in Seq(Item), decCodec' \in Seq(Item), yuv' \in Seq(Item),
             decoding' \in No, received' \in No, srcNb' \in {0} \cup Lengths,
             draining' \in BOOLEAN
      PROVE  Listed'
      BY <1>1, <1>3, <1>6 DEF PathInv, Listed
<1>7. ASSUME decoding' # 0 <=> decPc' = "send", received' # 0 <=> decPc' = "push"
      PROVE  InHand'
      BY <1>1, <1>7 DEF PathInv, InHand
<1>8. ASSUME received' # 0 \/ yuv' # <<>> \/ scaling # 0 => srcNb' # 0
      PROVE  Resampler'
  <2>1. stream.num' = stream.num BY <1>1
  <2> QED BY <1>1, <1>3, <1>5, <1>8, <2>1 DEF PathInv, Resampler
<1>9. ASSUME decPc' = "done" => decCodec' = <<>>, decPc # "done",
             es = <<>> => es' = <<>>
      PROVE  Ending'
      BY <1>1, <1>9 DEF PathInv, Ending
<1>10. CASE DecTop \/ DecIdle \/ DecAgain
  <2>1. decPc # "done" /\ decPc \notin {"send", "push"} /\ decPc' \notin {"send", "push"}
        /\ UNCHANGED <<es, decCodec, yuv, decoding, received, srcNb>> /\ draining' \in BOOLEAN
        BY <1>10 DEF DecTop, DecIdle, DecAgain, PathInv, Listed
  <2>2. decPc' = "done" => decCodec = <<>>
    <3>1. decPc' = "done" => Len(decCodec) <= 0
          BY <1>10, AacAssumption DEF DecTop, DecIdle, DecAgain, DecGives, PathInv, Listed
    <3> QED BY <3>1 DEF PathInv, Listed
  <2>3. Listed' BY <1>6, <2>1 DEF PathInv, Listed
  <2>4. InHand' BY <1>7, <2>1 DEF PathInv, InHand
  <2>5. Resampler' BY <1>8, <2>1 DEF PathInv, Resampler
  <2>6. Ending' BY <1>9, <2>1, <2>2
  <2> QED BY <1>4, <2>3, <2>4, <2>5, <2>6 DEF PathInv
<1>11. CASE DecPop
  <2>1. /\ es # <<>> /\ decPc = "enter" /\ decPc' = "send"
        /\ decoding' = Head(es) /\ es' = Tail(es)
        /\ UNCHANGED <<decCodec, yuv, received, srcNb, draining>>
        BY <1>11 DEF DecPop
  <2>2. Head(es) \in No /\ Head(es) # 0 /\ Tail(es) \in Seq(Item)
        BY <1>2, <2>1, Lists, Items DEF PathInv, Listed
  <2>3. Listed' BY <1>6, <2>1, <2>2 DEF PathInv, Listed
  <2>4. InHand' BY <1>7, <2>1, <2>2 DEF PathInv, InHand
  <2>5. Resampler' BY <1>8, <2>1 DEF PathInv, Resampler
  <2>6. Ending' BY <1>9, <2>1
  <2> QED BY <1>4, <2>3, <2>4, <2>5, <2>6 DEF PathInv
<1>12. CASE DecSend
  <2>1. /\ decPc = "send" /\ decPc' = "receive" /\ decoding' = 0
        /\ decCodec' = Append(decCodec, decoding)
        /\ UNCHANGED <<es, yuv, received, srcNb, draining>>
        BY <1>12 DEF DecSend
  <2>2. decoding \in Item /\ 0 \in No BY <1>2, <2>1, Items DEF PathInv, Listed, InHand
  <2>3. decCodec' \in Seq(Item) BY <2>1, <2>2, Lists DEF PathInv, Listed
  <2>4. Listed' BY <1>6, <2>1, <2>2, <2>3 DEF PathInv, Listed
  <2>5. InHand' BY <1>7, <2>1 DEF PathInv, InHand
  <2>6. Resampler' BY <1>8, <2>1 DEF PathInv, Resampler
  <2>7. Ending' BY <1>9, <2>1
  <2> QED BY <1>4, <2>4, <2>5, <2>6, <2>7 DEF PathInv
<1>13. CASE DecRefused
  <2>1. /\ decPc = "send" /\ decPc' = "top" /\ decoding' = 0
        /\ UNCHANGED <<es, decCodec, yuv, received, srcNb, draining>>
        BY <1>13 DEF DecRefused
  <2>2. Listed' BY <1>2, <1>6, <2>1, Items DEF PathInv, Listed
  <2>3. InHand' BY <1>7, <2>1 DEF PathInv, InHand
  <2>4. Resampler' BY <1>8, <2>1 DEF PathInv, Resampler
  <2>5. Ending' BY <1>9, <2>1
  <2> QED BY <1>4, <2>2, <2>3, <2>4, <2>5 DEF PathInv
<1>14. CASE DecReceive
  <2>1. /\ decPc = "receive" /\ decPc' = "push" /\ received' = Head(decCodec)
        /\ decCodec' = Tail(decCodec) /\ srcNb' = stream.lens[Head(decCodec)]
        /\ Len(decCodec) > 0
        /\ UNCHANGED <<es, yuv, decoding, draining>>
        BY <1>14, AacAssumption DEF DecReceive, DecGives, PathInv, Listed
  <2>2. decCodec # <<>>
    <3>1. Len(<<>>) = 0 OBVIOUS
    <3> QED BY <2>1, <3>1
  <2>3. Head(decCodec) \in Item /\ Tail(decCodec) \in Seq(Item)
        BY <2>2, Lists DEF PathInv, Listed
  <2>4. Head(decCodec) \in No /\ Head(decCodec) # 0 BY <1>2, <2>3, Items
  <2>5. srcNb' \in Lengths /\ srcNb' # 0 BY <1>2, <2>1, <2>3, Rates
  <2>6. Listed' BY <1>6, <2>1, <2>3, <2>4, <2>5 DEF PathInv, Listed
  <2>7. InHand' BY <1>7, <2>1, <2>4 DEF PathInv, InHand
  <2>8. Resampler' BY <1>8, <2>5
  <2>9. Ending' BY <1>9, <2>1
  <2> QED BY <1>4, <2>6, <2>7, <2>8, <2>9 DEF PathInv
<1>15. CASE DecPush
  <2>1. /\ decPc = "push" /\ decPc' = "receive" /\ received' = 0 /\ yuv' = Append(yuv, received)
        /\ UNCHANGED <<es, decCodec, decoding, srcNb, draining>>
        BY <1>15 DEF DecPush, Push
  <2>2. received \in Item /\ 0 \in No BY <1>2, <2>1, Items DEF PathInv, Listed, InHand
  <2>3. yuv' \in Seq(Item) BY <2>1, <2>2, Lists DEF PathInv, Listed
  <2>4. Listed' BY <1>6, <2>1, <2>2, <2>3 DEF PathInv, Listed
  <2>5. InHand' BY <1>7, <2>1 DEF PathInv, InHand
  <2>6. srcNb # 0 BY <2>1 DEF PathInv, InHand, Resampler
  <2>7. Resampler' BY <1>8, <2>1, <2>6
  <2>8. Ending' BY <1>9, <2>1
  <2> QED BY <1>4, <2>4, <2>5, <2>7, <2>8 DEF PathInv
<1> QED BY <1>10, <1>11, <1>12, <1>13, <1>14, <1>15 DEF Dec

(* The scale thread of the decoder, which makes the encoder. *)
LEMMA GrownToFit ==
  ASSUME PathInv, ScaleGrow
  PROVE  dstNb' \in Nat /\ Room'
<1> DEFINE n == stream.num
           d == stream.den
           q == kept \div n
           r == Rescale(Expected)
<1>1. /\ stream \in Streams /\ kept \in Nat /\ dstNb \in Nat /\ srcNb \in {0} \cup Lengths
      /\ srcNb # 0
      BY DEF PathInv, Listed, InHand, Resampler, ScaleGrow, ScaleStep
<1>2. UNCHANGED <<stream, kept, srcNb>> /\ dstNb' = IF r > dstNb THEN r ELSE dstNb
      BY DEF ScaleGrow, ScaleStep, ownVars, decVars
<1>3. n \in Nat \ {0} /\ d \in Nat \ {0} /\ srcNb \in Lengths /\ srcNb \in Nat \ {0}
      BY <1>1, Rates
<1>4. q \in Nat BY <1>1, <1>3, Quotient
<1>5. r = ((q + srcNb) * n + d - 1) \div d BY DEF Rescale, Expected
<1>6. UNCHANGED <<n, d, q>> /\ Lengths' = Lengths BY <1>2, Fixed
<1>7. Room' <=> \E l \in Lengths : (q + l) * n <= dstNb' * d BY <1>6 DEF Room
<1> HIDE DEF n, d, q, r
<1>8. r \in Nat /\ r * d \in Nat /\ (q + srcNb) * n <= r * d
  <2> DEFINE x == q + srcNb
  <2>1. x \in Nat /\ r = (x * n + d - 1) \div d BY <1>3, <1>4, <1>5
  <2> HIDE DEF x
  <2>2. r \in Nat /\ r * d \in Nat /\ r * d >= x * n BY <1>3, <2>1, RoundedUp
  <2>3. x * n \in Nat BY <1>3, <2>1
  <2> QED BY <2>2, <2>3 DEF x
<1>9. dstNb' \in Nat /\ r <= dstNb' BY <1>1, <1>2, <1>8
<1>10. r * d <= dstNb' * d /\ dstNb' * d \in Nat
  <2> DEFINE w == dstNb'
  <2>1. w \in Nat /\ r <= w /\ d \in Nat /\ d <= d BY <1>3, <1>9
  <2> HIDE DEF w
  <2>2. r * d <= w * d /\ w * d \in Nat BY <1>8, <2>1, Products
  <2> QED BY <2>2 DEF w
<1>11. (q + srcNb) * n \in Nat BY <1>3, <1>4
<1>12. (q + srcNb) * n <= dstNb' * d BY <1>8, <1>10, <1>11
<1> QED BY <1>3, <1>7, <1>9, <1>12

LEMMA ConvertedSome ==
  ASSUME PathInv, ScaleConvert
  PROVE  /\ Converted \in Nat \ {0} /\ kept' \in Nat
         /\ \E n \in Lengths : kept' <= n * stream.num
<1> DEFINE n == stream.num
           d == stream.den
           l == stream.lens[scaling]
           c == Converted
           av == Available
<1>1. /\ stream \in Streams /\ kept \in Nat /\ dstNb \in Nat /\ scaling \in No
      /\ scaling # 0 /\ Room
      BY DEF PathInv, Listed, InHand, Resampler, ScaleConvert
<1>2. scaling \in Item BY <1>1, Items
<1>3. /\ n \in Nat \ {0} /\ d \in Nat \ {0} /\ l \in Lengths /\ l * n >= d
      /\ \A s \in Lengths : s \in Nat \ {0}
      BY <1>1, <1>2, Rates
<1>4. PICK s \in Lengths : ((kept \div n) + s) * n <= dstNb * d BY <1>1 DEF Room
<1>5. /\ av = (kept + l * n) \div d /\ c = IF av > dstNb THEN dstNb ELSE av
      /\ kept' = kept + l * n - c * d
      BY DEF Available, Converted, ScaleConvert
<1> HIDE DEF n, d, l, c, av
<1>6. c \in Nat \ {0} /\ kept + l * n - c * d \in Nat /\ kept + l * n - c * d <= l * n
      BY <1>1, <1>3, <1>4, <1>5, Resampled
<1> QED BY <1>3, <1>5, <1>6 DEF n, c

LEMMA PathScale ==
  ASSUME PathInv, Scale
  PROVE  PathInv'
<1> USE DEF ScaleStep, decVars, ownVars
<1>1. /\ UNCHANGED <<stream, added, es, decoding, decCodec, draining, received, srcNb, decPc,
                     packing, frames, encoding, encCodec, packets, accepted, spoilt,
                     decAbort, encAbort, opc>>
      BY DEF Scale, ScaleTop, ScaleIdle, ScalePop, ScaleMake, ScaleGrow, ScaleConvert
<1>2. stream \in Streams /\ 0 \in No BY Items DEF PathInv, Listed
<1>3. /\ NumPackets' = NumPackets /\ Item' = Item /\ Block' = Block /\ No' = No
      /\ Lengths' = Lengths /\ stream.num' = stream.num
      BY <1>1, Fixed
<1>4. ASSUME UNCHANGED <<made, encSrcNb, pcm, packPc, encPc>> PROVE Made'
      BY <1>1, <1>4 DEF PathInv, Made
<1>5. ASSUME yuv' \in Seq(Item), scaling' \in No, dstNb' \in Nat, kept' \in Nat,
             made' \in BOOLEAN, encSrcNb' \in Nat, pcm' \in Seq(Block)
      PROVE  Listed'
      BY <1>1, <1>3, <1>5 DEF PathInv, Listed
<1>6. ASSUME scaling' # 0 <=> scalePc' \in {"make", "grow", "convert"},
             UNCHANGED <<packPc, encPc>>
      PROVE  InHand'
      BY <1>1, <1>6 DEF PathInv, InHand
<1>7. ASSUME scalePc # "done", yuv = <<>> => yuv' = <<>>, UNCHANGED <<made, packPc, encPc>>
      PROVE  Ending'
      BY <1>1, <1>7 DEF PathInv, Ending
<1>8. CASE ScaleTop \/ ScaleIdle \/ ScaleMake
  <2>1. /\ UNCHANGED <<yuv, scaling, kept, made, encSrcNb, pcm, packPc, encPc>>
        /\ scalePc # "done" /\ scalePc' # "convert"
        /\ scalePc' \in {"make", "grow"} <=> scalePc \in {"make", "grow", "convert"}
        BY <1>8 DEF ScaleTop, ScaleIdle, ScaleMake
  <2>2. dstNb' \in Nat
    <3>1. CASE ScaleTop \/ ScaleIdle
          BY <3>1 DEF ScaleTop, ScaleIdle, PathInv, Listed
    <3>2. CASE ScaleMake
      <4> DEFINE n == stream.num
                 d == stream.den
      <4>1. n \in Nat \ {0} /\ d \in Nat \ {0} /\ srcNb \in Nat
            BY <1>2, Rates DEF PathInv, Listed
      <4>2. dstNb' = (srcNb * n + d - 1) \div d BY <3>2 DEF ScaleMake, Rescale
      <4> HIDE DEF n, d
      <4> QED BY <4>1, <4>2, RoundedUp
    <3> QED BY <1>8, <3>1, <3>2
  <2>3. Listed' BY <1>5, <2>1, <2>2 DEF PathInv, Listed
  <2>4. InHand' BY <1>6, <2>1 DEF PathInv, InHand
  <2>5. Resampler' BY <1>1, <1>3, <2>1 DEF PathInv, Resampler
  <2>6. Ending' BY <1>7, <2>1
  <2> QED BY <1>4, <2>1, <2>3, <2>4, <2>5, <2>6 DEF PathInv
<1>9. CASE ScalePop
  <2>1. /\ yuv # <<>> /\ scalePc = "enter" /\ scalePc' \in {"make", "grow"}
        /\ scaling' = Head(yuv) /\ yuv' = Tail(yuv)
        /\ UNCHANGED <<dstNb, kept, made, encSrcNb, pcm, packPc, encPc>>
        BY <1>9 DEF ScalePop
  <2>2. Head(yuv) \in No /\ Head(yuv) # 0 /\ Tail(yuv) \in Seq(Item)
        BY <1>2, <2>1, Lists, Items DEF PathInv, Listed
  <2>3. Listed' BY <1>5, <2>1, <2>2 DEF PathInv, Listed
  <2>4. InHand' BY <1>6, <2>1, <2>2
  <2>5. Resampler' BY <1>1, <1>3, <2>1 DEF PathInv, Resampler
  <2>6. Ending' BY <1>7, <2>1
  <2> QED BY <1>4, <2>1, <2>3, <2>4, <2>5, <2>6 DEF PathInv
<1>10. CASE ScaleGrow
  <2>1. /\ scalePc = "grow" /\ scalePc' = "convert"
        /\ UNCHANGED <<yuv, scaling, kept, made, encSrcNb, pcm, packPc, encPc>>
        BY <1>10 DEF ScaleGrow
  <2>2. dstNb' \in Nat /\ Room' BY <1>10, GrownToFit
  <2>3. Listed' BY <1>5, <2>1, <2>2 DEF PathInv, Listed
  <2>4. InHand' BY <1>6, <2>1 DEF PathInv, InHand
  <2>5. Resampler' BY <1>1, <1>3, <2>1, <2>2 DEF PathInv, Resampler
  <2>6. Ending' BY <1>7, <2>1
  <2> QED BY <1>4, <2>1, <2>3, <2>4, <2>5, <2>6 DEF PathInv
<1>11. CASE ScaleConvert
  <2> DEFINE c == Converted
             b == [pic |-> scaling, len |-> c]
  <2>1. /\ scalePc = "convert" /\ scalePc' = "top" /\ scaling' = 0 /\ pcm' = Append(pcm, b)
        /\ made' = TRUE /\ encSrcNb' = (IF made THEN encSrcNb ELSE c)
        /\ packPc' = (IF made THEN packPc ELSE "top")
        /\ encPc' = (IF made THEN encPc ELSE "top")
        /\ UNCHANGED <<yuv, dstNb>>
        BY <1>11 DEF ScaleConvert, MakeEncoder, Push
  <2>2. c \in Nat \ {0} /\ kept' \in Nat /\ \E n \in Lengths : kept' <= n * stream.num
        BY <1>11, ConvertedSome
  <2>3. scaling \in Item BY <1>2, <2>1, Items DEF PathInv, Listed, InHand
  <2>4. b \in Block BY <2>2, <2>3 DEF Block
  <2>5. pcm' \in Seq(Block) BY <2>1, <2>4, Lists DEF PathInv, Listed
  <2> HIDE DEF b, c
  <2>6. Listed' BY <1>2, <1>5, <2>1, <2>2, <2>5 DEF PathInv, Listed
  <2>7. ~made => packPc = "none" /\ encPc = "none" /\ packing = 0 /\ encoding = 0
        BY DEF PathInv, Made, InHand
  <2>8. InHand' BY <1>1, <2>1, <2>7 DEF PathInv, InHand
  <2>9. Made' BY <1>1, <2>1, <2>2 DEF PathInv, Made, Listed
  <2>10. Resampler' BY <1>1, <1>3, <2>1, <2>2 DEF PathInv, Resampler
  <2>11. Ending' BY <1>1, <2>1, <2>7 DEF PathInv, Ending
  <2> QED BY <2>6, <2>8, <2>9, <2>10, <2>11 DEF PathInv
<1> QED BY <1>8, <1>9, <1>10, <1>11 DEF Scale

(* The threads of the encoder. *)
LEMMA PathPack ==
  ASSUME PathInv, Pack
  PROVE  PathInv'
<1> USE DEF PackStep, decVars, scaleVars, encVars, ownVars
<1>1. /\ UNCHANGED <<stream, added, es, decoding, decCodec, draining, received, srcNb, decPc,
                     yuv, scaling, dstNb, kept, scalePc, made, encSrcNb, encoding, encCodec,
                     packets, encPc, accepted, decAbort, encAbort, opc>>
      /\ packPc # "none" /\ packPc' # "none" /\ packPc # "done"
      BY DEF Pack, PackTop, PackIdle, PackPop, PackPush
<1>2. stream \in Streams /\ 0 \in No BY Items DEF PathInv, Listed
<1>3. /\ NumPackets' = NumPackets /\ Item' = Item /\ Block' = Block /\ No' = No
      /\ Lengths' = Lengths /\ stream.num' = stream.num
      BY <1>1, Fixed
<1>4. Made' BY <1>1 DEF PathInv, Made
<1>5. Resampler'
  <2>1. Room' <=> Room BY <1>1, <1>3 DEF Room
  <2> QED BY <1>1, <1>3, <2>1 DEF PathInv, Resampler
<1>6. Ending' BY <1>1 DEF PathInv, Ending
<1>7. ASSUME pcm' \in Seq(Block), packing' \in No, frames' \in Seq(Item), spoilt' \subseteq No
      PROVE  Listed'
      BY <1>1, <1>3, <1>7 DEF PathInv, Listed
<1>8. ASSUME packing' # 0 <=> packPc' = "push" PROVE InHand'
      BY <1>1, <1>8 DEF PathInv, InHand
<1>9. CASE PackTop \/ PackIdle
  <2>1. /\ UNCHANGED <<pcm, packing, frames, spoilt>>
        /\ packPc # "push" /\ packPc' # "push"
        BY <1>9 DEF PackTop, PackIdle
  <2>2. Listed' BY <1>7, <2>1 DEF PathInv, Listed
  <2>3. InHand' BY <1>8, <2>1 DEF PathInv, InHand
  <2> QED BY <1>4, <1>5, <1>6, <2>2, <2>3 DEF PathInv
<1>10. CASE PackPop
  <2>1. /\ pcm # <<>> /\ packPc' = "push" /\ packing' = Head(pcm).pic /\ pcm' = Tail(pcm)
        /\ spoilt' \subseteq spoilt \cup {packing'} /\ frames' = frames
        BY <1>10 DEF PackPop
  <2>2. Head(pcm).pic \in No /\ Head(pcm).pic # 0 /\ Tail(pcm) \in Seq(Block)
        BY <1>2, <2>1, Lists, Items DEF PathInv, Listed
  <2>3. spoilt' \subseteq No BY <2>1, <2>2 DEF PathInv, Listed
  <2>4. Listed' BY <1>7, <2>1, <2>2, <2>3 DEF PathInv, Listed
  <2>5. InHand' BY <1>8, <2>1, <2>2
  <2> QED BY <1>4, <1>5, <1>6, <2>4, <2>5 DEF PathInv
<1>11. CASE PackPush
  <2>1. /\ packPc = "push" /\ packPc' = "top" /\ packing' = 0
        /\ frames' = Append(frames, packing) /\ UNCHANGED <<pcm, spoilt>>
        BY <1>11 DEF PackPush, Push
  <2>2. packing \in Item BY <1>2, <2>1, Items DEF PathInv, Listed, InHand
  <2>3. frames' \in Seq(Item) BY <2>1, <2>2, Lists DEF PathInv, Listed
  <2>4. Listed' BY <1>2, <1>7, <2>1, <2>3 DEF PathInv, Listed
  <2>5. InHand' BY <1>8, <2>1
  <2> QED BY <1>4, <1>5, <1>6, <2>4, <2>5 DEF PathInv
<1> QED BY <1>9, <1>10, <1>11 DEF Pack

LEMMA Deliveries ==
  ASSUME PathInv, encCodec # <<>>, packets' = Append(packets, Head(encCodec)),
         encCodec' = Tail(encCodec)
  PROVE  /\ packets' \in Seq(Item) /\ encCodec' \in Seq(Item)
         /\ Len(packets') + Len(encCodec') = Len(packets) + Len(encCodec)
<1>1. packets \in Seq(Item) /\ encCodec \in Seq(Item) BY DEF PathInv, Listed
<1>2. Head(encCodec) \in Item /\ Tail(encCodec) \in Seq(Item) BY <1>1, Lists
<1>3. packets' \in Seq(Item) BY <1>1, <1>2, Lists
<1>4. Len(packets') = Len(packets) + 1 /\ Len(packets) \in Nat
      BY <1>1, <1>2, AppendProperties
<1>5. Len(encCodec') = Len(encCodec) - 1 /\ Len(encCodec) \in Nat
      BY <1>1, HeadTailProperties
<1> QED BY <1>2, <1>3, <1>4, <1>5

LEMMA PathEnc ==
  ASSUME PathInv, Enc
  PROVE  PathInv'
<1> USE DEF EncStep, decVars, scaleVars, packVars, ownVars, Deliver
<1>1. /\ UNCHANGED <<stream, added, es, decoding, decCodec, draining, received, srcNb, decPc,
                     yuv, scaling, dstNb, kept, scalePc, made, encSrcNb, pcm, packing, packPc,
                     spoilt, decAbort, encAbort, opc>>
      /\ encPc # "none" /\ encPc' # "none" /\ encPc # "done"
      BY DEF Enc, EncTop, EncIdle, EncPop, EncSend, EncRefused, EncReceive, EncAgain, EncFlush,
             EncEnd
<1>2. stream \in Streams /\ 0 \in No BY Items DEF PathInv, Listed
<1>3. /\ NumPackets' = NumPackets /\ Item' = Item /\ Block' = Block /\ No' = No
      /\ Lengths' = Lengths /\ stream.num' = stream.num
      BY <1>1, Fixed
<1>4. made /\ Made' BY <1>1 DEF PathInv, Made
<1>5. Resampler'
  <2>1. Room' <=> Room BY <1>1, <1>3 DEF Room
  <2> QED BY <1>1, <1>3, <2>1 DEF PathInv, Resampler
<1>6. ASSUME accepted' = Len(packets') + Len(encCodec'), encPc' = "done" => encCodec' = <<>>
      PROVE  Ending'
      BY <1>1, <1>4, <1>6 DEF PathInv, Ending
<1>7. ASSUME frames' \in Seq(Item), encoding' \in No, encCodec' \in Seq(Item),
             packets' \in Seq(Item), accepted' \in Nat
      PROVE  Listed'
      BY <1>1, <1>3, <1>7 DEF PathInv, Listed
<1>8. ASSUME encoding' # 0 <=> encPc' = "send" PROVE InHand'
      BY <1>1, <1>8 DEF PathInv, InHand
<1>9. CASE EncTop \/ EncIdle \/ EncAgain \/ EncEnd
  <2>1. /\ UNCHANGED <<frames, encoding, encCodec, packets, accepted>>
        /\ encPc # "send" /\ encPc' # "send"
        /\ encPc' = "done" => encCodec = <<>>
        BY <1>9 DEF EncTop, EncIdle, EncAgain, EncEnd, Flushed
  <2>2. Listed' BY <1>7, <2>1 DEF PathInv, Listed
  <2>3. InHand' BY <1>8, <2>1 DEF PathInv, InHand
  <2>4. Ending' BY <1>6, <2>1 DEF PathInv, Ending
  <2> QED BY <1>4, <1>5, <2>2, <2>3, <2>4 DEF PathInv
<1>10. CASE EncPop
  <2>1. /\ frames # <<>> /\ encPc' = "send" /\ encoding' = Head(frames) /\ frames' = Tail(frames)
        /\ UNCHANGED <<encCodec, packets, accepted>>
        BY <1>10 DEF EncPop
  <2>2. Head(frames) \in No /\ Head(frames) # 0 /\ Tail(frames) \in Seq(Item)
        BY <1>2, <2>1, Lists, Items DEF PathInv, Listed
  <2>3. Listed' BY <1>7, <2>1, <2>2 DEF PathInv, Listed
  <2>4. InHand' BY <1>8, <2>1, <2>2
  <2>5. Ending' BY <1>6, <2>1 DEF PathInv, Ending
  <2> QED BY <1>4, <1>5, <2>3, <2>4, <2>5 DEF PathInv
<1>11. CASE EncSend
  <2>1. /\ encPc = "send" /\ encPc' = "receive" /\ encCodec' = Append(encCodec, encoding)
        /\ accepted' = accepted + 1 /\ encoding' = 0 /\ UNCHANGED <<frames, packets>>
        BY <1>11 DEF EncSend
  <2>2. encoding \in Item BY <1>2, <2>1, Items DEF PathInv, Listed, InHand
  <2>3. encCodec' \in Seq(Item) BY <2>1, <2>2, Lists DEF PathInv, Listed
  <2>4. Len(encCodec') = Len(encCodec) + 1 /\ Len(encCodec) \in Nat /\ Len(packets) \in Nat
        BY <2>1, <2>2, AppendProperties DEF PathInv, Listed
  <2>5. Listed' BY <1>2, <1>7, <2>1, <2>3 DEF PathInv, Listed
  <2>6. InHand' BY <1>8, <2>1
  <2>7. accepted' = Len(packets') + Len(encCodec')
        BY <2>1, <2>4 DEF PathInv, Ending
  <2>8. Ending' BY <1>6, <2>1, <2>7
  <2> QED BY <1>4, <1>5, <2>5, <2>6, <2>8 DEF PathInv
<1>12. CASE EncRefused
  <2>1. /\ encPc = "send" /\ encPc' = "top" /\ encoding' = 0
        /\ UNCHANGED <<frames, encCodec, packets, accepted>>
        BY <1>12 DEF EncRefused
  <2>2. Listed' BY <1>2, <1>7, <2>1 DEF PathInv, Listed
  <2>3. InHand' BY <1>8, <2>1
  <2>4. Ending' BY <1>6, <2>1 DEF PathInv, Ending
  <2> QED BY <1>4, <1>5, <2>2, <2>3, <2>4 DEF PathInv
<1>13. CASE EncReceive \/ EncFlush
  <2>1. /\ encPc' \notin {"done", "send"} /\ encPc # "send"
        /\ packets' = Append(packets, Head(encCodec)) /\ encCodec' = Tail(encCodec)
        /\ UNCHANGED <<frames, encoding, accepted>>
        BY <1>13 DEF EncReceive, EncFlush
  <2>2. encCodec # <<>>
    <3>1. Len(<<>>) = 0 OBVIOUS
    <3> QED BY <1>13, <3>1, AacAssumption DEF EncReceive, EncFlush
  <2>3. /\ packets' \in Seq(Item) /\ encCodec' \in Seq(Item)
        /\ Len(packets') + Len(encCodec') = Len(packets) + Len(encCodec)
        BY <2>1, <2>2, Deliveries
  <2>4. Listed' BY <1>7, <2>1, <2>3 DEF PathInv, Listed
  <2>5. InHand' BY <1>8, <2>1 DEF PathInv, InHand
  <2>6. Ending' BY <1>6, <2>1, <2>3 DEF PathInv, Ending
  <2> QED BY <1>4, <1>5, <2>4, <2>5, <2>6 DEF PathInv
<1> QED BY <1>9, <1>10, <1>11, <1>12, <1>13 DEF Enc

(* The owner. *)
LEMMA PathOwner ==
  ASSUME PathInv, Owner
  PROVE  PathInv'
<1> USE DEF OwnerStep, decVars, scaleVars, packVars, encVars, ownVars
<1>1. /\ UNCHANGED <<stream, decoding, decCodec, draining, received, srcNb, decPc,
                     scaling, dstNb, kept, scalePc, made, encSrcNb, packing, packPc,
                     encoding, encCodec, packets, encPc, accepted, spoilt>>
      BY DEF Owner, OnAudioData, Destroy, Teardown, JoinDec, JoinScale, JoinEnc, JoinPack
<1>2. stream \in Streams /\ 0 \in No BY Items DEF PathInv, Listed
<1>3. /\ NumPackets' = NumPackets /\ Item' = Item /\ Block' = Block /\ No' = No
      /\ Lengths' = Lengths /\ stream.num' = stream.num
      BY <1>1, Fixed
<1>4. InHand' BY <1>1 DEF PathInv, InHand
<1>5. ASSUME added' \in No, es' \in Seq(Item), yuv' \in Seq(Item), pcm' \in Seq(Block),
             frames' \in Seq(Item), decAbort' \in BOOLEAN, encAbort' \in BOOLEAN
      PROVE  Listed'
      BY <1>1, <1>3, <1>5 DEF PathInv, Listed
<1>6. ASSUME pcm' = pcm \/ pcm' = <<>>, frames' = frames \/ frames' = <<>> PROVE Made'
      BY <1>1, <1>6 DEF PathInv, Made
<1>7. ASSUME yuv' = yuv \/ yuv' = <<>> PROVE Resampler'
  <2>1. Room' <=> Room BY <1>1, <1>3 DEF Room
  <2> QED BY <1>1, <1>3, <1>7, <2>1 DEF PathInv, Resampler
<1>8. CASE OnAudioData
  <2>1. /\ added < NumPackets /\ opc = "open" /\ opc' = "open" /\ added' = added + 1
        /\ es' = Append(es, added + 1) /\ UNCHANGED <<decAbort, encAbort, yuv, pcm, frames>>
        BY <1>8 DEF OnAudioData, Push
  <2>2. added + 1 \in Item /\ added + 1 \in No
        BY <1>2, <2>1, Rates DEF PathInv, Listed, No, Item
  <2>3. es' \in Seq(Item) BY <2>1, <2>2, Lists DEF PathInv, Listed
  <2>4. Listed' BY <1>5, <2>1, <2>2, <2>3 DEF PathInv, Listed
  <2>5. Made' /\ Resampler' BY <1>6, <1>7, <2>1
  <2>6. Ending' BY <1>1, <2>1 DEF PathInv, Ending
  <2> QED BY <1>4, <2>4, <2>5, <2>6 DEF PathInv
<1>9. CASE Destroy \/ JoinDec \/ JoinEnc
  <2>1. UNCHANGED <<added, es, yuv, pcm, frames>> /\ decAbort' \in BOOLEAN
        /\ encAbort' \in BOOLEAN
        BY <1>9 DEF Destroy, JoinDec, JoinEnc, PathInv, Listed
  <2>2. Listed' BY <1>5, <2>1 DEF PathInv, Listed
  <2>3. Made' /\ Resampler' BY <1>6, <1>7, <2>1
  <2>4. Ending' BY <1>1, <1>9, <2>1 DEF Destroy, JoinDec, JoinEnc, PathInv, Ending
  <2> QED BY <1>4, <2>2, <2>3, <2>4 DEF PathInv
<1>10. CASE JoinScale
  <2>1. /\ es' = <<>> /\ yuv' = <<>> /\ encAbort' = made /\ scalePc = "done"
        /\ UNCHANGED <<added, decAbort, pcm, frames>>
        /\ opc = "joinScale" /\ opc' = (IF made THEN "joinEnc" ELSE "dead")
        BY <1>10 DEF JoinScale
  <2>2. Listed' BY <1>5, <2>1, Lists DEF PathInv, Listed
  <2>3. Made' /\ Resampler' BY <1>6, <1>7, <2>1
  <2>4. Ending' BY <1>1, <2>1 DEF PathInv, Ending, Listed
  <2> QED BY <1>4, <2>2, <2>3, <2>4 DEF PathInv
<1>11. CASE JoinPack
  <2>1. /\ pcm' = <<>> /\ frames' = <<>> /\ packPc = "done"
        /\ UNCHANGED <<added, decAbort, encAbort, es, yuv>>
        /\ opc = "joinPack" /\ opc' = "dead"
        BY <1>11 DEF JoinPack
  <2>2. Listed' BY <1>5, <2>1, Lists DEF PathInv, Listed
  <2>3. Made' /\ Resampler' BY <1>6, <1>7, <2>1
  <2>4. Ending' BY <1>1, <2>1 DEF PathInv, Ending
  <2> QED BY <1>4, <2>2, <2>3, <2>4 DEF PathInv
<1> QED BY <1>8, <1>9, <1>10, <1>11 DEF Owner, Teardown

LEMMA StepPath == PathInv /\ [Next]_vars => PathInv'
<1> SUFFICES ASSUME PathInv, [Next]_vars PROVE PathInv' OBVIOUS
<1>1. CASE UNCHANGED vars
  <2> USE DEF vars, decVars, scaleVars, packVars, encVars, ownVars
  <2>1. /\ NumPackets' = NumPackets /\ Item' = Item /\ Block' = Block /\ No' = No
        /\ Lengths' = Lengths /\ stream.num' = stream.num
        BY <1>1, Fixed
  <2>2. Room' <=> Room BY <1>1, <2>1 DEF Room
  <2>3. Listed' BY <1>1, <2>1 DEF PathInv, Listed
  <2>4. InHand' /\ Made' BY <1>1 DEF PathInv, InHand, Made
  <2>5. Resampler' BY <1>1, <2>1, <2>2 DEF PathInv, Resampler
  <2>6. Ending' BY <1>1 DEF PathInv, Ending
  <2> QED BY <2>3, <2>4, <2>5, <2>6 DEF PathInv
<1> QED BY <1>1, PathDec, PathScale, PathPack, PathEnc, PathOwner DEF Next

(***************************************************************************)
(* A stream of one length at the rate of the output: what every length in  *)
(* the path is.                                                            *)
(***************************************************************************)
AllAre(n) ==
  /\ kept = 0 /\ dstNb \in {0, n} /\ spoilt = {}
  /\ scalePc = "convert" => dstNb = n
  /\ made => encSrcNb = n
  /\ pcm \in Seq([pic : Item, len : {n}])

ExactInv == PathInv /\ (Uniform => \A n \in Lengths : AllAre(n))

LEMMA InitExact == Init => ExactInv
<1> SUFFICES ASSUME Init PROVE ExactInv OBVIOUS
<1>1. \A n : <<>> \in Seq([pic : Item, len : {n}]) BY Concat
<1> QED BY <1>1, InitPath DEF Init, ExactInv, AllAre

LEMMA StreamStays == [Next]_vars => stream' = stream
<1> USE DEF decVars, scaleVars, packVars, encVars, ownVars, DecStep, ScaleStep, PackStep, EncStep,
            OwnerStep
<1> SUFFICES ASSUME [Next]_vars PROVE stream' = stream OBVIOUS
<1>1. CASE Dec
      BY <1>1 DEF Dec, DecTop, DecIdle, DecPop, DecSend, DecRefused, DecReceive, DecPush, DecAgain
<1>2. CASE Scale
      BY <1>2 DEF Scale, ScaleTop, ScaleIdle, ScalePop, ScaleMake, ScaleGrow, ScaleConvert
<1>3. CASE Pack BY <1>3 DEF Pack, PackTop, PackIdle, PackPop, PackPush
<1>4. CASE Enc
      BY <1>4 DEF Enc, EncTop, EncIdle, EncPop, EncSend, EncRefused, EncReceive, EncAgain,
                  EncFlush, EncEnd, Deliver
<1>5. CASE Owner
      BY <1>5 DEF Owner, OnAudioData, Destroy, Teardown, JoinDec, JoinScale, JoinEnc, JoinPack
<1>6. CASE UNCHANGED vars BY <1>6 DEF vars
<1> QED BY <1>1, <1>2, <1>3, <1>4, <1>5, <1>6 DEF Next

LEMMA StepAllAre ==
  ASSUME ExactInv, Uniform, NEW n \in Lengths, [Next]_vars
  PROVE  AllAre(n)'
<1> DEFINE B == [pic : Item, len : {n}]
<1> USE DEF decVars, scaleVars, packVars, encVars, ownVars, DecStep, ScaleStep, PackStep, EncStep,
            OwnerStep
<1>1. /\ stream \in Streams /\ stream.num = stream.den /\ PathInv /\ AllAre(n)
      /\ \A m \in Lengths : m = n
      BY DEF ExactInv, Uniform, PathInv, Listed
<1>2. n \in Nat \ {0} /\ stream.num \in Nat \ {0} BY <1>1, Rates
<1>3. stream' = stream BY StreamStays
<1>4. Item' = Item BY <1>3, Fixed
<1>5. ASSUME UNCHANGED <<kept, dstNb, spoilt, made, encSrcNb, pcm>>,
             scalePc' = "convert" => scalePc = "convert"
      PROVE  AllAre(n)'
      BY <1>1, <1>4, <1>5 DEF AllAre
<1>6. CASE Dec
      BY <1>5, <1>6 DEF Dec, DecTop, DecIdle, DecPop, DecSend, DecRefused, DecReceive, DecPush,
                        DecAgain
<1>7. CASE Enc
      BY <1>5, <1>7 DEF Enc, EncTop, EncIdle, EncPop, EncSend, EncRefused, EncReceive, EncAgain,
                        EncFlush, EncEnd, Deliver
<1>8. CASE UNCHANGED vars BY <1>5, <1>8 DEF vars
<1>9. CASE Owner
  <2>1. CASE JoinPack
    <3>1. <<>> \in Seq(B) BY Concat
    <3> QED BY <1>1, <1>4, <2>1, <3>1 DEF AllAre, JoinPack
  <2> QED BY <1>5, <1>9, <2>1 DEF Owner, OnAudioData, Destroy, Teardown, JoinDec, JoinScale,
                                  JoinEnc
<1>10. CASE PackTop \/ PackIdle \/ PackPush
       BY <1>5, <1>10 DEF PackTop, PackIdle, PackPush
<1>11. CASE PackPop
  <2>1. pcm # <<>> /\ pcm \in Seq(B) /\ made /\ encSrcNb = n
        BY <1>1, <1>11 DEF PackPop, AllAre, PathInv, Made
  <2>2. Head(pcm) \in B /\ Tail(pcm) \in Seq(B) BY <2>1, Concat
  <2>3. ReadLength = Head(pcm).len BY <2>1, <2>2 DEF ReadLength
  <2> QED BY <1>1, <1>4, <1>11, <2>2, <2>3 DEF PackPop, AllAre
<1>12. CASE ScaleTop \/ ScaleIdle \/ ScalePop
       BY <1>5, <1>12 DEF ScaleTop, ScaleIdle, ScalePop
<1>13. CASE ScaleMake \/ ScaleGrow
  <2> DEFINE d == stream.den
             s == srcNb
  <2>1. s \in Lengths /\ kept = 0 /\ dstNb \in {0, n}
        BY <1>1, <1>13 DEF ScaleMake, ScaleGrow, PathInv, Listed, InHand, Resampler, AllAre
  <2>2. s = n /\ (kept \div stream.num) + s = n BY <1>1, <1>2, <2>1, SameRate
  <2>3. Rescale(n) = n
    <3>1. Rescale(n) = (n * d + d - 1) \div d /\ d \in Nat \ {0}
          BY <1>1, <1>2 DEF Rescale
    <3> HIDE DEF d
    <3> QED BY <1>2, <3>1, RoundedUp
  <2>4. Rescale(srcNb) = n /\ Rescale(Expected) = n BY <2>2, <2>3 DEF Expected
  <2>5. dstNb' = n
    <3>1. CASE ScaleMake BY <2>4, <3>1 DEF ScaleMake
    <3>2. CASE ScaleGrow
      <4>1. dstNb' = IF n > dstNb THEN n ELSE dstNb BY <2>4, <3>2 DEF ScaleGrow
      <4> QED BY <1>2, <2>1, <4>1
    <3> QED BY <1>13, <3>1, <3>2
  <2>6. UNCHANGED <<kept, spoilt, made, encSrcNb, pcm>>
        BY <1>13 DEF ScaleMake, ScaleGrow
  <2> QED BY <1>1, <1>4, <2>5, <2>6 DEF AllAre
<1>14. CASE ScaleConvert
  <2> DEFINE d == stream.den
             b == [pic |-> scaling, len |-> Converted]
  <2>1. scaling \in No /\ scaling # 0 /\ kept = 0 /\ dstNb = n
        BY <1>1, <1>14 DEF ScaleConvert, PathInv, Listed, InHand, AllAre
  <2>2. scaling \in Item BY <1>1, <2>1, Items
  <2>3. stream.lens[scaling] = n BY <1>1, <2>2, Rates
  <2>4. d \in Nat \ {0} /\ Available = (0 + n * d) \div d BY <1>1, <1>2, <2>1, <2>3 DEF Available
  <2>5. Converted = n
    <3>1. Available = n
      <4> HIDE DEF d
      <4> QED BY <1>2, <2>4, SameRate
    <3> QED BY <1>2, <2>1, <3>1 DEF Converted
  <2>6. kept' = 0
    <3>1. kept' = 0 + n * d - n * d
          BY <1>1, <1>14, <2>1, <2>3, <2>5 DEF ScaleConvert
    <3> HIDE DEF d
    <3> QED BY <1>2, <2>4, <3>1, SameRate
  <2>7. b \in B BY <2>2, <2>5
  <2>8. pcm' = Append(pcm, b) BY <1>14 DEF ScaleConvert, Push
  <2>9. pcm' \in Seq(B)
    <3> HIDE DEF b
    <3>1. pcm \in Seq(B) BY <1>1 DEF AllAre
    <3> HIDE DEF B
    <3> QED BY <2>7, <2>8, <3>1, Concat
  <2>10. dstNb' = n /\ spoilt' = {} /\ made' = TRUE /\ encSrcNb' = n /\ scalePc' # "convert"
        BY <1>1, <1>14, <2>1, <2>5 DEF ScaleConvert, MakeEncoder, AllAre
  <2> QED BY <1>4, <2>6, <2>9, <2>10 DEF AllAre
<1> QED BY <1>6, <1>7, <1>8, <1>9, <1>10, <1>11, <1>12, <1>13, <1>14 DEF Next, Pack, Scale

LEMMA StepExact == ExactInv /\ [Next]_vars => ExactInv'
<1> SUFFICES ASSUME ExactInv, [Next]_vars PROVE ExactInv' OBVIOUS
<1>1. PathInv' BY StepPath DEF ExactInv
<1>2. stream' = stream BY StreamStays
<1>3. Uniform' = Uniform /\ Lengths' = Lengths BY <1>2, Fixed
<1>4. ASSUME Uniform', NEW n \in Lengths' PROVE AllAre(n)'
      BY <1>3, <1>4, StepAllAre
<1> QED BY <1>1, <1>4 DEF ExactInv

(***************************************************************************)
(* The path as a LossyFifo.  What is at a place or behind it, from the     *)
(* decoder's list forward to the encoder's codec.                          *)
(***************************************************************************)
AtDecode == Cat(One(decoding), es)
AtCodec == Cat(decCodec, AtDecode)
AtReceive == Cat(One(received), AtCodec)
AtYuv == Cat(yuv, AtReceive)
AtScale == Cat(One(scaling), AtYuv)
AtPcm == Cat(InPcm, AtScale)
AtPack == Cat(One(packing), AtPcm)
AtFrames == Cat(frames, AtPack)
AtEncode == Cat(One(encoding), AtFrames)
Inside == Cat(encCodec, AtEncode)

PicOf == [b \in Block |-> b.pic]

FlowParts ==
  /\ es \in Seq(Item) /\ decCodec \in Seq(Item) /\ yuv \in Seq(Item) /\ InPcm \in Seq(Item)
  /\ frames \in Seq(Item) /\ encCodec \in Seq(Item)
  /\ \A x \in {decoding, received, scaling, packing, encoding} : One(x) \in Seq(Item)
  /\ AtDecode \in Seq(Item) /\ AtCodec \in Seq(Item) /\ AtReceive \in Seq(Item)
  /\ AtYuv \in Seq(Item) /\ AtScale \in Seq(Item) /\ AtPcm \in Seq(Item)
  /\ AtPack \in Seq(Item) /\ AtFrames \in Seq(Item) /\ AtEncode \in Seq(Item)
  /\ Inside \in Seq(Item)
  /\ InPcm = Mapped(pcm, PicOf) /\ PicOf \in Maps(Block, Item)

LEMMA OneOf ==
  ASSUME stream \in Streams
  PROVE  /\ One(0) = <<>> /\ \A x \in Item : One(x) = <<x>>
         /\ \A x \in No : One(x) \in Seq(Item)
<1>1. One(0) = <<>> /\ \A x \in Item : One(x) = <<x>> BY Items DEF One
<1>2. ASSUME NEW x \in No PROVE One(x) \in Seq(Item)
  <2>1. CASE x = 0 BY <1>1, <2>1, Lists
  <2>2. CASE x # 0
    <3>1. x \in Item BY <2>2, Items
    <3>2. \A y \in Item : <<y>> \in Seq(Item) BY Concat
    <3> QED BY <1>1, <3>1, <3>2
  <2> QED BY <2>1, <2>2
<1> QED BY <1>1, <1>2

LEMMA Parts == PathInv => FlowParts
<1> SUFFICES ASSUME PathInv PROVE FlowParts OBVIOUS
<1>1. /\ es \in Seq(Item) /\ decCodec \in Seq(Item) /\ yuv \in Seq(Item)
      /\ frames \in Seq(Item) /\ encCodec \in Seq(Item) /\ pcm \in Seq(Block)
      /\ stream \in Streams
      BY DEF PathInv, Listed
<1>2. \A x \in {decoding, received, scaling, packing, encoding} : One(x) \in Seq(Item)
      BY <1>1, OneOf DEF PathInv, Listed
<1>3. PicOf \in Maps(Block, Item) BY DEF PicOf, Maps, Block
<1>4. InPcm = Mapped(pcm, PicOf)
  <2>1. \A i \in DOMAIN pcm : pcm[i] \in Block BY <1>1, ElementOfSeq
  <2> QED BY <2>1 DEF InPcm, Mapped, PicOf
<1>5. InPcm \in Seq(Item) BY <1>1, <1>3, <1>4, MappedSeq
<1>6. \A s, t \in Seq(Item) : Cat(s, t) \in Seq(Item) BY CatLaws
<1>7. AtDecode \in Seq(Item) /\ AtCodec \in Seq(Item) /\ AtReceive \in Seq(Item)
      BY <1>1, <1>2, <1>6 DEF AtDecode, AtCodec, AtReceive
<1>8. AtYuv \in Seq(Item) /\ AtScale \in Seq(Item) /\ AtPcm \in Seq(Item)
      BY <1>1, <1>2, <1>5, <1>6, <1>7 DEF AtYuv, AtScale, AtPcm
<1>9. AtPack \in Seq(Item) /\ AtFrames \in Seq(Item)
      BY <1>1, <1>2, <1>6, <1>8 DEF AtPack, AtFrames
<1>10. AtEncode \in Seq(Item) /\ Inside \in Seq(Item)
       BY <1>1, <1>2, <1>6, <1>9 DEF AtEncode, Inside
<1> QED BY <1>1, <1>2, <1>3, <1>4, <1>5, <1>7, <1>8, <1>9, <1>10 DEF FlowParts

LEMMA PartsNext == PathInv' => FlowParts'
BY Parts, PTL

LoseStep == Lossy(Inside, Inside') /\ UNCHANGED <<packets, added>>
PutStep == Joined(Inside, Inside', added + 1) /\ added' = added + 1 /\ UNCHANGED packets
GiveStep ==
  /\ Inside # <<>>
  /\ packets' = Append(packets, Head(Inside))
  /\ Inside' = Tail(Inside)
  /\ UNCHANGED added
FifoStep == LoseStep \/ PutStep \/ GiveStep \/ UNCHANGED <<Inside, packets, added>>

Flowing == PathInv /\ PathInv' /\ FlowParts /\ FlowParts' /\ Item' = Item

(* A loss, or none, at a place is one of the whole path. *)
LEMMA FromInside ==
  ASSUME UNCHANGED <<packets, added>>, Less(Inside, Inside')
  PROVE  FifoStep
BY DEF FifoStep, LoseStep, Less

LEMMA FromEncode ==
  ASSUME Flowing, UNCHANGED <<packets, added, encCodec>>, Less(AtEncode, AtEncode')
  PROVE  FifoStep
<1>1. Less(Cat(encCodec, AtEncode), Cat(encCodec, AtEncode')) BY CatLess DEF Flowing, FlowParts
<1> QED BY <1>1, FromInside DEF Inside

LEMMA FromFrames ==
  ASSUME Flowing, UNCHANGED <<packets, added, encCodec, encoding>>, Less(AtFrames, AtFrames')
  PROVE  FifoStep
<1>1. One(encoding)' = One(encoding) OBVIOUS
<1>2. Less(Cat(One(encoding), AtFrames), Cat(One(encoding), AtFrames'))
      BY CatLess DEF Flowing, FlowParts
<1> QED BY <1>1, <1>2, FromEncode DEF AtEncode

LEMMA FromPack ==
  ASSUME Flowing, UNCHANGED <<packets, added, encCodec, encoding, frames>>, Less(AtPack, AtPack')
  PROVE  FifoStep
<1>1. Less(Cat(frames, AtPack), Cat(frames, AtPack')) BY CatLess DEF Flowing, FlowParts
<1> QED BY <1>1, FromFrames DEF AtFrames

LEMMA FromPcm ==
  ASSUME Flowing, UNCHANGED <<packets, added, encCodec, encoding, frames, packing>>,
         Less(AtPcm, AtPcm')
  PROVE  FifoStep
<1>1. One(packing)' = One(packing) OBVIOUS
<1>2. Less(Cat(One(packing), AtPcm), Cat(One(packing), AtPcm'))
      BY CatLess DEF Flowing, FlowParts
<1> QED BY <1>1, <1>2, FromPack DEF AtPack

LEMMA FromScale ==
  ASSUME Flowing, UNCHANGED <<packets, added, encCodec, encoding, frames, packing, pcm>>,
         Less(AtScale, AtScale')
  PROVE  FifoStep
<1>1. InPcm' = InPcm BY DEF InPcm
<1>2. Less(Cat(InPcm, AtScale), Cat(InPcm, AtScale')) BY CatLess DEF Flowing, FlowParts
<1> QED BY <1>1, <1>2, FromPcm DEF AtPcm

LEMMA FromYuv ==
  ASSUME Flowing, UNCHANGED <<packets, added, encCodec, encoding, frames, packing, pcm, scaling>>,
         Less(AtYuv, AtYuv')
  PROVE  FifoStep
<1>1. One(scaling)' = One(scaling) OBVIOUS
<1>2. Less(Cat(One(scaling), AtYuv), Cat(One(scaling), AtYuv'))
      BY CatLess DEF Flowing, FlowParts
<1> QED BY <1>1, <1>2, FromScale DEF AtScale

LEMMA Empties ==
  ASSUME Flowing, NEW x, x = 0
  PROVE  One(x) = <<>> /\ \A q \in Seq(Item) : Cat(One(x), q) = q
BY CatLaws DEF One

(* An item is taken from the front of a list, or put at its end. *)
LEMMA Taken ==
  ASSUME Flowing, NEW q \in Seq(Item), NEW t \in Seq(Item), q # <<>>, NEW x, x = Head(q)
  PROVE  Cat(One(x), Cat(Tail(q), t)) = Cat(q, t) /\ Cat(One(x), Tail(q)) = q
<1>1. Head(q) \in Item BY Lists
<1>2. One(x) = <<Head(q)>> BY <1>1, OneOf DEF Flowing, PathInv, Listed
<1>3. <<Head(q)>> = One(x) BY <1>2
<1>4. Cat(<<Head(q)>>, Cat(Tail(q), t)) = Cat(q, t) BY HandedOn
<1>5. Cat(<<Head(q)>>, Tail(q)) = q BY CatLaws
<1> QED BY <1>3, <1>4, <1>5

LEMMA Given ==
  ASSUME Flowing, NEW q \in Seq(Item), NEW t \in Seq(Item), NEW x \in No, x # 0
  PROVE  Cat(Append(q, x), t) = Cat(q, Cat(One(x), t)) /\ Less(Cat(One(x), t), t)
<1>1. x \in Item BY Items DEF Flowing, PathInv, Listed
<1>2. <<x>> = One(x) BY <1>1, OneOf DEF Flowing, PathInv, Listed
<1>3. Cat(Append(q, x), t) = Cat(q, Cat(<<x>>, t)) BY <1>1, HandedOn
<1>4. Less(Cat(<<x>>, t), t) BY <1>1, CatLess
<1> QED BY <1>2, <1>3, <1>4

LEMMA FifoDec ==
  ASSUME Flowing, Dec
  PROVE  FifoStep
<1> USE DEF DecStep, scaleVars, packVars, encVars, ownVars
<1>1. UNCHANGED <<packets, added, encCodec, encoding, frames, packing, pcm, scaling>>
      BY DEF Dec, DecTop, DecIdle, DecPop, DecSend, DecRefused, DecReceive, DecPush, DecAgain
<1>2. ASSUME AtYuv' = AtYuv PROVE FifoStep BY <1>1, <1>2, FromYuv DEF Less
<1>3. /\ es \in Seq(Item) /\ decCodec \in Seq(Item) /\ yuv \in Seq(Item)
      /\ AtDecode \in Seq(Item) /\ AtCodec \in Seq(Item) /\ AtReceive \in Seq(Item)
      /\ AtDecode' \in Seq(Item) /\ AtCodec' \in Seq(Item) /\ AtReceive' \in Seq(Item)
      /\ decoding \in No /\ received \in No
      /\ decoding # 0 <=> decPc = "send"
      /\ received # 0 <=> decPc = "push"
      BY DEF Flowing, FlowParts, PathInv, Listed, InHand
<1>4. CASE DecTop \/ DecIdle \/ DecAgain
  <2>1. UNCHANGED <<yuv, received, decCodec, decoding, es>>
        BY <1>4 DEF DecTop, DecIdle, DecAgain
  <2>2. AtYuv' = AtYuv BY <2>1 DEF AtYuv, AtReceive, AtCodec, AtDecode
  <2> QED BY <1>2, <2>2
<1>5. CASE DecPop
  <2>1. /\ es # <<>> /\ decoding = 0 /\ decoding' = Head(es) /\ es' = Tail(es)
        /\ UNCHANGED <<yuv, received, decCodec>>
        BY <1>3, <1>5 DEF DecPop
  <2>2. AtDecode' = es BY <1>3, <2>1, Taken DEF AtDecode
  <2>3. AtDecode = es BY <1>3, <2>1, Empties DEF AtDecode
  <2>4. AtYuv' = AtYuv BY <2>1, <2>2, <2>3 DEF AtYuv, AtReceive, AtCodec
  <2> QED BY <1>2, <2>4
<1>6. CASE DecSend
  <2>1. /\ decoding # 0 /\ decoding' = 0 /\ decCodec' = Append(decCodec, decoding)
        /\ UNCHANGED <<yuv, received, es>>
        BY <1>3, <1>6 DEF DecSend
  <2>2. AtDecode' = es BY <1>3, <2>1, Empties DEF AtDecode
  <2>3. AtCodec' = AtCodec BY <1>3, <2>1, <2>2, Given DEF AtCodec, AtDecode
  <2>4. AtYuv' = AtYuv BY <2>1, <2>3 DEF AtYuv, AtReceive
  <2> QED BY <1>2, <2>4
<1>7. CASE DecRefused
  <2>1. /\ decoding # 0 /\ decoding' = 0 /\ UNCHANGED <<yuv, received, decCodec, es>>
        BY <1>3, <1>7 DEF DecRefused
  <2>2. AtDecode' = es BY <1>3, <2>1, Empties DEF AtDecode
  <2>3. Less(AtDecode, AtDecode') BY <1>3, <2>1, <2>2, Given DEF AtDecode
  <2>4. Less(AtCodec, AtCodec') BY <1>3, <2>1, <2>3, CatLess DEF AtCodec
  <2>5. One(received) \in Seq(Item) BY DEF Flowing, FlowParts
  <2>6. Less(AtReceive, AtReceive') BY <1>3, <2>1, <2>4, <2>5, CatLess DEF AtReceive
  <2>7. Less(AtYuv, AtYuv') BY <1>3, <2>1, <2>6, CatLess DEF AtYuv
  <2> QED BY <1>1, <2>7, FromYuv
<1>8. CASE DecReceive
  <2>1. /\ decCodec # <<>> /\ received = 0 /\ received' = Head(decCodec)
        /\ decCodec' = Tail(decCodec) /\ UNCHANGED <<yuv, decoding, es>>
    <3>1. Len(<<>>) = 0 OBVIOUS
    <3> QED BY <1>3, <1>8, <3>1, AacAssumption DEF DecReceive, DecGives
  <2>2. AtDecode' = AtDecode BY <2>1 DEF AtDecode
  <2>3. AtReceive' = AtCodec BY <1>3, <2>1, <2>2, Taken DEF AtReceive, AtCodec
  <2>4. AtReceive = AtCodec BY <1>3, <2>1, Empties DEF AtReceive
  <2>5. AtYuv' = AtYuv BY <2>1, <2>3, <2>4 DEF AtYuv
  <2> QED BY <1>2, <2>5
<1>9. CASE DecPush
  <2>1. /\ received # 0 /\ received' = 0 /\ yuv' = Append(yuv, received)
        /\ UNCHANGED <<decCodec, decoding, es>>
        BY <1>3, <1>9 DEF DecPush, Push
  <2>2. AtCodec' = AtCodec BY <2>1 DEF AtCodec, AtDecode
  <2>3. AtReceive' = AtCodec BY <1>3, <2>1, <2>2, Empties DEF AtReceive
  <2>4. AtYuv' = AtYuv BY <1>3, <2>1, <2>3, Given DEF AtYuv, AtReceive
  <2> QED BY <1>2, <2>4
<1> QED BY <1>4, <1>5, <1>6, <1>7, <1>8, <1>9 DEF Dec

LEMMA FifoScale ==
  ASSUME Flowing, Scale
  PROVE  FifoStep
<1> USE DEF ScaleStep, decVars, ownVars
<1>1. UNCHANGED <<packets, added, encCodec, encoding, frames, packing, es, decoding, decCodec,
                  received>>
      BY DEF Scale, ScaleTop, ScaleIdle, ScalePop, ScaleMake, ScaleGrow, ScaleConvert
<1>2. /\ yuv \in Seq(Item) /\ AtReceive \in Seq(Item) /\ AtYuv \in Seq(Item)
      /\ AtYuv' \in Seq(Item) /\ InPcm \in Seq(Item) /\ scaling \in No
      /\ scaling # 0 <=> scalePc \in {"make", "grow", "convert"}
      BY DEF Flowing, FlowParts, PathInv, Listed, InHand
<1>3. AtReceive' = AtReceive BY <1>1 DEF AtReceive, AtCodec, AtDecode
<1>4. CASE ScaleTop \/ ScaleIdle \/ ScaleMake \/ ScaleGrow
  <2>1. UNCHANGED <<yuv, scaling, pcm>>
        BY <1>4 DEF ScaleTop, ScaleIdle, ScaleMake, ScaleGrow
  <2>2. AtYuv' = AtYuv BY <1>3, <2>1 DEF AtYuv
  <2> QED BY <1>1, <2>1, <2>2, FromYuv DEF Less
<1>5. CASE ScalePop
  <2>1. /\ yuv # <<>> /\ scaling = 0 /\ scaling' = Head(yuv) /\ yuv' = Tail(yuv) /\ pcm' = pcm
        BY <1>2, <1>5 DEF ScalePop
  <2>2. AtScale' = AtYuv BY <1>2, <1>3, <2>1, Taken DEF AtScale, AtYuv
  <2>3. AtScale = AtYuv BY <1>2, <2>1, Empties DEF AtScale
  <2> QED BY <1>1, <2>1, <2>2, <2>3, FromScale DEF Less
<1>6. CASE ScaleConvert
  <2> DEFINE b == [pic |-> scaling, len |-> Converted]
  <2>1. /\ scaling # 0 /\ scaling' = 0 /\ pcm' = Append(pcm, b) /\ yuv' = yuv
        BY <1>2, <1>6 DEF ScaleConvert, Push
  <2>2. AtYuv' = AtYuv BY <1>3, <2>1 DEF AtYuv
  <2>3. AtScale' = AtYuv BY <1>2, <2>1, <2>2, Empties DEF AtScale
  <2>4. InPcm' = Append(InPcm, scaling)
    <3>1. scaling \in Item BY <1>2, <2>1, Items DEF Flowing, PathInv, Listed
    <3>2. Converted \in Nat \ {0} BY <1>6, ConvertedSome DEF Flowing
    <3>3. b \in Block /\ PicOf[b] = scaling BY <3>1, <3>2 DEF Block, PicOf
    <3>4. pcm \in Seq(Block) /\ PicOf \in Maps(Block, Item) /\ InPcm = Mapped(pcm, PicOf)
          BY DEF Flowing, FlowParts, PathInv, Listed
    <3>5. PicOf' = PicOf
      <4>1. Block' = Block BY DEF Flowing, Block
      <4> QED BY <4>1 DEF PicOf
    <3>6. InPcm' = Mapped(pcm', PicOf) BY <3>5 DEF Flowing, FlowParts
    <3> HIDE DEF b
    <3>7. Mapped(Append(pcm, b), PicOf) = Append(Mapped(pcm, PicOf), PicOf[b])
          BY <3>3, <3>4, MappedAppend
    <3> QED BY <2>1, <3>3, <3>4, <3>6, <3>7
  <2>5. AtPcm' = AtPcm BY <1>2, <2>1, <2>3, <2>4, Given DEF AtPcm, AtScale
  <2> QED BY <1>1, <2>5, FromPcm DEF Less
<1> QED BY <1>4, <1>5, <1>6 DEF Scale

LEMMA FifoPack ==
  ASSUME Flowing, Pack
  PROVE  FifoStep
<1> USE DEF PackStep, decVars, scaleVars, encVars, ownVars
<1>1. UNCHANGED <<packets, added, encCodec, encoding, scaling, yuv, es, decoding, decCodec,
                  received>>
      BY DEF Pack, PackTop, PackIdle, PackPop, PackPush
<1>2. /\ frames \in Seq(Item) /\ InPcm \in Seq(Item) /\ AtScale \in Seq(Item)
      /\ AtPcm \in Seq(Item) /\ AtPcm' \in Seq(Item) /\ packing \in No
      /\ packing # 0 <=> packPc = "push"
      BY DEF Flowing, FlowParts, PathInv, Listed, InHand
<1>3. AtScale' = AtScale BY <1>1 DEF AtScale, AtYuv, AtReceive, AtCodec, AtDecode
<1>4. CASE PackTop \/ PackIdle
  <2>1. UNCHANGED <<pcm, packing, frames>> BY <1>4 DEF PackTop, PackIdle
  <2>2. AtPcm' = AtPcm BY <1>3, <2>1 DEF AtPcm, InPcm
  <2> QED BY <1>1, <2>1, <2>2, FromPcm DEF Less
<1>5. CASE PackPop
  <2>1. /\ pcm # <<>> /\ packing = 0 /\ packing' = Head(pcm).pic /\ pcm' = Tail(pcm)
        /\ frames' = frames
        BY <1>2, <1>5 DEF PackPop
  <2>2. InPcm # <<>> /\ packing' = Head(InPcm) /\ InPcm' = Tail(InPcm)
    <3>1. pcm \in Seq(Block) /\ PicOf \in Maps(Block, Item) /\ InPcm = Mapped(pcm, PicOf)
          BY DEF Flowing, FlowParts, PathInv, Listed
    <3>2. PicOf' = PicOf
      <4>1. Block' = Block BY DEF Flowing, Block
      <4> QED BY <4>1 DEF PicOf
    <3>3. InPcm' = Mapped(pcm', PicOf) BY <3>2 DEF Flowing, FlowParts
    <3>4. Head(pcm) \in Block BY <2>1, <3>1, Lists
    <3>5. PicOf[Head(pcm)] = Head(pcm).pic BY <3>4 DEF PicOf
    <3>6. /\ Mapped(pcm, PicOf) # <<>> /\ Head(Mapped(pcm, PicOf)) = PicOf[Head(pcm)]
          /\ Mapped(Tail(pcm), PicOf) = Tail(Mapped(pcm, PicOf))
          BY <2>1, <3>1, MappedPop
    <3> QED BY <2>1, <3>1, <3>3, <3>5, <3>6
  <2>3. AtPack' = AtPcm BY <1>2, <1>3, <2>2, Taken DEF AtPack, AtPcm
  <2>4. AtPack = AtPcm BY <1>2, <2>1, Empties DEF AtPack
  <2> QED BY <1>1, <2>1, <2>3, <2>4, FromPack DEF Less
<1>6. CASE PackPush
  <2>1. packing # 0 /\ packing' = 0 /\ frames' = Append(frames, packing) /\ pcm' = pcm
        BY <1>2, <1>6 DEF PackPush, Push
  <2>2. AtPcm' = AtPcm BY <1>3, <2>1 DEF AtPcm, InPcm
  <2>3. AtPack' = AtPcm BY <1>2, <2>1, <2>2, Empties DEF AtPack
  <2>4. AtFrames' = AtFrames BY <1>2, <2>1, <2>3, Given DEF AtFrames, AtPack
  <2> QED BY <1>1, <2>4, FromFrames DEF Less
<1> QED BY <1>4, <1>5, <1>6 DEF Pack

LEMMA FifoEnc ==
  ASSUME Flowing, Enc
  PROVE  FifoStep
<1> USE DEF EncStep, decVars, scaleVars, packVars, ownVars
<1>1. UNCHANGED <<added, packing, pcm, scaling, yuv, es, decoding, decCodec, received>>
      BY DEF Enc, EncTop, EncIdle, EncPop, EncSend, EncRefused, EncReceive, EncAgain, EncFlush,
             EncEnd, Deliver
<1>2. /\ encCodec \in Seq(Item) /\ frames \in Seq(Item) /\ AtPack \in Seq(Item)
      /\ AtFrames \in Seq(Item) /\ AtFrames' \in Seq(Item) /\ AtEncode \in Seq(Item)
      /\ Inside \in Seq(Item) /\ encoding \in No
      /\ encoding # 0 <=> encPc = "send"
      BY DEF Flowing, FlowParts, PathInv, Listed, InHand
<1>3. AtPack' = AtPack
      BY <1>1 DEF AtPack, AtPcm, InPcm, AtScale, AtYuv, AtReceive, AtCodec, AtDecode
<1>4. CASE EncTop \/ EncIdle \/ EncAgain \/ EncEnd
  <2>1. UNCHANGED <<packets, encCodec, encoding, frames>>
        BY <1>4 DEF EncTop, EncIdle, EncAgain, EncEnd
  <2>2. AtFrames' = AtFrames BY <1>3, <2>1 DEF AtFrames
  <2> QED BY <1>1, <2>1, <2>2, FromFrames DEF Less
<1>5. CASE EncPop
  <2>1. /\ frames # <<>> /\ encoding = 0 /\ encoding' = Head(frames) /\ frames' = Tail(frames)
        /\ UNCHANGED <<packets, encCodec>>
        BY <1>2, <1>5 DEF EncPop
  <2>2. AtEncode' = AtFrames BY <1>2, <1>3, <2>1, Taken DEF AtEncode, AtFrames
  <2>3. AtEncode = AtFrames BY <1>2, <2>1, Empties DEF AtEncode
  <2> QED BY <1>1, <2>1, <2>2, <2>3, FromEncode DEF Less
<1>6. CASE EncSend
  <2>1. /\ encoding # 0 /\ encoding' = 0 /\ encCodec' = Append(encCodec, encoding)
        /\ UNCHANGED <<packets, frames>>
        BY <1>2, <1>6 DEF EncSend
  <2>2. AtFrames' = AtFrames BY <1>3, <2>1 DEF AtFrames
  <2>3. AtEncode' = AtFrames BY <1>2, <2>1, <2>2, Empties DEF AtEncode
  <2>4. Inside' = Inside BY <1>2, <2>1, <2>3, Given DEF Inside, AtEncode
  <2> QED BY <1>1, <2>1, <2>4 DEF FifoStep
<1>7. CASE EncRefused
  <2>1. encoding # 0 /\ encoding' = 0 /\ UNCHANGED <<packets, encCodec, frames>>
        BY <1>2, <1>7 DEF EncRefused
  <2>2. AtFrames' = AtFrames BY <1>3, <2>1 DEF AtFrames
  <2>3. AtEncode' = AtFrames BY <1>2, <2>1, <2>2, Empties DEF AtEncode
  <2>4. Less(AtEncode, AtEncode') BY <1>2, <2>1, <2>3, Given DEF AtEncode
  <2> QED BY <1>1, <2>1, <2>4, FromEncode
<1>8. CASE EncReceive \/ EncFlush
  <2> DEFINE h == Head(encCodec)
             t == Tail(encCodec)
  <2>1. /\ packets' = Append(packets, h) /\ encCodec' = t /\ encCodec # <<>>
        /\ UNCHANGED <<frames, encoding>>
    <3>1. Len(<<>>) = 0 OBVIOUS
    <3> QED BY <1>8, <3>1, AacAssumption DEF EncReceive, EncFlush, Deliver
  <2>2. AtEncode' = AtEncode BY <1>3, <2>1 DEF AtEncode, AtFrames
  <2>3. Cat(<<h>>, Cat(t, AtEncode)) = Inside BY <1>2, <2>1, HandedOn DEF Inside
  <2>4. h \in Item /\ t \in Seq(Item) BY <1>2, <2>1, Lists
  <2> HIDE DEF h, t
  <2>5. Inside' = Cat(t, AtEncode) BY <2>1, <2>2 DEF Inside
  <2>6. Cat(t, AtEncode) \in Seq(Item) BY <1>2, <2>4, CatLaws
  <2>7. Inside # <<>> /\ Head(Inside) = h /\ Tail(Inside) = Cat(t, AtEncode)
        BY <2>3, <2>4, <2>6, CatFirst
  <2> QED BY <1>1, <2>1, <2>5, <2>7 DEF FifoStep, GiveStep
<1> QED BY <1>4, <1>5, <1>6, <1>7, <1>8 DEF Enc

(* A packet that is put in joins what is at every place before it. *)
LEMMA JoinsAll ==
  ASSUME Flowing, NEW x \in Item, Joined(es, es', x),
         UNCHANGED <<decoding, decCodec, received, yuv, scaling, pcm, packing, frames, encoding,
                     encCodec>>
  PROVE  Joined(Inside, Inside', x)
<1>1. /\ FlowParts /\ FlowParts' /\ Item' = Item /\ InPcm' = InPcm BY DEF Flowing, InPcm
<1>2. /\ One(decoding)' = One(decoding) /\ One(received)' = One(received)
      /\ One(scaling)' = One(scaling) /\ One(packing)' = One(packing)
      /\ One(encoding)' = One(encoding)
      OBVIOUS
<1>3. \A a, q, r \in Seq(Item) : Joined(q, r, x) => Joined(Cat(a, q), Cat(a, r), x)
      BY CatJoined
<1>4. Joined(AtDecode, AtDecode', x) BY <1>1, <1>2, <1>3 DEF AtDecode, FlowParts
<1>5. Joined(AtCodec, AtCodec', x) BY <1>1, <1>3, <1>4 DEF AtCodec, FlowParts
<1>6. Joined(AtReceive, AtReceive', x) BY <1>1, <1>2, <1>3, <1>5 DEF AtReceive, FlowParts
<1>7. Joined(AtYuv, AtYuv', x) BY <1>1, <1>3, <1>6 DEF AtYuv, FlowParts
<1>8. Joined(AtScale, AtScale', x) BY <1>1, <1>2, <1>3, <1>7 DEF AtScale, FlowParts
<1>9. Joined(AtPcm, AtPcm', x) BY <1>1, <1>3, <1>8 DEF AtPcm, FlowParts
<1>10. Joined(AtPack, AtPack', x) BY <1>1, <1>2, <1>3, <1>9 DEF AtPack, FlowParts
<1>11. Joined(AtFrames, AtFrames', x) BY <1>1, <1>3, <1>10 DEF AtFrames, FlowParts
<1>12. Joined(AtEncode, AtEncode', x) BY <1>1, <1>2, <1>3, <1>11 DEF AtEncode, FlowParts
<1> QED BY <1>1, <1>3, <1>12 DEF Inside, FlowParts

LEMMA FifoOwner ==
  ASSUME Flowing, Owner
  PROVE  FifoStep
<1> USE DEF OwnerStep, decVars, scaleVars, packVars, encVars, ownVars
<1>1. UNCHANGED <<packets, decoding, decCodec, received, scaling, packing, encoding, encCodec>>
      BY DEF Owner, OnAudioData, Destroy, Teardown, JoinDec, JoinScale, JoinEnc, JoinPack
<1>2. \A q \in Seq(Item) : Cat(<<>>, q) = q /\ Cat(q, <<>>) = q BY CatLaws
<1>3. <<>> \in Seq(Item) BY Lists
<1>4. CASE OnAudioData
  <2>1. /\ added < NumPackets /\ added' = added + 1 /\ es' = Append(es, added + 1)
        /\ UNCHANGED <<yuv, pcm, frames>>
        BY <1>4 DEF OnAudioData, Push
  <2>2. added + 1 \in Item
    <3>1. stream \in Streams /\ added \in No BY DEF Flowing, PathInv, Listed
    <3> QED BY <2>1, <3>1, Rates DEF No, Item
  <2>3. es \in Seq(Item) BY DEF Flowing, FlowParts
  <2>4. Joined(es, es', added + 1) BY <2>1, <2>3, JoinedLast
  <2>5. Joined(Inside, Inside', added + 1) BY <1>1, <2>1, <2>2, <2>4, JoinsAll
  <2> QED BY <1>1, <2>1, <2>5 DEF FifoStep, PutStep
<1>5. CASE Destroy \/ JoinDec \/ JoinEnc
  <2>1. UNCHANGED <<added, es, yuv, pcm, frames>>
        BY <1>5 DEF Destroy, JoinDec, JoinEnc
  <2>2. AtYuv' = AtYuv BY <1>1, <2>1 DEF AtYuv, AtReceive, AtCodec, AtDecode
  <2> QED BY <1>1, <2>1, <2>2, FromYuv DEF Less
<1>6. CASE JoinScale
  <2>1. /\ es' = <<>> /\ yuv' = <<>> /\ UNCHANGED <<added, pcm, frames>> /\ decPc = "done"
        BY <1>6 DEF JoinScale, Flowing, PathInv, Ending
  <2>2. decoding' = 0 /\ received' = 0 /\ decCodec' = <<>>
        BY <1>1, <2>1 DEF Flowing, PathInv, InHand, Ending
  <2>3. One(decoding)' = <<>> /\ One(received)' = <<>> BY <2>2 DEF One
  <2>4. AtDecode' = <<>> BY <1>2, <1>3, <2>1, <2>3 DEF AtDecode
  <2>5. AtCodec' = <<>> BY <1>2, <1>3, <2>2, <2>4 DEF AtCodec
  <2>6. AtReceive' = <<>> BY <1>2, <1>3, <2>3, <2>5 DEF AtReceive
  <2>7. AtYuv' = <<>> BY <1>2, <1>3, <2>1, <2>6 DEF AtYuv
  <2>8. AtYuv \in Seq(Item) BY DEF Flowing, FlowParts
  <2>9. Less(AtYuv, AtYuv') BY <2>7, <2>8, CatLess
  <2> QED BY <1>1, <2>1, <2>9, FromYuv
<1>7. CASE JoinPack
  <2>1. /\ pcm' = <<>> /\ frames' = <<>> /\ UNCHANGED <<added, es, yuv>>
        /\ opc = "joinPack" /\ packPc = "done"
        BY <1>7 DEF JoinPack
  <2>2. /\ decPc = "done" /\ scalePc = "done" /\ encPc = "done" /\ es = <<>> /\ yuv = <<>>
        BY <2>1 DEF Flowing, PathInv, Ending
  <2>3. /\ decoding' = 0 /\ received' = 0 /\ scaling' = 0 /\ packing' = 0 /\ encoding' = 0
        /\ decCodec' = <<>> /\ encCodec' = <<>> /\ es' = <<>> /\ yuv' = <<>>
        BY <1>1, <2>1, <2>2 DEF Flowing, PathInv, InHand, Ending
  <2>4. /\ One(decoding)' = <<>> /\ One(received)' = <<>> /\ One(scaling)' = <<>>
        /\ One(packing)' = <<>> /\ One(encoding)' = <<>>
        BY <2>3 DEF One
  <2>5. AtDecode' = <<>> BY <1>2, <1>3, <2>3, <2>4 DEF AtDecode
  <2>6. AtCodec' = <<>> BY <1>2, <1>3, <2>3, <2>5 DEF AtCodec
  <2>7. AtReceive' = <<>> BY <1>2, <1>3, <2>4, <2>6 DEF AtReceive
  <2>8. AtYuv' = <<>> BY <1>2, <1>3, <2>3, <2>7 DEF AtYuv
  <2>9. AtScale' = <<>> BY <1>2, <1>3, <2>4, <2>8 DEF AtScale
  <2>10. InPcm' = <<>>
    <3>1. InPcm' = [i \in DOMAIN <<>> |-> pcm'[i].pic] BY <2>1 DEF InPcm
    <3> QED BY <3>1
  <2>11. AtPcm' = <<>> BY <1>2, <1>3, <2>9, <2>10 DEF AtPcm
  <2>12. AtPack' = <<>> BY <1>2, <1>3, <2>4, <2>11 DEF AtPack
  <2>13. AtFrames' = <<>> BY <1>2, <1>3, <2>1, <2>12 DEF AtFrames
  <2>14. AtEncode' = <<>> BY <1>2, <1>3, <2>4, <2>13 DEF AtEncode
  <2>15. Inside' = <<>> BY <1>2, <1>3, <2>3, <2>14 DEF Inside
  <2>16. Inside \in Seq(Item) BY DEF Flowing, FlowParts
  <2>17. Less(Inside, Inside') BY <2>15, <2>16, CatLess
  <2> QED BY <1>1, <2>1, <2>17, FromInside
<1> QED BY <1>4, <1>5, <1>6, <1>7 DEF Owner, Teardown

LEMMA StepFifo == PathInv /\ [Next]_vars => FifoStep
<1> SUFFICES ASSUME PathInv, [Next]_vars PROVE FifoStep OBVIOUS
<1>1. stream' = stream BY StreamStays
<1>2. Flowing BY <1>1, StepPath, Parts, PartsNext, Fixed DEF Flowing
<1>3. CASE UNCHANGED vars
  <2>1. AtYuv' = AtYuv BY <1>3 DEF vars, decVars, AtYuv, AtReceive, AtCodec, AtDecode
  <2> QED BY <1>2, <1>3, <2>1, FromYuv
          DEF Less, vars, encVars, packVars, scaleVars, ownVars
<1> QED BY <1>2, <1>3, FifoDec, FifoScale, FifoPack, FifoEnc, FifoOwner DEF Next

(***************************************************************************)
(* No packet is counted twice: what is inside and what has come out are    *)
(* together no more than what was put in.                                  *)
(***************************************************************************)
Counted == Len(Inside) + Len(packets) <= added
WholeInv == ExactInv /\ Counted

LEMMA StepCounted ==
  ASSUME PathInv, PathInv', FlowParts, FlowParts', stream' = stream, Counted, FifoStep
  PROVE  Counted'
<1>1. /\ Inside \in Seq(Item) /\ packets \in Seq(Item) /\ added \in Nat
      BY Items DEF PathInv, Listed, FlowParts
<1>2. Len(Inside) \in Nat /\ Len(packets) \in Nat BY <1>1
<1>3. CASE LoseStep
  <2>1. Len(Inside') \in Nat /\ Len(Inside') <= Len(Inside)
        BY <1>1, <1>3, StageLength DEF LoseStep
  <2> QED BY <1>1, <1>2, <1>3, <2>1 DEF LoseStep, Counted
<1>4. CASE PutStep
  <2>1. added + 1 \in Item
    <3>1. added' \in No /\ No' = No /\ NumPackets \in Nat
          BY Fixed, Rates DEF PathInv, Listed
    <3> QED BY <1>1, <1>4, <3>1 DEF PutStep, No, Item
  <2>2. Len(Inside') \in Nat /\ Len(Inside') <= Len(Inside) + 1
        BY <1>1, <1>4, <2>1, StageLength DEF PutStep
  <2> QED BY <1>1, <1>2, <1>4, <2>2 DEF PutStep, Counted
<1>5. CASE GiveStep
  <2>1. Head(Inside) \in Item /\ Len(Inside') = Len(Inside) - 1
        BY <1>1, <1>5, Lists, HeadTailProperties DEF GiveStep
  <2>2. Len(packets') = Len(packets) + 1
        BY <1>1, <1>5, <2>1, AppendProperties DEF GiveStep
  <2> QED BY <1>1, <1>2, <1>5, <2>1, <2>2 DEF GiveStep, Counted
<1> QED BY <1>3, <1>4, <1>5 DEF FifoStep, Counted

LEMMA InitInside == Init => Inside = <<>> /\ Counted
<1> SUFFICES ASSUME Init PROVE Inside = <<>> /\ Counted OBVIOUS
<1>1. FlowParts BY InitPath, Parts
<1>2. /\ One(decoding) = <<>> /\ One(received) = <<>> /\ One(scaling) = <<>>
      /\ One(packing) = <<>> /\ One(encoding) = <<>>
      BY DEF Init, One
<1>3. /\ es = <<>> /\ decCodec = <<>> /\ yuv = <<>> /\ frames = <<>> /\ encCodec = <<>>
      /\ packets = <<>> /\ pcm = <<>> /\ added = 0
      BY DEF Init
<1>4. Cat(<<>>, <<>>) = <<>> BY CatLaws, Lists
<1>5. InPcm = <<>>
  <2>1. InPcm = [i \in DOMAIN <<>> |-> pcm[i].pic] BY <1>3 DEF InPcm
  <2> QED BY <2>1
<1>6. AtDecode = <<>> BY <1>2, <1>3, <1>4 DEF AtDecode
<1>7. AtCodec = <<>> BY <1>3, <1>4, <1>6 DEF AtCodec
<1>8. AtReceive = <<>> BY <1>2, <1>4, <1>7 DEF AtReceive
<1>9. AtYuv = <<>> BY <1>3, <1>4, <1>8 DEF AtYuv
<1>10. AtScale = <<>> BY <1>2, <1>4, <1>9 DEF AtScale
<1>11. AtPcm = <<>> BY <1>4, <1>5, <1>10 DEF AtPcm
<1>12. AtPack = <<>> BY <1>2, <1>4, <1>11 DEF AtPack
<1>13. AtFrames = <<>> BY <1>3, <1>4, <1>12 DEF AtFrames
<1>14. AtEncode = <<>> BY <1>2, <1>4, <1>13 DEF AtEncode
<1>15. Inside = <<>> BY <1>3, <1>4, <1>14 DEF Inside
<1>16. Len(<<>>) = 0 OBVIOUS
<1> QED BY <1>3, <1>15, <1>16 DEF Counted

LEMMA StepWhole == WholeInv /\ [Next]_vars => WholeInv'
<1> SUFFICES ASSUME WholeInv, [Next]_vars PROVE WholeInv' OBVIOUS
<1>1. ExactInv /\ ExactInv' BY StepExact DEF WholeInv
<1>2. PathInv /\ PathInv' BY <1>1 DEF ExactInv
<1>3. FlowParts /\ FlowParts' BY <1>2, Parts, PartsNext
<1>4. Counted' BY <1>2, <1>3, StreamStays, StepFifo, StepCounted DEF WholeInv
<1> QED BY <1>1, <1>4 DEF WholeInv

LEMMA Whole == SafeSpec => []WholeInv
<1>1. Init => WholeInv BY InitExact, InitInside DEF WholeInv
<1> QED BY <1>1, StepWhole, PTL DEF SafeSpec

LEMMA WholeTyped == WholeInv => TypeOK
<1> SUFFICES ASSUME WholeInv PROVE TypeOK OBVIOUS
<1>1. PathInv /\ FlowParts /\ stream \in Streams
      BY Parts DEF WholeInv, ExactInv, PathInv, Listed
<1>2. accepted \in No
  <2>1. /\ Len(Inside) + Len(packets) <= added /\ accepted = Len(packets) + Len(encCodec)
        /\ added \in No /\ accepted \in Nat /\ packets \in Seq(Item)
        /\ encCodec \in Seq(Item) /\ AtEncode \in Seq(Item)
        BY <1>1 DEF WholeInv, Counted, PathInv, Listed, Ending, FlowParts
  <2>2. Len(Inside) = Len(encCodec) + Len(AtEncode)
        BY <2>1, ConcatProperties DEF Inside, Cat
  <2>3. Len(packets) \in Nat /\ Len(encCodec) \in Nat /\ Len(AtEncode) \in Nat BY <2>1
  <2>4. NumPackets \in Nat BY <1>1, Rates
  <2> QED BY <2>1, <2>2, <2>3, <2>4 DEF No
<1>3. /\ es \in Seq(No) /\ decCodec \in Seq(No) /\ yuv \in Seq(No) /\ frames \in Seq(No)
      /\ encCodec \in Seq(No) /\ packets \in Seq(No)
      BY <1>1, Items DEF PathInv, Listed
<1>4. pcm \in Seq([pic : No, len : Nat])
  <2>1. Block \subseteq [pic : No, len : Nat]
    <3>1. \A x \in Item : x \in No BY <1>1, Items
    <3> QED BY <3>1 DEF Block
  <2> DEFINE B == [pic : No, len : Nat]
  <2>2. pcm \in Seq(Block) /\ Block \subseteq B BY <1>1, <2>1 DEF PathInv, Listed
  <2> HIDE DEF B
  <2>3. pcm \in Seq(B) BY <2>2
  <2> QED BY <2>3 DEF B
<1>5. srcNb \in Nat BY <1>1, Rates DEF PathInv, Listed
<1> QED BY <1>1, <1>2, <1>3, <1>4, <1>5 DEF TypeOK, PathInv, Listed

LEMMA WholeKept == WholeInv => SamplesKept
<1> SUFFICES ASSUME WholeInv PROVE SamplesKept OBVIOUS
<1>1. PathInv BY DEF WholeInv, ExactInv
<1>2. NoPileUp
  <2>1. \A i \in DOMAIN pcm : pcm[i].len > 0
    <3>1. pcm \in Seq(Block) BY <1>1 DEF PathInv, Listed
    <3>2. \A i \in DOMAIN pcm : pcm[i] \in Block BY <3>1, ElementOfSeq
    <3> QED BY <3>2 DEF Block
  <2>2. pcm # <<>> \/ packing # 0 => made /\ encSrcNb > 0
        BY <1>1 DEF PathInv, Made, InHand
  <2> QED BY <1>1, <2>1, <2>2 DEF NoPileUp, PathInv, Resampler
<1>3. UniformStreamWhole
  <2>1. ASSUME Uniform
        PROVE  spoilt = {} /\ kept = 0 /\ (made => encSrcNb = ProfileLength)
    <3>1. PICK n \in {LcLen, HeLen} : Lengths = {n} BY <2>1 DEF Uniform
    <3>2. AllAre(n) BY <2>1, <3>1 DEF WholeInv, ExactInv
    <3> QED BY <3>1, <3>2 DEF AllAre, ProfileLength
  <2>2. ASSUME opc = "dead" PROVE Len(packets) = accepted
    <3>1. encCodec = <<>> /\ accepted = Len(packets) + Len(encCodec) /\ packets \in Seq(Item)
          BY <1>1, <2>2 DEF PathInv, Ending, Made, Listed
    <3>2. Len(<<>>) = 0 OBVIOUS
    <3> QED BY <3>1, <3>2
  <2> QED BY <2>1, <2>2 DEF UniformStreamWhole
<1> QED BY <1>2, <1>3, WholeTyped DEF SamplesKept

(***************************************************************************)
(* Every list of the path holds packets of the stream, every thread at     *)
(* most one of them, and the codec has not taken more than were added.     *)
(***************************************************************************)
THEOREM TypeCorrect == SafeSpec => []TypeOK
<1> QED BY Whole, WholeTyped, PTL

(***************************************************************************)
(* Although the resampler's room is computed from the length of whichever  *)
(* frame the decode thread received last, never more than one frame's      *)
(* samples pile up in it; no block is empty; and a stream of frames as     *)
(* long as a profile's, at the output's rate, is encoded sample by sample, *)
(* to the last frame the codec took.                                       *)
(***************************************************************************)
THEOREM NoSampleLost == SafeSpec => []SamplesKept
<1> QED BY Whole, WholeKept, PTL

LEMMA StepChannel == PathInv /\ PathInv' /\ [Next]_vars => [LF!Next]_(LF!vars)
<1> SUFFICES ASSUME PathInv, PathInv', [Next]_vars PROVE [LF!Next]_(LF!vars) OBVIOUS
<1> USE DEF Inside, AtEncode, AtFrames, AtPack, AtPcm, AtScale, AtYuv, AtReceive, AtCodec,
            AtDecode, InDecoder, Cat
<1>1. FifoStep BY StepFifo
<1>2. UNCHANGED <<Inside, packets, added>> => UNCHANGED LF!vars BY DEF LF!vars
<1>3. LoseStep => LF!Lose BY DEF LoseStep, Lossy, LF!Lose, LF!Without
<1>4. PutStep => LF!Put BY DEF PutStep, Joined, LF!Put
<1>5. GiveStep => LF!Get BY DEF GiveStep, LF!Get
<1> QED BY <1>1, <1>2, <1>3, <1>4, <1>5 DEF FifoStep, LF!Next

LEMMA InitChannel == Init => LF!Init
<1> SUFFICES ASSUME Init PROVE LF!Init OBVIOUS
<1>1. Inside = <<>> /\ packets = <<>> /\ added = 0 BY InitInside DEF Init
<1> QED BY <1>1 DEF LF!Init, Inside, AtEncode, AtFrames, AtPack, AtPcm, AtScale, AtYuv,
                    AtReceive, AtCodec, AtDecode, InDecoder, Cat

(***************************************************************************)
(* The four threads and their lists are a channel that may lose packets,   *)
(* refused by a codec or freed by the destructor, but never reorders or    *)
(* repeats one.                                                            *)
(***************************************************************************)
THEOREM PathImplementsFifo == SafeSpec => AudioIsFifo
<1>1. WholeInv => PathInv BY DEF WholeInv, ExactInv
<1> QED BY <1>1, Whole, InitChannel, StepChannel, PTL DEF SafeSpec, AudioIsFifo, LF!Spec
=============================================================================
